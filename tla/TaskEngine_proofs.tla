-------------------------- MODULE TaskEngine_proofs --------------------------
(***************************************************************************)
(* What TLAPS proves of TaskEngine, for any number of tasks, workers,      *)
(* owners, leases and retries, and any values of the limits.               *)
(***************************************************************************)
EXTENDS TaskEngine, FiniteSetTheorems, TLAPS

----------------------------------------------------------------------------
(* The inductive invariant.  LeaseMatchesStatus alone is not inductive: a   *)
(* step needs to know that a lease row carries the newest grant, and a      *)
(* receipt needs an obligation to point at.                                 *)

\* A task that exists was assigned to its creator, and one of those receipts
\* is the most recent.
HasObligation ==
    \A t \in Tasks : status[t] # "none" =>
        \E n \in OwnOffers(t) : \A m \in OwnOffers(t) : m <= n

\* The lease row of a task is for the last grant it was given.
LeaseIsCurrent == \A l \in leases : l.grant = grants[l.task]

CustodyInv == TypeOK /\ HasObligation /\ LeaseMatchesStatus /\ LeaseIsCurrent

----------------------------------------------------------------------------
(* Lemmas about the queries *)

LEMMA Constants ==
    /\ \A n \in {MaxBatch, BackoffBase, MaxBackoff, MaxJitter, MaxDelay,
                 MaxRenewals, MaxLifetime, MaxGrants, MaxOffers} : n \in Nat
    /\ MaxTTL \in Nat
    /\ MaxAge \in Nat
BY EngineAssumption DEF MaxAge

\* The receipts that operations point at exist, and are numbered from 1.
LEMMA ObligationIsOffer ==
    ASSUME TypeOK, HasObligation, NEW t \in Tasks, status[t] # "none"
    PROVE  /\ Obligation(t) \in OwnOffers(t)
           /\ Obligation(t) \in Nat
<1>1. PICK n \in OwnOffers(t) : \A m \in OwnOffers(t) : m <= n
  BY DEF HasObligation
<1>2. /\ Obligation(t) \in OwnOffers(t)
      /\ \A m \in OwnOffers(t) : m <= Obligation(t)
  BY <1>1 DEF Obligation
<1>3. offers[t] \in Seq(Owners)
  BY DEF TypeOK
<1>4. DOMAIN offers[t] \subseteq Nat
  BY <1>3
<1>. QED  BY <1>2, <1>4 DEF OwnOffers

\* The delay before a retry is a natural number, however large the exponent.
LEMMA BackoffType == \A n : Backoff(n) \in Nat
BY Constants DEF Backoff

\* A lease row belongs to a task, which exists.
LEMMA LeaseTask ==
    ASSUME TypeOK, LeaseMatchesStatus, NEW l \in leases
    PROVE  /\ l \in Lease
           /\ l.task \in Tasks
           /\ l.grant \in Nat
           /\ status[l.task] \in Active
           /\ LeasesOf(l.task) = {l}
<1>1. l \in Lease /\ l.task \in Tasks /\ l.grant \in Nat
  BY DEF TypeOK, Lease
<1>2. l \in LeasesOf(l.task)
  BY DEF LeasesOf
<1>. QED  BY <1>1, <1>2 DEF LeaseMatchesStatus, LeasesOf

\* Releasing a lease leaves the others, and the task without one.
LEMMA ReleaseOne ==
    ASSUME TypeOK, LeaseMatchesStatus, NEW l \in leases
    PROVE  Release(l) = leases \ {l}
<1>1. \A k \in leases : k.task = l.task => k = l
  BY DEF LeaseMatchesStatus
<1>. QED  BY <1>1 DEF Release

LEMMA EmitType ==
    ASSUME NEW type \in ReceiptType, NEW t \in Tasks, NEW g \in Nat, NEW n \in Nat
    PROVE  Emit(type, t, g, n) \in Receipt
BY DEF Emit, Receipt

----------------------------------------------------------------------------
(* Type correctness, step by step *)

LEMMA TypeInit == Init => TypeOK
BY DEF Init, TypeOK, Status

LEMMA TypeStep == CustodyInv /\ [Next]_vars => TypeOK'
<1> SUFFICES ASSUME CustodyInv, [Next]_vars
             PROVE  TypeOK'
  OBVIOUS
<1> USE Constants DEF CustodyInv
<1>1. ASSUME NEW t \in Tasks, NEW o \in Owners, NEW delay \in 0..MaxDelay,
             CreateTask(t, o, delay)
      PROVE  TypeOK'
  <2>1. status' \in [Tasks -> Status] /\ wait' \in [Tasks -> Nat]
    BY <1>1 DEF CreateTask, TypeOK, Status
  <2>2. creator' \in [Tasks -> Owners \cup {NoOwner}] /\ created' \in Seq(Tasks)
    BY <1>1 DEF CreateTask, TypeOK
  <2>3. <<o>> \in Seq(Owners)
    OBVIOUS
  <2>4. offers' \in [Tasks -> Seq(Owners)]
    BY <1>1, <2>3 DEF CreateTask, TypeOK
  <2>. QED  BY <1>1, <2>1, <2>2, <2>4 DEF CreateTask, TypeOK
<1>2. ASSUME NEW t \in Tasks, NEW o \in Owners, ReplayCreate(t, o)
      PROVE  TypeOK'
  <2>1. Append(offers[t], o) \in Seq(Owners)
    BY DEF TypeOK
  <2>. QED  BY <1>2, <2>1 DEF ReplayCreate, TypeOK
<1>3. ASSUME NEW t \in Tasks, CancelTask(t)
      PROVE  TypeOK'
  <2>1. Obligation(t) \in Nat
    BY <1>3, ObligationIsOffer DEF CancelTask
  <2>2. {Emit("canceled", t, 0, Obligation(t)),
         Emit("result_ready", t, 0, Obligation(t))} \subseteq Receipt
    BY <2>1, EmitType DEF ReceiptType, Terminators
  <2>. QED  BY <1>3, <2>2 DEF CancelTask, TypeOK, Status, Terminal
<1>4. ASSUME NEW w \in Workers, NEW max_tasks \in 1..MaxBatch,
             NEW ttl \in 1..MaxTTL, LeaseNext(w, max_tasks, ttl)
      PROVE  TypeOK'
  <2> DEFINE batch == Claimable(w, max_tasks)
  <2>1. \A t \in batch : t \in Tasks /\ status[t] = "queued"
    BY DEF Claimable, Selected, Eligible
  <2>2. ASSUME NEW t \in batch
        PROVE  Obligation(t) \in Nat /\ grants[t] + 1 \in Nat
    <3>1. Obligation(t) \in Nat
      BY <2>1, ObligationIsOffer
    <3>2. grants[t] + 1 \in Nat
      BY <2>1 DEF TypeOK
    <3>. QED  BY <3>1, <3>2
  <2>3. {Emit("accepted", t, grants[t] + 1, Obligation(t)) : t \in batch}
            \subseteq Receipt
    BY <2>1, <2>2, EmitType DEF ReceiptType
  <2>4. {[task |-> t, grant |-> grants[t] + 1, worker |-> w,
          ttl |-> ttl, age |-> 0, renewals |-> 0] : t \in batch} \subseteq Lease
    BY <2>1, <2>2 DEF Lease
  <2>. QED  BY <1>4, <2>2, <2>3, <2>4 DEF LeaseNext, TypeOK, Status, Active
<1>5. ASSUME NEW l \in leases, LeaseStep(l)
      PROVE  TypeOK'
  <2>1. /\ l \in Lease /\ l.task \in Tasks /\ l.grant \in Nat
        /\ Release(l) \subseteq leases
        /\ Obligation(l.task) \in Nat
    BY LeaseTask, ObligationIsOffer DEF Release, Active
  <2>2. ASSUME NEW extend_by \in 1..MaxTTL, RenewLease(l, extend_by)
        PROVE  TypeOK'
    <3>1. Renewed(l, extend_by) \in Lease
      BY <2>1 DEF Renewed, Lease
    <3>. QED  BY <2>2, <3>1 DEF RenewLease, TypeOK
  <2>3. CASE TransitionToRunning(l)
    <3>1. Emit("started", l.task, l.grant, Obligation(l.task)) \in Receipt
      BY <2>1, EmitType DEF ReceiptType
    <3>. QED  BY <2>3, <2>1, <3>1 DEF TransitionToRunning, TypeOK, Status, Active
  <2>4. ASSUME NEW locatable \in BOOLEAN, Complete(l, locatable)
        PROVE  TypeOK'
    <3>1. {Emit("completed", l.task, l.grant,
                IF locatable THEN Obligation(l.task) ELSE 0),
           Emit("result_ready", l.task, 0, Obligation(l.task)),
           Emit("anomaly", l.task, 0, 0)} \subseteq Receipt
      BY <2>1, EmitType DEF ReceiptType, Terminators
    <3>. QED  BY <2>4, <2>1, <3>1 DEF Complete, TypeOK, Status, Terminal
  <2>5. CASE FailRetry(l)
    <3>1. Emit("retry_scheduled", l.task, l.grant, Obligation(l.task)) \in Receipt
      BY <2>1, EmitType DEF ReceiptType
    <3>2. attempt[l.task] + 1 \in Nat
      BY <2>1 DEF TypeOK
    <3>3. Backoff(attempt[l.task] + 1) \in Nat
      BY BackoffType
    <3>. QED  BY <2>5, <2>1, <3>1, <3>2, <3>3 DEF FailRetry, TypeOK, Status
  <2>6. ASSUME NEW retryable \in BOOLEAN, FailTerminal(l, retryable)
        PROVE  TypeOK'
    <3>1. {Emit("failed", l.task, l.grant, Obligation(l.task)),
           Emit("result_ready", l.task, 0, Obligation(l.task))} \subseteq Receipt
      BY <2>1, EmitType DEF ReceiptType, Terminators
    <3>. QED  BY <2>6, <2>1, <3>1 DEF FailTerminal, TypeOK, Status, Terminal
  <2>7. ASSUME NEW jitter \in 0..MaxJitter, ExpireLease(l, jitter)
        PROVE  TypeOK'
    <3>1. Emit("lease_expired", l.task, l.grant, Obligation(l.task)) \in Receipt
      BY <2>1, EmitType DEF ReceiptType
    <3>2. jitter \in Nat
      OBVIOUS
    <3>. QED  BY <2>7, <2>1, <3>1, <3>2 DEF ExpireLease, TypeOK, Status
  <2>. QED  BY <1>5, <2>2, <2>3, <2>4, <2>5, <2>6, <2>7 DEF LeaseStep
<1>6. CASE Tick
  <2>1. ASSUME NEW l \in leases
        PROVE  Aged(l) \in Lease
    <3>1. /\ l.task \in Tasks /\ l.grant \in Nat /\ l.worker \in Workers
          /\ l.ttl \in Int /\ l.age \in Nat /\ l.renewals \in Nat
      BY DEF TypeOK, Lease
    <3>. QED  BY <3>1 DEF Aged, Lease
  <2>2. \A d \in Nat : Countdown(d) \in Nat
    BY DEF Countdown
  <2>. QED  BY <1>6, <2>1, <2>2 DEF Tick, TypeOK
<1>7. CASE UNCHANGED vars
  BY <1>7 DEF vars, TypeOK
<1>. QED  BY <1>1, <1>2, <1>3, <1>4, <1>5, <1>6, <1>7 DEF Next

----------------------------------------------------------------------------
(* Every task that exists has an obligation *)

\* Only create_task and its replay touch what HasObligation speaks of.
LEMMA ObligationKept ==
    ASSUME HasObligation, UNCHANGED <<creator, offers>>,
           \A t \in Tasks : status'[t] # "none" => status[t] # "none"
    PROVE  HasObligation'
BY DEF HasObligation, OwnOffers

LEMMA ObligationStep == CustodyInv /\ [Next]_vars => HasObligation'
<1> SUFFICES ASSUME CustodyInv, [Next]_vars
             PROVE  HasObligation'
  OBVIOUS
<1> USE DEF CustodyInv
<1>1. ASSUME NEW t \in Tasks, NEW o \in Owners, NEW delay \in 0..MaxDelay,
             CreateTask(t, o, delay)
      PROVE  HasObligation'
  <2>1. /\ offers'[t] = <<o>> /\ creator'[t] = o
        /\ \A u \in Tasks \ {t} : /\ offers'[u] = offers[u]
                                  /\ creator'[u] = creator[u]
                                  /\ status'[u] = status[u]
    BY <1>1 DEF CreateTask, TypeOK
  <2>2. OwnOffers(t)' = {1}
    BY <2>1 DEF OwnOffers
  <2>3. \A u \in Tasks \ {t} : OwnOffers(u)' = OwnOffers(u)
    BY <2>1 DEF OwnOffers
  <2>. QED  BY <2>1, <2>2, <2>3 DEF HasObligation
<1>2. ASSUME NEW t \in Tasks, NEW o \in Owners, ReplayCreate(t, o)
      PROVE  HasObligation'
  <2>1. /\ offers[t] \in Seq(Owners) /\ offers'[t] = Append(offers[t], o)
        /\ UNCHANGED <<creator, status>> /\ status[t] # "none"
        /\ \A u \in Tasks \ {t} : offers'[u] = offers[u]
    BY <1>2 DEF ReplayCreate, TypeOK
  <2>2. \A u \in Tasks \ {t} : OwnOffers(u)' = OwnOffers(u)
    BY <2>1 DEF OwnOffers
  <2>3. DEFINE last == Len(offers[t]) + 1
  <2>4. OwnOffers(t)' = IF o = creator[t] THEN OwnOffers(t) \cup {last}
                                          ELSE OwnOffers(t)
    BY <2>1 DEF OwnOffers
  <2>5. \A m \in OwnOffers(t) : m \in Nat /\ m <= last /\ last <= last
    BY <2>1 DEF OwnOffers
  <2>6. PICK n \in OwnOffers(t) : \A m \in OwnOffers(t) : m <= n
    BY <2>1 DEF HasObligation
  <2>7. \E k \in OwnOffers(t)' : \A m \in OwnOffers(t)' : m <= k
    BY <2>4, <2>5, <2>6
  <2>. QED  BY <2>1, <2>2, <2>7 DEF HasObligation
<1>3. ASSUME NEW t \in Tasks, CancelTask(t)
      PROVE  HasObligation'
  BY <1>3, ObligationKept DEF CancelTask, TypeOK
<1>4. ASSUME NEW w \in Workers, NEW max_tasks \in 1..MaxBatch,
             NEW ttl \in 1..MaxTTL, LeaseNext(w, max_tasks, ttl)
      PROVE  HasObligation'
  <2>1. \A t \in Claimable(w, max_tasks) : status[t] = "queued"
    BY DEF Claimable, Selected, Eligible
  <2>. QED  BY <1>4, <2>1, ObligationKept DEF LeaseNext, TypeOK
<1>5. ASSUME NEW l \in leases, LeaseStep(l)
      PROVE  HasObligation'
  <2>1. l.task \in Tasks /\ status[l.task] # "none"
    BY LeaseTask DEF Active
  <2>. QED  BY <1>5, <2>1, ObligationKept
       DEF LeaseStep, RenewLease, TransitionToRunning, Complete, FailRetry,
           FailTerminal, ExpireLease, TypeOK
<1>6. CASE Tick
  BY <1>6, ObligationKept DEF Tick
<1>7. CASE UNCHANGED vars
  BY <1>7, ObligationKept DEF vars
<1>. QED  BY <1>1, <1>2, <1>3, <1>4, <1>5, <1>6, <1>7 DEF Next

----------------------------------------------------------------------------
(* The lease table and the status column agree *)

Custody == LeaseMatchesStatus /\ LeaseIsCurrent

LEMMA CustodyInit == Init => HasObligation /\ Custody
BY DEF Init, HasObligation, Custody, LeaseMatchesStatus, LeaseIsCurrent,
       LeasesOf, Active

\* The handlers that end a lease take its row away and leave the task outside
\* the two active statuses.
LEMMA CustodyEnds ==
    ASSUME CustodyInv, NEW l \in leases, leases' = leases \ {l},
           UNCHANGED grants, status'[l.task] \notin Active,
           \A t \in Tasks \ {l.task} : status'[t] = status[t]
    PROVE  Custody'
<1>1. \A t \in Tasks : LeasesOf(t)' = LeasesOf(t) \ {l}
  BY DEF LeasesOf
<1>2. l.task \in Tasks /\ LeasesOf(l.task) = {l}
  BY LeaseTask DEF CustodyInv
<1>3. \A t \in Tasks \ {l.task} : LeasesOf(t)' = LeasesOf(t)
  BY <1>1 DEF LeasesOf
<1>4. LeaseMatchesStatus'
  BY <1>1, <1>2, <1>3 DEF CustodyInv, LeaseMatchesStatus
<1>5. LeaseIsCurrent'
  BY DEF CustodyInv, LeaseIsCurrent
<1>. QED  BY <1>4, <1>5 DEF Custody

LEMMA CustodyStep == CustodyInv /\ [Next]_vars => Custody'
<1> SUFFICES ASSUME CustodyInv, [Next]_vars
             PROVE  Custody'
  OBVIOUS
<1> USE DEF CustodyInv
<1>1. ASSUME NEW t \in Tasks, NEW o \in Owners, NEW delay \in 0..MaxDelay,
             CreateTask(t, o, delay)
      PROVE  Custody'
  BY <1>1 DEF CreateTask, TypeOK, Custody, LeaseMatchesStatus, LeaseIsCurrent,
              LeasesOf, Active
<1>2. ASSUME NEW t \in Tasks, NEW o \in Owners, ReplayCreate(t, o)
      PROVE  Custody'
  BY <1>2 DEF ReplayCreate, Custody, LeaseMatchesStatus, LeaseIsCurrent, LeasesOf
<1>3. ASSUME NEW t \in Tasks, CancelTask(t)
      PROVE  Custody'
  <2>1. /\ leases' = leases \ LeasesOf(t) /\ UNCHANGED grants
        /\ status'[t] = "canceled"
        /\ \A u \in Tasks \ {t} : status'[u] = status[u]
    BY <1>3 DEF CancelTask, TypeOK
  <2>2. LeasesOf(t)' = {} /\ \A u \in Tasks \ {t} : LeasesOf(u)' = LeasesOf(u)
    BY <2>1 DEF LeasesOf
  <2>. QED  BY <2>1, <2>2 DEF Custody, LeaseMatchesStatus, LeaseIsCurrent, Active
<1>4. ASSUME NEW w \in Workers, NEW max_tasks \in 1..MaxBatch,
             NEW ttl \in 1..MaxTTL, LeaseNext(w, max_tasks, ttl)
      PROVE  Custody'
  <2> DEFINE batch == Claimable(w, max_tasks)
             row(t) == [task |-> t, grant |-> grants[t] + 1, worker |-> w,
                        ttl |-> ttl, age |-> 0, renewals |-> 0]
  <2>1. /\ batch \subseteq Tasks
        /\ \A t \in batch : LeasesOf(t) = {}
        /\ leases' = leases \cup {row(t) : t \in batch}
        /\ \A t \in Tasks : /\ grants'[t] = IF t \in batch THEN grants[t] + 1
                                                        ELSE grants[t]
                            /\ status'[t] = IF t \in batch THEN "leased"
                                                        ELSE status[t]
    BY <1>4 DEF LeaseNext, Claimable, Selected, Eligible
  <2>2. \A t \in batch : LeasesOf(t)' = {row(t)}
    BY <2>1 DEF LeasesOf
  <2>3. \A t \in Tasks \ batch : LeasesOf(t)' = LeasesOf(t)
    BY <2>1 DEF LeasesOf
  <2>4. \A l \in leases' : l.task \in Tasks /\ l \in LeasesOf(l.task)'
    BY <2>1, LeaseTask DEF LeasesOf
  <2>5. LeaseMatchesStatus'
    <3>1. \A t \in Tasks : status'[t] \in Active <=> LeasesOf(t)' # {}
      BY <2>1, <2>2, <2>3 DEF LeaseMatchesStatus, Active
    <3>2. ASSUME NEW k \in leases', NEW l \in leases', k.task = l.task
          PROVE  k = l
      <4>1. CASE k.task \in batch
        BY <4>1, <3>2, <2>2, <2>4
      <4>2. CASE k.task \notin batch
        <5>1. k \in leases /\ l \in leases
          BY <4>2, <3>2, <2>3, <2>4 DEF LeasesOf
        <5>. QED  BY <5>1, <3>2 DEF LeaseMatchesStatus
      <4>. QED  BY <4>1, <4>2
    <3>. QED  BY <3>1, <3>2 DEF LeaseMatchesStatus
  <2>6. LeaseIsCurrent'
    <3>1. ASSUME NEW l \in leases' PROVE l.grant = grants'[l.task]
      <4>1. CASE l.task \in batch
        BY <4>1, <2>1, <2>2, <2>4
      <4>2. CASE l.task \notin batch
        BY <4>2, <2>1, <2>3, <2>4 DEF LeasesOf, LeaseIsCurrent
      <4>. QED  BY <4>1, <4>2
    <3>. QED  BY <3>1 DEF LeaseIsCurrent
  <2>. QED  BY <2>5, <2>6 DEF Custody
<1>5. ASSUME NEW l \in leases, LeaseStep(l)
      PROVE  Custody'
  <2>1. /\ l.task \in Tasks /\ status[l.task] \in Active
        /\ LeasesOf(l.task) = {l} /\ Release(l) = leases \ {l}
    BY LeaseTask, ReleaseOne
  <2>2. ASSUME NEW extend_by \in 1..MaxTTL, RenewLease(l, extend_by)
        PROVE  Custody'
    <3> DEFINE k == Renewed(l, extend_by)
    <3>1. /\ k.task = l.task /\ k.grant = l.grant
          /\ leases' = (leases \ {l}) \cup {k} /\ UNCHANGED <<status, grants>>
      BY <2>2 DEF RenewLease, Renewed
    <3>2. /\ LeasesOf(l.task)' = {k}
          /\ \A t \in Tasks \ {l.task} : LeasesOf(t)' = LeasesOf(t)
      BY <2>1, <3>1 DEF LeasesOf
    <3>. QED  BY <2>1, <3>1, <3>2 DEF Custody, LeaseMatchesStatus, LeaseIsCurrent
  <2>3. CASE TransitionToRunning(l)
    BY <2>3, <2>1 DEF TransitionToRunning, TypeOK, Custody, LeaseMatchesStatus,
                      LeaseIsCurrent, LeasesOf, Active
  <2>4. ASSUME NEW locatable \in BOOLEAN, Complete(l, locatable)
        PROVE  Custody'
    BY <2>4, <2>1, CustodyEnds DEF Complete, TypeOK, Active
  <2>5. CASE FailRetry(l)
    BY <2>5, <2>1, CustodyEnds DEF FailRetry, TypeOK, Active
  <2>6. ASSUME NEW retryable \in BOOLEAN, FailTerminal(l, retryable)
        PROVE  Custody'
    BY <2>6, <2>1, CustodyEnds DEF FailTerminal, TypeOK, Active
  <2>7. ASSUME NEW jitter \in 0..MaxJitter, ExpireLease(l, jitter)
        PROVE  Custody'
    BY <2>7, <2>1, CustodyEnds DEF ExpireLease, TypeOK, Active
  <2>. QED  BY <1>5, <2>2, <2>3, <2>4, <2>5, <2>6, <2>7 DEF LeaseStep
<1>6. CASE Tick
  <2>1. /\ leases' = {Aged(l) : l \in leases} /\ UNCHANGED <<status, grants>>
        /\ \A l \in leases : Aged(l).task = l.task /\ Aged(l).grant = l.grant
    BY <1>6 DEF Tick, Aged
  <2>2. \A t \in Tasks : LeasesOf(t)' = {Aged(l) : l \in LeasesOf(t)}
    BY <2>1 DEF LeasesOf
  <2>. QED  BY <2>1, <2>2 DEF Custody, LeaseMatchesStatus, LeaseIsCurrent
<1>7. CASE UNCHANGED vars
  BY <1>7 DEF vars, Custody, LeaseMatchesStatus, LeaseIsCurrent, LeasesOf
<1>. QED  BY <1>1, <1>2, <1>3, <1>4, <1>5, <1>6, <1>7 DEF Next

LEMMA CustodyCorrect == Spec => []CustodyInv
<1>1. Init => CustodyInv
  BY TypeInit, CustodyInit DEF CustodyInv, Custody
<1>2. CustodyInv /\ [Next]_vars => CustodyInv'
  BY TypeStep, ObligationStep, CustodyStep DEF CustodyInv, Custody
<1>. QED  BY <1>1, <1>2, PTL DEF Spec

----------------------------------------------------------------------------
(* Theorems *)

\* Every variable keeps its type, whatever the handlers do: in particular the
\* parents of every receipt are receipts that exist.
THEOREM TypeCorrect == Spec => []TypeOK
<1>1. CustodyInv => TypeOK
  BY DEF CustodyInv
<1>. QED  BY <1>1, CustodyCorrect, PTL

\* "At most one active lease per task", and a task has a lease row exactly while
\* its status is leased or running: claim_next, renew, report_progress, complete,
\* fail, cancel_task and the sweep each keep the two tables in agreement.
THEOREM LeaseCorrect == Spec => []LeaseMatchesStatus
<1>1. CustodyInv => LeaseMatchesStatus
  BY DEF CustodyInv
<1>. QED  BY <1>1, CustodyCorrect, PTL

\* "Terminal states are immutable".  fail and the sweep write the status without
\* asking what it is; that they never resurrect a task follows from the lease
\* row they need, which a terminal task does not have.
LEMMA TerminalStep ==
    ASSUME CustodyInv, [Next]_vars, NEW t \in Tasks, status[t] \in Terminal
    PROVE  status'[t] = status[t] /\ attempt'[t] = attempt[t] /\ grants'[t] = grants[t]
<1> USE DEF CustodyInv
<1>1. ASSUME NEW u \in Tasks, NEW o \in Owners, NEW delay \in 0..MaxDelay,
             CreateTask(u, o, delay)
      PROVE  UNCHANGED <<status[t], attempt[t], grants[t]>>
  BY <1>1 DEF CreateTask, TypeOK, Terminal
<1>2. ASSUME NEW u \in Tasks, NEW o \in Owners, ReplayCreate(u, o)
      PROVE  UNCHANGED <<status[t], attempt[t], grants[t]>>
  BY <1>2 DEF ReplayCreate
<1>3. ASSUME NEW u \in Tasks, CancelTask(u)
      PROVE  UNCHANGED <<status[t], attempt[t], grants[t]>>
  BY <1>3 DEF CancelTask, TypeOK
<1>4. ASSUME NEW w \in Workers, NEW max_tasks \in 1..MaxBatch,
             NEW ttl \in 1..MaxTTL, LeaseNext(w, max_tasks, ttl)
      PROVE  UNCHANGED <<status[t], attempt[t], grants[t]>>
  <2>1. t \notin Claimable(w, max_tasks)
    BY DEF Claimable, Selected, Eligible, Terminal
  <2>. QED  BY <1>4, <2>1 DEF LeaseNext
<1>5. ASSUME NEW l \in leases, LeaseStep(l)
      PROVE  UNCHANGED <<status[t], attempt[t], grants[t]>>
  <2>1. l.task # t /\ l.task \in Tasks
    BY LeaseTask DEF Active, Terminal
  <2>. QED  BY <1>5, <2>1
       DEF LeaseStep, RenewLease, TransitionToRunning, Complete, FailRetry,
           FailTerminal, ExpireLease, TypeOK
<1>6. CASE Tick
  BY <1>6 DEF Tick
<1>7. CASE UNCHANGED vars
  BY <1>7 DEF vars
<1>. QED  BY <1>1, <1>2, <1>3, <1>4, <1>5, <1>6, <1>7 DEF Next

THEOREM TerminalCorrect == Spec => TerminalImmutable
<1>1. CustodyInv /\ [Next]_vars =>
        [\A t \in Tasks : status[t] \in Terminal =>
            /\ status'[t] = status[t]
            /\ attempt'[t] = attempt[t]
            /\ grants'[t] = grants[t]]_vars
  BY TerminalStep
<1>. QED  BY <1>1, CustodyCorrect, PTL DEF Spec, TerminalImmutable

----------------------------------------------------------------------------
(* The ledger.  That the receipts alone tell the status is not inductive     *)
(* either: one has to know which of them speak of the task's newest grant.   *)

ReceiptsOf(t) == {r \in receipts : r.task = t}
Typed(set, types) == {r \in set : r.type \in types}

LedgerOf(t) ==
    \* no receipt before the task is created, or for a grant still to come
    /\ \A r \in ReceiptsOf(t) : status[t] # "none" /\ r.grant <= grants[t]
    \* a held task: its newest grant was accepted and has no ending
    /\ status[t] \in Active =>
          /\ \E r \in About(t, {"accepted"}) : r.grant = grants[t]
          /\ \A r \in About(t, LeaseEndings) : r.grant # grants[t]
    \* every other accepted grant has its ending, unless the task was canceled
    /\ \A r \in About(t, {"accepted"}) :
          r.grant < grants[t] \/ status[t] \in {"queued", "succeeded", "failed"} =>
              \E e \in About(t, LeaseEndings) : e.grant = r.grant
    \* the newest grant was started exactly when the task is running
    /\ status[t] = "leased" =>
          \A r \in About(t, {"started"}) : r.grant # grants[t]
    /\ status[t] = "running" =>
          \E r \in About(t, {"started"}) : r.grant = grants[t]
    \* one terminator, of the kind the status says
    /\ status[t] = "succeeded" <=> About(t, {"completed"}) # {}
    /\ status[t] = "failed" <=> About(t, {"failed"}) # {}
    /\ status[t] = "canceled" <=> About(t, {"canceled"}) # {}
    /\ \A r, s \in About(t, Terminators) : r = s
    \* one retry receipt for each attempt used up
    /\ IsFiniteSet(About(t, {"retry_scheduled"}))
    /\ attempt[t] = Cardinality(About(t, {"retry_scheduled"}))
    /\ attempt[t] < MaxAttempts

LedgerInv == \A t \in Tasks : LedgerOf(t)

LEMMA LedgerInit == Init => LedgerInv
<1> SUFFICES ASSUME Init, NEW t \in Tasks
             PROVE  LedgerOf(t)
  BY DEF LedgerInv
<1>1. \A types : About(t, types) = {}
  BY DEF Init, About
<1>2. IsFiniteSet({}) /\ Cardinality({}) = 0
  BY FS_EmptySet
<1>3. status[t] = "none" /\ attempt[t] = 0 /\ ReceiptsOf(t) = {}
  BY DEF Init, ReceiptsOf
<1>4. 0 < MaxAttempts
  BY EngineAssumption
<1>. QED  BY <1>1, <1>2, <1>3, <1>4 DEF LedgerOf, Active

\* What a step does not touch stays true of a task.
LEMMA LedgerKept ==
    ASSUME NEW t \in Tasks, LedgerOf(t), ReceiptsOf(t)' = ReceiptsOf(t),
           status'[t] = status[t], grants'[t] = grants[t], attempt'[t] = attempt[t]
    PROVE  LedgerOf(t)'
<1>1. \A types : About(t, types)' = About(t, types)
  BY DEF About, ReceiptsOf
<1>. QED  BY <1>1 DEF LedgerOf

\* A step that concerns one task is judged by what it does to that task.
LEMMA LedgerOfOne ==
    ASSUME LedgerInv, NEW t \in Tasks, LedgerOf(t)',
           \A u \in Tasks \ {t} : /\ ReceiptsOf(u)' = ReceiptsOf(u)
                                 /\ status'[u] = status[u]
                                 /\ grants'[u] = grants[u]
                                 /\ attempt'[u] = attempt[u]
    PROVE  LedgerInv'
<1> SUFFICES ASSUME NEW u \in Tasks
             PROVE  LedgerOf(u)'
  BY DEF LedgerInv
<1>1. CASE u = t
  BY <1>1
<1>2. CASE u # t
  BY <1>2, LedgerKept DEF LedgerInv
<1>. QED  BY <1>1, <1>2

\* Receipts added about one task show up there and nowhere else.
LEMMA LedgerGrows ==
    ASSUME NEW t \in Tasks, NEW new, receipts' = receipts \cup new,
           \A r \in new : r.task = t
    PROVE  /\ \A types : About(t, types)' = About(t, types) \cup Typed(new, types)
           /\ \A types : Typed(new, types) = {} => About(t, types)' = About(t, types)
           /\ ReceiptsOf(t)' = ReceiptsOf(t) \cup new
           /\ \A u \in Tasks \ {t} : ReceiptsOf(u)' = ReceiptsOf(u)
BY DEF About, ReceiptsOf, Typed

\* Once the newest grant of a held task has its ending, all its grants have.
LEMMA AllEnded ==
    ASSUME CustodyInv, NEW t \in Tasks, LedgerOf(t), status[t] \in Active,
           NEW ending, ending.grant = grants[t]
    PROVE  \A r \in About(t, {"accepted"}) :
               \E e \in About(t, LeaseEndings) \cup {ending} : e.grant = r.grant
<1>1. \A r \in About(t, {"accepted"}) : r \in ReceiptsOf(t) /\ r.grant \in Nat
  BY DEF About, ReceiptsOf, CustodyInv, TypeOK, Receipt
<1>2. grants[t] \in Nat
  BY DEF CustodyInv, TypeOK
<1>3. \A r \in About(t, {"accepted"}) : r.grant < grants[t] \/ r.grant = grants[t]
  BY <1>1, <1>2 DEF LedgerOf
<1>. QED  BY <1>3 DEF LedgerOf

\* complete, and fail without a retry: the lease's ending is the terminator.
LEMMA LedgerClosed ==
    ASSUME CustodyInv, LedgerInv, NEW l \in leases,
           NEW type, NEW outcome, NEW n, NEW new,
           \/ type = "completed" /\ outcome = "succeeded"
           \/ type = "failed" /\ outcome = "failed",
           Emit(type, l.task, l.grant, n) \in new,
           \A r \in new : \/ r = Emit(type, l.task, l.grant, n)
                         \/ /\ r.type \in {"result_ready", "anomaly"}
                            /\ r.task = l.task
                            /\ r.grant = 0,
           receipts' = receipts \cup new,
           status' = [status EXCEPT ![l.task] = outcome],
           UNCHANGED <<grants, attempt>>
    PROVE  LedgerInv'
<1> DEFINE t == l.task
           closing == Emit(type, t, l.grant, n)
<1>1. /\ t \in Tasks /\ status[t] \in Active /\ l.grant = grants[t] /\ l.grant \in Nat
      /\ LedgerOf(t)
  BY LeaseTask DEF CustodyInv, LeaseIsCurrent, LedgerInv
<1>2. /\ status'[t] = outcome /\ grants'[t] = grants[t] /\ attempt'[t] = attempt[t]
      /\ \A u \in Tasks \ {t} : /\ status'[u] = status[u]
                                /\ grants'[u] = grants[u]
                                /\ attempt'[u] = attempt[u]
  BY <1>1 DEF CustodyInv, TypeOK
<1>3. /\ \A types : About(t, types)' = About(t, types) \cup Typed(new, types)
      /\ \A types : Typed(new, types) = {} => About(t, types)' = About(t, types)
      /\ ReceiptsOf(t)' = ReceiptsOf(t) \cup new
      /\ \A u \in Tasks \ {t} : ReceiptsOf(u)' = ReceiptsOf(u)
  <2>1. receipts' = receipts \cup new /\ \A r \in new : r.task = t
    BY DEF Emit
  <2>. QED  BY <1>1, <2>1, LedgerGrows
<1>4. /\ About(t, {"accepted"})' = About(t, {"accepted"})
      /\ About(t, {"retry_scheduled"})' = About(t, {"retry_scheduled"})
      /\ About(t, {"canceled"})' = About(t, {"canceled"})
      /\ About(t, LeaseEndings)' = About(t, LeaseEndings) \cup {closing}
      /\ About(t, Terminators)' = About(t, Terminators) \cup {closing}
      /\ type = "completed" => About(t, {"completed"})' # {}
      /\ type # "completed" => About(t, {"completed"})' = About(t, {"completed"})
      /\ type = "failed" => About(t, {"failed"})' # {}
      /\ type # "failed" => About(t, {"failed"})' = About(t, {"failed"})
  <2>1. /\ Typed(new, {"accepted"}) = {}
        /\ Typed(new, {"retry_scheduled"}) = {}
        /\ Typed(new, {"canceled"}) = {}
        /\ Typed(new, LeaseEndings) = {closing}
        /\ Typed(new, Terminators) = {closing}
        /\ Typed(new, {type}) = {closing}
        /\ type # "completed" => Typed(new, {"completed"}) = {}
        /\ type # "failed" => Typed(new, {"failed"}) = {}
    BY DEF Typed, Emit, LeaseEndings, Terminators
  <2> HIDE DEF closing
  <2>. QED  BY <1>3, <2>1
<1>5. About(t, Terminators) = {}
  <2>1. /\ About(t, {"completed"}) = {}
        /\ About(t, {"failed"}) = {}
        /\ About(t, {"canceled"}) = {}
    BY <1>1 DEF LedgerOf, Active
  <2>. QED  BY <2>1 DEF About, Terminators
<1>6. Emit(type, t, l.grant, n).grant = grants[t]
  BY <1>1 DEF Emit
<1>7. \A r \in new : r.grant <= grants[t]
  <2>1. grants[t] \in Nat
    BY <1>1 DEF CustodyInv, TypeOK
  <2>2. \A r \in new : r.grant = grants[t] \/ r.grant = 0
    BY <1>6
  <2>. QED  BY <2>1, <2>2
<1>8. \A r \in About(t, {"accepted"}) :
          \E e \in About(t, LeaseEndings)' : e.grant = r.grant
  BY <1>1, <1>4, <1>6, AllEnded
<1>9. LedgerOf(t)'
  <2>1. \A r \in ReceiptsOf(t)' : status'[t] # "none" /\ r.grant <= grants'[t]
    BY <1>1, <1>2, <1>3, <1>7 DEF LedgerOf
  <2>2. \A r, s \in About(t, Terminators)' : r = s
    BY <1>4, <1>5
  <2>. QED  BY <1>1, <1>2, <1>4, <1>8, <2>1, <2>2 DEF LedgerOf, Active
<1>. QED  BY <1>1, <1>2, <1>3, <1>9, LedgerOfOne

\* fail with a retry, and the sweep: the lease ends and the task is queued.
LEMMA LedgerRequeued ==
    ASSUME CustodyInv, LedgerInv, NEW l \in leases, NEW type, NEW n,
           \/ /\ type = "retry_scheduled"
              /\ attempt[l.task] + 1 < MaxAttempts
              /\ attempt' = [attempt EXCEPT ![l.task] = @ + 1]
           \/ type = "lease_expired" /\ attempt' = attempt,
           receipts' = receipts \cup {Emit(type, l.task, l.grant, n)},
           status' = [status EXCEPT ![l.task] = "queued"],
           UNCHANGED grants
    PROVE  LedgerInv'
<1> DEFINE t == l.task
           ending == Emit(type, t, l.grant, n)
           new == {ending}
<1>1. /\ t \in Tasks /\ status[t] \in Active /\ l.grant = grants[t] /\ l.grant \in Nat
      /\ LedgerOf(t)
  BY LeaseTask DEF CustodyInv, LeaseIsCurrent, LedgerInv
<1>2. /\ status'[t] = "queued" /\ grants'[t] = grants[t]
      /\ \A u \in Tasks \ {t} : /\ status'[u] = status[u]
                                /\ grants'[u] = grants[u]
                                /\ attempt'[u] = attempt[u]
  BY <1>1 DEF CustodyInv, TypeOK
<1>3. /\ \A types : About(t, types)' = About(t, types) \cup Typed(new, types)
      /\ \A types : Typed(new, types) = {} => About(t, types)' = About(t, types)
      /\ ReceiptsOf(t)' = ReceiptsOf(t) \cup new
      /\ \A u \in Tasks \ {t} : ReceiptsOf(u)' = ReceiptsOf(u)
  <2>1. receipts' = receipts \cup new /\ \A r \in new : r.task = t
    BY DEF Emit
  <2> HIDE DEF new
  <2>. QED  BY <1>1, <2>1, LedgerGrows
<1>4. /\ About(t, {"accepted"})' = About(t, {"accepted"})
      /\ About(t, Terminators)' = About(t, Terminators)
      /\ About(t, {"completed"})' = About(t, {"completed"})
      /\ About(t, {"failed"})' = About(t, {"failed"})
      /\ About(t, {"canceled"})' = About(t, {"canceled"})
      /\ About(t, LeaseEndings)' = About(t, LeaseEndings) \cup {ending}
      /\ type = "retry_scheduled" =>
            About(t, {"retry_scheduled"})' = About(t, {"retry_scheduled"}) \cup {ending}
      /\ type = "lease_expired" =>
            About(t, {"retry_scheduled"})' = About(t, {"retry_scheduled"})
  <2>1. /\ Typed(new, {"accepted"}) = {}
        /\ Typed(new, Terminators) = {}
        /\ Typed(new, {"completed"}) = {}
        /\ Typed(new, {"failed"}) = {}
        /\ Typed(new, {"canceled"}) = {}
        /\ Typed(new, LeaseEndings) = {ending}
        /\ type = "retry_scheduled" => Typed(new, {"retry_scheduled"}) = {ending}
        /\ type = "lease_expired" => Typed(new, {"retry_scheduled"}) = {}
    BY DEF Typed, Emit, LeaseEndings, Terminators
  <2> HIDE DEF new, ending
  <2>. QED  BY <1>3, <2>1
<1>5. ending.grant = grants[t]
  BY <1>1 DEF Emit
<1>6. ending \notin About(t, {"retry_scheduled"})
  <2>1. About(t, {"retry_scheduled"}) \subseteq About(t, LeaseEndings)
    BY DEF About, LeaseEndings
  <2>. QED  BY <1>1, <1>5, <2>1 DEF LedgerOf
<1>7. /\ IsFiniteSet(About(t, {"retry_scheduled"})')
      /\ attempt'[t] = Cardinality(About(t, {"retry_scheduled"})')
      /\ attempt'[t] < MaxAttempts
  <2>1. CASE type = "lease_expired"
    BY <2>1, <1>1, <1>4 DEF LedgerOf
  <2>2. CASE type = "retry_scheduled"
    <3>1. /\ IsFiniteSet(About(t, {"retry_scheduled"}))
          /\ attempt[t] = Cardinality(About(t, {"retry_scheduled"}))
      BY <1>1 DEF LedgerOf
    <3>2. /\ IsFiniteSet(About(t, {"retry_scheduled"}) \cup {ending})
          /\ Cardinality(About(t, {"retry_scheduled"}) \cup {ending}) = attempt[t] + 1
      BY <3>1, <1>6, FS_AddElement
    <3>3. attempt'[t] = attempt[t] + 1 /\ attempt[t] + 1 < MaxAttempts
      BY <2>2, <1>1 DEF CustodyInv, TypeOK
    <3>. QED  BY <2>2, <1>4, <3>2, <3>3
  <2>. QED  BY <2>1, <2>2
<1>8. \A r \in About(t, {"accepted"}) :
          \E e \in About(t, LeaseEndings)' : e.grant = r.grant
  BY <1>1, <1>4, <1>5, AllEnded
<1>9. LedgerOf(t)'
  <2>1. \A r \in ReceiptsOf(t)' : status'[t] # "none" /\ r.grant <= grants'[t]
    BY <1>1, <1>2, <1>3, <1>5 DEF LedgerOf
  <2>. QED  BY <1>1, <1>2, <1>4, <1>7, <1>8, <2>1 DEF LedgerOf, Active
<1>. QED  BY <1>1, <1>2, <1>3, <1>9, LedgerOfOne

\* cancel_task: a terminator, and no ending for the lease it takes away.
LEMMA LedgerCanceled ==
    ASSUME CustodyInv, LedgerInv, NEW t \in Tasks, CancelTask(t)
    PROVE  LedgerInv'
<1> DEFINE closing == Emit("canceled", t, 0, Obligation(t))
           new == {closing, Emit("result_ready", t, 0, Obligation(t))}
<1>1. /\ LedgerOf(t) /\ status[t] \notin Terminal /\ status[t] # "none"
      /\ grants[t] \in Nat
  BY DEF CustodyInv, TypeOK, LedgerInv, CancelTask
<1>2. /\ status'[t] = "canceled" /\ grants'[t] = grants[t] /\ attempt'[t] = attempt[t]
      /\ \A u \in Tasks \ {t} : /\ status'[u] = status[u]
                                /\ grants'[u] = grants[u]
                                /\ attempt'[u] = attempt[u]
  BY DEF CancelTask, CustodyInv, TypeOK
<1>3. /\ \A types : About(t, types)' = About(t, types) \cup Typed(new, types)
      /\ \A types : Typed(new, types) = {} => About(t, types)' = About(t, types)
      /\ ReceiptsOf(t)' = ReceiptsOf(t) \cup new
      /\ \A u \in Tasks \ {t} : ReceiptsOf(u)' = ReceiptsOf(u)
  <2>1. receipts' = receipts \cup new /\ \A r \in new : r.task = t
    BY DEF CancelTask, Emit
  <2> HIDE DEF new
  <2>. QED  BY <2>1, LedgerGrows
<1>4. /\ About(t, {"accepted"})' = About(t, {"accepted"})
      /\ About(t, {"started"})' = About(t, {"started"})
      /\ About(t, {"retry_scheduled"})' = About(t, {"retry_scheduled"})
      /\ About(t, {"completed"})' = About(t, {"completed"})
      /\ About(t, {"failed"})' = About(t, {"failed"})
      /\ About(t, LeaseEndings)' = About(t, LeaseEndings)
      /\ About(t, {"canceled"})' = About(t, {"canceled"}) \cup {closing}
      /\ About(t, Terminators)' = About(t, Terminators) \cup {closing}
  <2>1. /\ Typed(new, {"accepted"}) = {}
        /\ Typed(new, {"started"}) = {}
        /\ Typed(new, {"retry_scheduled"}) = {}
        /\ Typed(new, {"completed"}) = {}
        /\ Typed(new, {"failed"}) = {}
        /\ Typed(new, LeaseEndings) = {}
        /\ Typed(new, {"canceled"}) = {closing}
        /\ Typed(new, Terminators) = {closing}
    BY DEF Typed, Emit, LeaseEndings, Terminators
  <2> HIDE DEF new, closing
  <2>. QED  BY <1>3, <2>1
<1>5. About(t, Terminators) = {}
  <2>1. /\ About(t, {"completed"}) = {}
        /\ About(t, {"failed"}) = {}
        /\ About(t, {"canceled"}) = {}
    BY <1>1 DEF LedgerOf, Terminal
  <2>. QED  BY <2>1 DEF About, Terminators
<1>6. \A r \in new : r.grant <= grants[t]
  BY <1>1 DEF Emit
<1>7. LedgerOf(t)'
  <2>1. \A r \in ReceiptsOf(t)' : status'[t] # "none" /\ r.grant <= grants'[t]
    BY <1>1, <1>2, <1>3, <1>6 DEF LedgerOf
  <2>2. \A r, s \in About(t, Terminators)' : r = s
    BY <1>4, <1>5
  <2>. QED  BY <1>1, <1>2, <1>4, <2>1, <2>2 DEF LedgerOf, Active, Terminal
<1>. QED  BY <1>2, <1>3, <1>7, LedgerOfOne

\* lease_next: each task of the batch gets a grant above all it had before.
LEMMA LedgerGranted ==
    ASSUME CustodyInv, LedgerInv, NEW w \in Workers, NEW max_tasks \in 1..MaxBatch,
           NEW ttl \in 1..MaxTTL, LeaseNext(w, max_tasks, ttl)
    PROVE  LedgerInv'
<1> DEFINE batch == Claimable(w, max_tasks)
           accepted(t) == Emit("accepted", t, grants[t] + 1, Obligation(t))
<1>1. /\ batch \subseteq Tasks /\ \A t \in batch : status[t] = "queued"
      /\ receipts' = receipts \cup {accepted(t) : t \in batch}
      /\ \A t \in Tasks :
            /\ status'[t] = IF t \in batch THEN "leased" ELSE status[t]
            /\ grants'[t] = IF t \in batch THEN grants[t] + 1 ELSE grants[t]
            /\ attempt'[t] = attempt[t]
  BY DEF LeaseNext, Claimable, Selected, Eligible
<1>2. ASSUME NEW t \in Tasks, t \notin batch
      PROVE  LedgerOf(t)'
  <2>1. ReceiptsOf(t)' = ReceiptsOf(t)
    BY <1>1, <1>2 DEF ReceiptsOf, Emit
  <2>. QED  BY <1>1, <1>2, <2>1, LedgerKept DEF LedgerInv
<1>3. ASSUME NEW t \in batch
      PROVE  LedgerOf(t)'
  <2>1. /\ t \in Tasks /\ LedgerOf(t) /\ status[t] = "queued" /\ grants[t] \in Nat
        /\ status'[t] = "leased" /\ grants'[t] = grants[t] + 1 /\ attempt'[t] = attempt[t]
    BY <1>1 DEF LedgerInv, CustodyInv, TypeOK
  <2>2. \A u \in batch : /\ accepted(u).task = u
                         /\ accepted(u).type = "accepted"
                         /\ accepted(u).grant = grants[u] + 1
    BY DEF Emit
  <2> HIDE DEF accepted
  <2>3. ReceiptsOf(t)' = ReceiptsOf(t) \cup {accepted(t)}
    BY <1>1, <2>2 DEF ReceiptsOf
  <2>4. /\ About(t, {"accepted"})' = About(t, {"accepted"}) \cup {accepted(t)}
        /\ About(t, {"started"})' = About(t, {"started"})
        /\ About(t, {"retry_scheduled"})' = About(t, {"retry_scheduled"})
    BY <1>1, <2>2 DEF About
  <2>5. /\ About(t, LeaseEndings)' = About(t, LeaseEndings)
        /\ About(t, Terminators)' = About(t, Terminators)
    BY <1>1, <2>2 DEF About, LeaseEndings, Terminators
  <2>6. /\ About(t, {"completed"})' = About(t, {"completed"})
        /\ About(t, {"failed"})' = About(t, {"failed"})
        /\ About(t, {"canceled"})' = About(t, {"canceled"})
    BY <1>1, <2>2 DEF About
  <2>7. \A r \in ReceiptsOf(t) : r.grant \in Nat /\ r.grant <= grants[t]
    BY <2>1 DEF ReceiptsOf, CustodyInv, TypeOK, Receipt, LedgerOf
  <2>8. \A r \in ReceiptsOf(t) : r.grant < grants'[t] /\ r.grant # grants'[t]
    BY <2>1, <2>7
  <2>9. \A types : About(t, types) \subseteq ReceiptsOf(t)
    BY DEF About, ReceiptsOf
  <2>10. \A r \in About(t, {"accepted"})' :
            r.grant < grants'[t] => \E e \in About(t, LeaseEndings)' : e.grant = r.grant
    <3>1. ~(accepted(t).grant < grants'[t])
      BY <2>1, <2>2
    <3>. QED  BY <3>1, <2>1, <2>4, <2>5 DEF LedgerOf
  <2>11. \A r \in ReceiptsOf(t)' : status'[t] # "none" /\ r.grant <= grants'[t]
    BY <2>1, <2>2, <2>3, <2>7
  <2>. QED  BY <2>1, <2>2, <2>4, <2>5, <2>6, <2>8, <2>9, <2>10, <2>11
            DEF LedgerOf, Active
<1>. QED  BY <1>2, <1>3 DEF LedgerInv

\* report_progress, the first under its lease.
LEMMA LedgerStarted ==
    ASSUME CustodyInv, LedgerInv, NEW l \in leases, TransitionToRunning(l)
    PROVE  LedgerInv'
<1> DEFINE t == l.task
           started == Emit("started", t, l.grant, Obligation(t))
           new == {started}
<1>1. /\ t \in Tasks /\ status[t] = "leased" /\ l.grant = grants[t] /\ l.grant \in Nat
      /\ LedgerOf(t)
  BY LeaseTask DEF CustodyInv, LeaseIsCurrent, LedgerInv, TransitionToRunning
<1>2. /\ status'[t] = "running" /\ grants'[t] = grants[t] /\ attempt'[t] = attempt[t]
      /\ \A u \in Tasks \ {t} : /\ status'[u] = status[u]
                                /\ grants'[u] = grants[u]
                                /\ attempt'[u] = attempt[u]
  BY <1>1 DEF TransitionToRunning, CustodyInv, TypeOK
<1>3. /\ \A types : About(t, types)' = About(t, types) \cup Typed(new, types)
      /\ \A types : Typed(new, types) = {} => About(t, types)' = About(t, types)
      /\ ReceiptsOf(t)' = ReceiptsOf(t) \cup new
      /\ \A u \in Tasks \ {t} : ReceiptsOf(u)' = ReceiptsOf(u)
  <2>1. receipts' = receipts \cup new /\ \A r \in new : r.task = t
    BY DEF TransitionToRunning, Emit
  <2> HIDE DEF new
  <2>. QED  BY <1>1, <2>1, LedgerGrows
<1>4. /\ About(t, {"accepted"})' = About(t, {"accepted"})
      /\ About(t, {"started"})' = About(t, {"started"}) \cup {started}
      /\ About(t, {"retry_scheduled"})' = About(t, {"retry_scheduled"})
      /\ About(t, {"completed"})' = About(t, {"completed"})
      /\ About(t, {"failed"})' = About(t, {"failed"})
      /\ About(t, {"canceled"})' = About(t, {"canceled"})
      /\ About(t, LeaseEndings)' = About(t, LeaseEndings)
      /\ About(t, Terminators)' = About(t, Terminators)
  <2>1. /\ Typed(new, {"accepted"}) = {}
        /\ Typed(new, {"started"}) = {started}
        /\ Typed(new, {"retry_scheduled"}) = {}
        /\ Typed(new, {"completed"}) = {}
        /\ Typed(new, {"failed"}) = {}
        /\ Typed(new, {"canceled"}) = {}
        /\ Typed(new, LeaseEndings) = {}
        /\ Typed(new, Terminators) = {}
    BY DEF Typed, Emit, LeaseEndings, Terminators
  <2> HIDE DEF new, started
  <2>. QED  BY <1>3, <2>1
<1>5. started.grant = grants[t]
  BY <1>1 DEF Emit
<1>6. LedgerOf(t)'
  <2>1. \A r \in ReceiptsOf(t)' : status'[t] # "none" /\ r.grant <= grants'[t]
    BY <1>1, <1>2, <1>3, <1>5 DEF LedgerOf
  <2>. QED  BY <1>1, <1>2, <1>4, <1>5, <2>1 DEF LedgerOf, Active
<1>. QED  BY <1>1, <1>2, <1>3, <1>6, LedgerOfOne

LEMMA LedgerStep == CustodyInv /\ LedgerInv /\ [Next]_vars => LedgerInv'
<1> SUFFICES ASSUME CustodyInv, LedgerInv, [Next]_vars
             PROVE  LedgerInv'
  OBVIOUS
<1>1. ASSUME NEW t \in Tasks, NEW o \in Owners, NEW delay \in 0..MaxDelay,
             CreateTask(t, o, delay)
      PROVE  LedgerInv'
  <2>1. /\ status[t] = "none" /\ status'[t] = "queued"
        /\ UNCHANGED <<attempt, grants, receipts>>
        /\ \A u \in Tasks \ {t} : status'[u] = status[u]
    BY <1>1 DEF CreateTask, CustodyInv, TypeOK
  <2>2. ReceiptsOf(t) = {} /\ \A types : About(t, types) = {}
    <3>1. ReceiptsOf(t) = {}
      BY <2>1 DEF LedgerInv, LedgerOf
    <3>. QED  BY <3>1 DEF ReceiptsOf, About
  <2>3. /\ \A u \in Tasks : ReceiptsOf(u)' = ReceiptsOf(u)
        /\ \A types : About(t, types)' = About(t, types)
    BY <2>1 DEF ReceiptsOf, About
  <2>4. LedgerOf(t)'
    BY <2>1, <2>2, <2>3 DEF LedgerInv, LedgerOf, Active
  <2>. QED  BY <2>1, <2>3, <2>4, LedgerOfOne
<1>2. ASSUME NEW t \in Tasks, NEW o \in Owners, ReplayCreate(t, o)
      PROVE  LedgerInv'
  <2>1. \A u \in Tasks : ReceiptsOf(u)' = ReceiptsOf(u)
    BY <1>2 DEF ReplayCreate, ReceiptsOf
  <2>. QED  BY <1>2, <2>1, LedgerKept DEF ReplayCreate, LedgerInv
<1>3. ASSUME NEW t \in Tasks, CancelTask(t)
      PROVE  LedgerInv'
  BY <1>3, LedgerCanceled
<1>4. ASSUME NEW w \in Workers, NEW max_tasks \in 1..MaxBatch,
             NEW ttl \in 1..MaxTTL, LeaseNext(w, max_tasks, ttl)
      PROVE  LedgerInv'
  BY <1>4, LedgerGranted
<1>5. ASSUME NEW l \in leases, LeaseStep(l)
      PROVE  LedgerInv'
  <2>1. ASSUME NEW extend_by \in 1..MaxTTL, RenewLease(l, extend_by)
        PROVE  LedgerInv'
    <3>1. \A u \in Tasks : ReceiptsOf(u)' = ReceiptsOf(u)
      BY <2>1 DEF RenewLease, ReceiptsOf
    <3>. QED  BY <2>1, <3>1, LedgerKept DEF RenewLease, LedgerInv
  <2>2. CASE TransitionToRunning(l)
    BY <2>2, LedgerStarted
  <2>3. ASSUME NEW locatable \in BOOLEAN, Complete(l, locatable)
        PROVE  LedgerInv'
    <3> DEFINE closing == Emit("completed", l.task, l.grant,
                               IF locatable THEN Obligation(l.task) ELSE 0)
               new == {closing, Emit("result_ready", l.task, 0, Obligation(l.task))}
                         \cup (IF locatable THEN {} ELSE {Emit("anomaly", l.task, 0, 0)})
    <3>1. /\ closing \in new
          /\ \A r \in new : \/ r = closing
                            \/ /\ r.type \in {"result_ready", "anomaly"}
                               /\ r.task = l.task
                               /\ r.grant = 0
      BY DEF Emit
    <3>2. /\ receipts' = receipts \cup new
          /\ status' = [status EXCEPT ![l.task] = "succeeded"]
          /\ UNCHANGED <<grants, attempt>>
      BY <2>3 DEF Complete
    <3> HIDE DEF new
    <3>. QED  BY <3>1, <3>2, LedgerClosed
  <2>4. CASE FailRetry(l)
    BY <2>4, LedgerRequeued DEF FailRetry, MayRetry
  <2>5. ASSUME NEW retryable \in BOOLEAN, FailTerminal(l, retryable)
        PROVE  LedgerInv'
    <3> DEFINE closing == Emit("failed", l.task, l.grant, Obligation(l.task))
               new == {closing, Emit("result_ready", l.task, 0, Obligation(l.task))}
    <3>1. /\ closing \in new
          /\ \A r \in new : \/ r = closing
                            \/ /\ r.type \in {"result_ready", "anomaly"}
                               /\ r.task = l.task
                               /\ r.grant = 0
      BY DEF Emit
    <3>2. /\ receipts' = receipts \cup new
          /\ status' = [status EXCEPT ![l.task] = "failed"]
          /\ UNCHANGED <<grants, attempt>>
      BY <2>5 DEF FailTerminal
    <3> HIDE DEF new
    <3>. QED  BY <3>1, <3>2, LedgerClosed
  <2>6. ASSUME NEW jitter \in 0..MaxJitter, ExpireLease(l, jitter)
        PROVE  LedgerInv'
    BY <2>6, LedgerRequeued DEF ExpireLease
  <2>. QED  BY <1>5, <2>1, <2>2, <2>3, <2>4, <2>5, <2>6 DEF LeaseStep
<1>6. CASE Tick
  <2>1. \A u \in Tasks : ReceiptsOf(u)' = ReceiptsOf(u)
    BY <1>6 DEF Tick, ReceiptsOf
  <2>. QED  BY <1>6, <2>1, LedgerKept DEF Tick, LedgerInv
<1>7. CASE UNCHANGED vars
  <2>1. \A u \in Tasks : ReceiptsOf(u)' = ReceiptsOf(u)
    BY <1>7 DEF vars, ReceiptsOf
  <2>. QED  BY <1>7, <2>1, LedgerKept DEF vars, LedgerInv
<1>. QED  BY <1>1, <1>2, <1>3, <1>4, <1>5, <1>6, <1>7 DEF Next

LEMMA LedgerInvCorrect == Spec => []LedgerInv
<1>. QED  BY LedgerInit, LedgerStep, CustodyCorrect, PTL DEF Spec

\* "Receipts are proofs": from its receipts alone one can tell whether a task is
\* succeeded, failed, canceled, held, running or none of these.
THEOREM LedgerCorrect == Spec => []LedgerProvesStatus
<1>1. ASSUME CustodyInv, LedgerInv, NEW t \in Tasks
      PROVE  /\ status[t] = "succeeded" <=> About(t, {"completed"}) # {}
             /\ status[t] = "failed" <=> About(t, {"failed"}) # {}
             /\ status[t] = "canceled" <=> About(t, {"canceled"}) # {}
             /\ status[t] \in Active <=>
                    HeldGrants(t) # {} /\ About(t, Terminators) = {}
             /\ status[t] = "running" <=>
                    status[t] \in Active /\
                    \E r \in About(t, {"started"}) : r.grant \in HeldGrants(t)
  <2>1. /\ LedgerOf(t) /\ status[t] \in Status /\ grants[t] \in Nat
        /\ \A r \in ReceiptsOf(t) : r.grant \in Nat
    BY <1>1 DEF CustodyInv, TypeOK, LedgerInv, ReceiptsOf, Receipt
  <2>2. \A r \in About(t, {"accepted"}) : r.grant < grants[t] \/ r.grant = grants[t]
    BY <2>1 DEF About, ReceiptsOf, LedgerOf
  <2>3. status[t] \in Active => HeldGrants(t) = {grants[t]}
    BY <2>1, <2>2 DEF HeldGrants, LedgerOf
  <2>4. status[t] \in {"queued", "succeeded", "failed"} => HeldGrants(t) = {}
    BY <2>1 DEF HeldGrants, LedgerOf
  <2>5. status[t] = "none" => HeldGrants(t) = {}
    BY <2>1 DEF HeldGrants, LedgerOf, About, ReceiptsOf
  <2>6. status[t] \in Active => About(t, Terminators) = {}
    <3>1. status[t] \in Active => /\ About(t, {"completed"}) = {}
                                 /\ About(t, {"failed"}) = {}
                                 /\ About(t, {"canceled"}) = {}
      BY <2>1 DEF LedgerOf, Active
    <3>. QED  BY <3>1 DEF About, Terminators
  <2>7. status[t] = "canceled" => About(t, Terminators) # {}
    BY <2>1 DEF LedgerOf, About, Terminators
  <2>8. status[t] \in Active <=> HeldGrants(t) # {} /\ About(t, Terminators) = {}
    BY <2>1, <2>3, <2>4, <2>5, <2>6, <2>7 DEF Status, Terminal
  <2>9. status[t] = "running" <=>
            status[t] \in Active /\
            \E r \in About(t, {"started"}) : r.grant \in HeldGrants(t)
    BY <2>1, <2>3 DEF LedgerOf, Active
  <2>. QED  BY <2>1, <2>8, <2>9 DEF LedgerOf
<1>2. CustodyInv /\ LedgerInv => LedgerProvesStatus
  BY <1>1 DEF LedgerProvesStatus
<1>. QED  BY <1>2, CustodyCorrect, LedgerInvCorrect, PTL

\* No two receipts ever close one obligation, however often the task was
\* retried, expired or leased again.
THEOREM ClosedOnceCorrect == Spec => []ClosedAtMostOnce
<1>1. LedgerInv => ClosedAtMostOnce
  BY DEF LedgerInv, LedgerOf, ClosedAtMostOnce
<1>. QED  BY <1>1, LedgerInvCorrect, PTL

\* The attempt counter is the number of retry receipts and stays below
\* max_attempts: an expiry costs no attempt, a retryable failure exactly one.
THEOREM AttemptsCorrect == Spec => []AttemptsAccounted
<1>1. LedgerInv => AttemptsAccounted
  BY DEF LedgerInv, LedgerOf, AttemptsAccounted
<1>. QED  BY <1>1, LedgerInvCorrect, PTL

----------------------------------------------------------------------------
(* The renewal limits *)

LEMMA HoardingStep == CustodyInv /\ HoardingBounded /\ [Next]_vars => HoardingBounded'
<1> SUFFICES ASSUME CustodyInv, HoardingBounded, [Next]_vars, NEW k \in leases', Valid(k)
             PROVE  k.age + k.ttl <= MaxLifetime + MaxTTL
  BY DEF HoardingBounded, Valid
<1>1. CASE k \in leases
  BY <1>1 DEF HoardingBounded
<1>2. ASSUME NEW w \in Workers, NEW max_tasks \in 1..MaxBatch, NEW ttl \in 1..MaxTTL,
             LeaseNext(w, max_tasks, ttl), k \notin leases
      PROVE  k.age + k.ttl <= MaxLifetime + MaxTTL
  <2>1. k.age = 0 /\ k.ttl = ttl
    BY <1>2 DEF LeaseNext
  <2>. QED  BY <2>1, Constants
<1>3. ASSUME NEW l \in leases, NEW extend_by \in 1..MaxTTL, RenewLease(l, extend_by),
             k \notin leases
      PROVE  k.age + k.ttl <= MaxLifetime + MaxTTL
  <2>1. k = Renewed(l, extend_by) /\ l.age < MaxLifetime /\ l.age \in Nat
    BY <1>3 DEF RenewLease, Renewable, CustodyInv, TypeOK, Lease
  <2>. QED  BY <2>1, Constants DEF Renewed
<1>4. CASE Tick
  <2>1. PICK l \in leases : k = Aged(l)
    BY <1>4 DEF Tick
  <2>2. l.ttl \in Int /\ l.age \in Nat /\ (l.ttl > 0 => l.age + l.ttl <= MaxLifetime + MaxTTL)
    BY DEF CustodyInv, TypeOK, Lease, HoardingBounded, Valid
  <2>. QED  BY <2>1, <2>2, Constants DEF Aged, Valid, MaxAge
<1>5. ASSUME k \notin leases, ~Tick,
             ~ \E w \in Workers, max_tasks \in 1..MaxBatch, ttl \in 1..MaxTTL :
                  LeaseNext(w, max_tasks, ttl),
             ~ \E l \in leases, extend_by \in 1..MaxTTL : RenewLease(l, extend_by)
      PROVE  FALSE
  <2>1. \A l \in leases : Release(l) \subseteq leases
    BY DEF Release
  <2>2. leases' \subseteq leases
    BY <1>5, <2>1 DEF Next, vars, CreateTask, ReplayCreate, CancelTask, LeaseStep,
       TransitionToRunning, Complete, FailRetry, FailTerminal, ExpireLease
  <2>. QED  BY <1>5, <2>2
<1>. QED  BY <1>1, <1>2, <1>3, <1>4, <1>5

\* However a worker renews, no lease is valid for longer than one more TTL past
\* the lifetime limit, for any values of the limits.
THEOREM HoardingCorrect == Spec => []HoardingBounded
<1>1. Init => HoardingBounded
  BY DEF Init, HoardingBounded
<1>. QED  BY <1>1, HoardingStep, CustodyCorrect, PTL DEF Spec

----------------------------------------------------------------------------
(* Refinement *)

\* Every handler either moves one task along an edge of the state machine, or
\* grants a batch of queued tasks, or leaves status and grants alone.
LEMMA LifecycleStep ==
    CustodyInv /\ [Next]_vars => [Lifecycle!LifecycleNext]_(Lifecycle!lifecycleVars)
<1> SUFFICES ASSUME CustodyInv, [Next]_vars
             PROVE  \/ Lifecycle!LifecycleNext
                    \/ UNCHANGED <<status, grants>>
  BY DEF Lifecycle!lifecycleVars
<1> DEFINE Step == Lifecycle!LifecycleNext \/ UNCHANGED <<status, grants>>
<1>0. ASSUME NEW t \in Tasks, NEW to \in Lifecycle!Phases \ {"leased"},
             to \in Lifecycle!Transitions[status[t]],
             status' = [status EXCEPT ![t] = to], UNCHANGED grants
      PROVE  Step
  BY <1>0 DEF Lifecycle!LifecycleNext, Lifecycle!Move, Lifecycle!CanTransition
<1>1. ASSUME NEW t \in Tasks, NEW o \in Owners, NEW delay \in 0..MaxDelay,
             CreateTask(t, o, delay)
      PROVE  Step
  <2>1. status[t] = "none"
    BY <1>1 DEF CreateTask
  <2>2. "queued" \in Lifecycle!Transitions[status[t]]
    BY <2>1 DEF Lifecycle!Transitions
  <2>. QED  BY <1>1, <1>0, <2>2 DEF CreateTask, Lifecycle!Phases
<1>2. ASSUME NEW t \in Tasks, NEW o \in Owners, ReplayCreate(t, o)
      PROVE  Step
  BY <1>2 DEF ReplayCreate
<1>3. ASSUME NEW t \in Tasks, CancelTask(t)
      PROVE  Step
  <2>1. status[t] \in {"queued", "leased", "running"}
    BY <1>3 DEF CancelTask, CustodyInv, TypeOK, Status, Active, Terminal
  <2>2. "canceled" \in Lifecycle!Transitions[status[t]]
    BY <2>1 DEF Lifecycle!Transitions
  <2>. QED  BY <1>3, <1>0, <2>2 DEF CancelTask, Lifecycle!Phases
<1>4. ASSUME NEW w \in Workers, NEW max_tasks \in 1..MaxBatch,
             NEW ttl \in 1..MaxTTL, LeaseNext(w, max_tasks, ttl)
      PROVE  Step
  <2>1. \A t \in Claimable(w, max_tasks) : t \in Tasks /\ status[t] = "queued"
    BY DEF Claimable, Selected, Eligible
  <2>2. "leased" \in Lifecycle!Transitions["queued"]
    BY DEF Lifecycle!Transitions
  <2>3. Lifecycle!Grant(Claimable(w, max_tasks))
    BY <1>4, <2>1, <2>2 DEF LeaseNext, Lifecycle!Grant, Lifecycle!CanTransition
  <2>. QED  BY <2>1, <2>3 DEF Lifecycle!LifecycleNext
<1>5. ASSUME NEW l \in leases, LeaseStep(l)
      PROVE  Step
  <2>1. l.task \in Tasks /\ status[l.task] \in {"leased", "running"}
    BY LeaseTask DEF CustodyInv, Active
  <2>2. \A to \in {"queued", "succeeded", "failed"} :
            /\ to \in Lifecycle!Transitions[status[l.task]]
            /\ to \in Lifecycle!Phases \ {"leased"}
    BY <2>1 DEF Lifecycle!Transitions, Lifecycle!Phases
  <2>3. status[l.task] = "leased" =>
            /\ "running" \in Lifecycle!Transitions[status[l.task]]
            /\ "running" \in Lifecycle!Phases \ {"leased"}
    BY DEF Lifecycle!Transitions, Lifecycle!Phases
  <2> HIDE DEF Step
  <2>. QED  BY <1>5, <1>0, <2>1, <2>2, <2>3
       DEF LeaseStep, RenewLease, TransitionToRunning, Complete, FailRetry,
           FailTerminal, ExpireLease, Step
<1>6. CASE Tick
  BY <1>6 DEF Tick
<1>7. CASE UNCHANGED vars
  BY <1>7 DEF vars
<1>. QED  BY <1>1, <1>2, <1>3, <1>4, <1>5, <1>6, <1>7 DEF Next

\* The engine implements the task state machine: handlers that never consult
\* can_transition_to stay inside its table, and a grant is never given twice.
THEOREM LifecycleCorrect == Spec => ImplementsLifecycle
<1>1. Init => Lifecycle!LifecycleInit
  BY DEF Init, Lifecycle!LifecycleInit
<1>. QED  BY <1>1, LifecycleStep, CustodyCorrect, PTL
     DEF Spec, ImplementsLifecycle, Lifecycle!LifecycleSpec
----------------------------------------------------------------------------
(* What is left open when a task has ended *)

\* A terminator closes an obligation of the task's creator, or the completion that
\* does not is reported.
TerminatorsLinked ==
    \A r \in receipts : r.type \in Terminators =>
        r.offer \in OwnOffers(r.task) \/ About(r.task, {"anomaly"}) # {}

\* It holds of the old receipts once it did: nothing takes an offer back.
LEMMA LinkedKept ==
    ASSUME TerminatorsLinked, receipts \subseteq receipts',
           \A r \in receipts : OwnOffers(r.task) \subseteq OwnOffers(r.task)',
           \A r \in receipts' \ receipts : r.type \in Terminators =>
               r.offer \in OwnOffers(r.task)' \/ About(r.task, {"anomaly"})' # {}
    PROVE  TerminatorsLinked'
<1> SUFFICES ASSUME NEW r \in receipts', r.type \in Terminators
             PROVE  r.offer \in OwnOffers(r.task)' \/ About(r.task, {"anomaly"})' # {}
  BY DEF TerminatorsLinked
<1>1. CASE r \in receipts
  <2>1. About(r.task, {"anomaly"}) \subseteq About(r.task, {"anomaly"})'
    BY DEF About
  <2>. QED  BY <1>1, <2>1 DEF TerminatorsLinked
<1>. QED  BY <1>1

LEMMA LinkedStep ==
    CustodyInv /\ LedgerInv /\ TerminatorsLinked /\ [Next]_vars => TerminatorsLinked'
<1> SUFFICES ASSUME CustodyInv, LedgerInv, TerminatorsLinked, [Next]_vars
             PROVE  TerminatorsLinked'
  OBVIOUS
<1>1. \A r \in receipts : r.task \in Tasks /\ status[r.task] # "none"
  BY DEF CustodyInv, TypeOK, Receipt, LedgerInv, LedgerOf, ReceiptsOf
<1>2. ASSUME NEW t \in Tasks, NEW o \in Owners, NEW delay \in 0..MaxDelay,
             CreateTask(t, o, delay)
      PROVE  TerminatorsLinked'
  <2>1. \A u \in Tasks \ {t} : OwnOffers(u)' = OwnOffers(u)
    BY <1>2 DEF CreateTask, OwnOffers, CustodyInv, TypeOK
  <2>2. \A r \in receipts : r.task # t
    BY <1>1, <1>2 DEF CreateTask
  <2>3. receipts' = receipts
    BY <1>2 DEF CreateTask
  <2>. QED  BY <1>1, <2>1, <2>2, <2>3, LinkedKept
<1>3. ASSUME NEW t \in Tasks, NEW o \in Owners, ReplayCreate(t, o)
      PROVE  TerminatorsLinked'
  <2>1. /\ offers[t] \in Seq(Owners) /\ offers'[t] = Append(offers[t], o)
        /\ UNCHANGED <<creator, receipts>>
        /\ \A u \in Tasks \ {t} : offers'[u] = offers[u]
    BY <1>3 DEF ReplayCreate, CustodyInv, TypeOK
  <2>2. \A u \in Tasks : OwnOffers(u) \subseteq OwnOffers(u)'
    <3>1. OwnOffers(t) \subseteq OwnOffers(t)'
      BY <2>1 DEF OwnOffers
    <3>. QED  BY <2>1, <3>1 DEF OwnOffers
  <2>. QED  BY <1>1, <2>1, <2>2, LinkedKept
<1>4. ASSUME NEW t \in Tasks, CancelTask(t)
      PROVE  TerminatorsLinked'
  <2>1. /\ \A u : OwnOffers(u)' = OwnOffers(u)
        /\ receipts \subseteq receipts'
        /\ \A r \in receipts' \ receipts : r.task = t /\ r.offer = Obligation(t)
    BY <1>4 DEF CancelTask, OwnOffers, Emit
  <2>2. Obligation(t) \in OwnOffers(t)
    BY <1>4, ObligationIsOffer DEF CancelTask, CustodyInv
  <2>. QED  BY <2>1, <2>2, LinkedKept
<1>5. ASSUME NEW w \in Workers, NEW max_tasks \in 1..MaxBatch,
             NEW ttl \in 1..MaxTTL, LeaseNext(w, max_tasks, ttl)
      PROVE  TerminatorsLinked'
  <2>1. /\ \A u : OwnOffers(u)' = OwnOffers(u)
        /\ receipts \subseteq receipts'
        /\ \A r \in receipts' \ receipts : r.type = "accepted"
    BY <1>5 DEF LeaseNext, OwnOffers, Emit
  <2>. QED  BY <2>1, LinkedKept DEF Terminators
<1>6. ASSUME NEW l \in leases, LeaseStep(l)
      PROVE  TerminatorsLinked'
  <2>1. Obligation(l.task) \in OwnOffers(l.task)
    BY LeaseTask, ObligationIsOffer DEF CustodyInv, Active
  <2>2. /\ \A u : OwnOffers(u)' = OwnOffers(u)
        /\ receipts \subseteq receipts'
    BY <1>6 DEF LeaseStep, RenewLease, TransitionToRunning, Complete, FailRetry,
                FailTerminal, ExpireLease, OwnOffers
  <2>3. \A r \in receipts' \ receipts : r.type \in Terminators =>
            r.offer \in OwnOffers(r.task)' \/ About(r.task, {"anomaly"})' # {}
    <3>1. ASSUME NEW locatable \in BOOLEAN, Complete(l, locatable)
          PROVE  \A r \in receipts' \ receipts :
                    r.offer \in OwnOffers(r.task) \/ About(r.task, {"anomaly"})' # {}
      <4>1. CASE locatable
        <5>1. \A r \in receipts' \ receipts : r.task = l.task /\ r.offer = Obligation(l.task)
          BY <3>1, <4>1 DEF Complete, Emit
        <5>. QED  BY <2>1, <5>1
      <4>2. CASE ~locatable
        <5>1. /\ Emit("anomaly", l.task, 0, 0) \in receipts'
              /\ \A r \in receipts' \ receipts : r.task = l.task
          BY <3>1, <4>2 DEF Complete, Emit
        <5>2. About(l.task, {"anomaly"})' # {}
          BY <5>1 DEF About, Emit
        <5>. QED  BY <5>1, <5>2
      <4>. QED  BY <4>1, <4>2
    <3>2. ASSUME NEW retryable \in BOOLEAN, FailTerminal(l, retryable)
          PROVE  \A r \in receipts' \ receipts : r.offer \in OwnOffers(r.task)
      <4>1. \A r \in receipts' \ receipts : r.task = l.task /\ r.offer = Obligation(l.task)
        BY <3>2 DEF FailTerminal, Emit
      <4>. QED  BY <2>1, <4>1
    <3>3. ASSUME NEW extend_by \in 1..MaxTTL, RenewLease(l, extend_by)
          PROVE  receipts' = receipts
      BY <3>3 DEF RenewLease
    <3>4. CASE TransitionToRunning(l)
      BY <3>4 DEF TransitionToRunning, Emit, Terminators
    <3>5. CASE FailRetry(l)
      BY <3>5 DEF FailRetry, Emit, Terminators
    <3>6. ASSUME NEW jitter \in 0..MaxJitter, ExpireLease(l, jitter)
          PROVE  \A r \in receipts' \ receipts : r.type \notin Terminators
      BY <3>6 DEF ExpireLease, Emit, Terminators
    <3>. QED  BY <1>6, <2>2, <3>1, <3>2, <3>3, <3>4, <3>5, <3>6 DEF LeaseStep
  <2>. QED  BY <2>2, <2>3, LinkedKept
<1>7. CASE Tick
  BY <1>7, LinkedKept DEF Tick, OwnOffers
<1>8. CASE UNCHANGED vars
  BY <1>8, LinkedKept DEF vars, OwnOffers
<1>. QED  BY <1>2, <1>3, <1>4, <1>5, <1>6, <1>7, <1>8 DEF Next

\* When a task has ended, an obligation of its creator is closed, or the missing
\* artifacts are reported, whoever replayed its creation.
THEOREM StrayCorrect == Spec => []StrayObligationsExplained
<1>1. Init => TerminatorsLinked
  BY DEF Init, TerminatorsLinked
<1>2. ASSUME CustodyInv, LedgerInv, TerminatorsLinked, NEW t \in Tasks,
             status[t] \in Terminal, About(t, {"anomaly"}) = {}
      PROVE  \E r \in About(t, Terminators) :
                r.offer # 0 /\ offers[t][r.offer] = creator[t]
  <2>1. PICK r \in About(t, Terminators) : TRUE
    <3>1. \/ About(t, {"completed"}) # {}
          \/ About(t, {"failed"}) # {}
          \/ About(t, {"canceled"}) # {}
      BY <1>2 DEF LedgerInv, LedgerOf, Terminal
    <3>. QED  BY <3>1 DEF About, Terminators
  <2>2. r.offer \in OwnOffers(t)
    BY <1>2, <2>1 DEF TerminatorsLinked, About
  <2>3. DOMAIN offers[t] = 1..Len(offers[t])
    BY <1>2 DEF CustodyInv, TypeOK
  <2>. QED  BY <2>1, <2>2, <2>3 DEF OwnOffers
<1>3. CustodyInv /\ LedgerInv /\ TerminatorsLinked => StrayObligationsExplained
  BY <1>2 DEF StrayObligationsExplained
<1>. QED  BY <1>1, <1>3, LinkedStep, CustodyCorrect, LedgerInvCorrect, PTL DEF Spec
=============================================================================
