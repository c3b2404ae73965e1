--------------------------- MODULE WorkerLoop_proofs ---------------------------
(***************************************************************************)
(* What TLAPS proves of WorkerLoop, for any workers, tasks, durations,     *)
(* lease ttl and command limit.                                            *)
(***************************************************************************)
EXTENDS WorkerLoop, Numbers, FunctionTheorems, FiniteSetTheorems, TLAPS

LEMMA Limits ==
    /\ IsFiniteSet(Workers)
    /\ TaskCount \in Nat /\ ShortTime \in Nat /\ LongTime \in Nat
    /\ MaxJitter \in Nat /\ MaxFaults \in Nat
    /\ CommandLimit \in Nat /\ CommandLimit >= 1
    /\ LeaseTTL \in Nat /\ LeaseTTL >= 1
BY WorkerLoopAssumption

LEMMA Counts == Cardinality(Workers) \in Nat /\ LeaseIds \subseteq Nat
BY Limits, FS_CardinalityType DEF LeaseIds

----------------------------------------------------------------------------
(* Times and lease ids *)

LEMMA Times ==
    ASSUME NEW t \in Tasks
    PROVE  /\ Duration(t) \in Nat
           /\ WorkingTime(t) \in 0..CommandLimit
           /\ Duration(t) > CommandLimit => WorkingTime(t) = CommandLimit
<1>1. Duration(t) \in Nat
  BY Limits DEF Duration
<1>2. {Duration(t), CommandLimit} \in SUBSET Nat
  BY <1>1, Limits
<1>3. /\ WorkingTime(t) \in {Duration(t), CommandLimit}
      /\ WorkingTime(t) <= CommandLimit
  BY <1>2, MinIsLeast DEF WorkingTime
<1>. QED  BY <1>1, <1>3, Limits

IdFree(id, t) ==
    \A w \in Workers : hand[w] = Idle \/ hand[w].task # t \/ hand[w].id # id

\* There is always an id that no worker remembers: there are more of them than workers.
LEMMA FreshIdIsFree ==
    ASSUME hand \in [Workers -> Busy \cup {Idle}], NEW t \in Tasks
    PROVE  FreshId(t) \in LeaseIds /\ IdFree(FreshId(t), t)
<1> DEFINE free == {id \in LeaseIds : IdFree(id, t)}
<1>1. free # {}
  <2>1. SUFFICES ASSUME free = {} PROVE FALSE
    OBVIOUS
  <2>2. PICK user \in [LeaseIds -> Workers] :
           \A id \in LeaseIds : hand[user[id]] # Idle /\ hand[user[id]].id = id
    <3>1. \A id \in LeaseIds : \E w \in Workers : hand[w] # Idle /\ hand[w].id = id
      BY <2>1 DEF IdFree
    <3> DEFINE chosen == [id \in LeaseIds |->
                            CHOOSE w \in Workers : hand[w] # Idle /\ hand[w].id = id]
    <3>2. chosen \in [LeaseIds -> Workers]
      BY <3>1
    <3>3. \A id \in LeaseIds : hand[chosen[id]] # Idle /\ hand[chosen[id]].id = id
      BY <3>1
    <3>. QED  BY <3>2, <3>3
  <2>3. IsFiniteSet(LeaseIds) /\ Cardinality(LeaseIds) = Cardinality(Workers) + 1
    BY Counts, FS_Interval DEF LeaseIds
  <2>4. PICK a \in LeaseIds, b \in LeaseIds : a # b /\ user[a] = user[b]
    <3>1. Cardinality(Workers) < Cardinality(LeaseIds) /\ IsFiniteSet(Workers)
      BY <2>3, Counts, Limits
    <3>. QED  BY <2>3, <3>1, FS_PigeonHole
  <2>. QED  BY <2>2, <2>4
<1>2. FreshId(t) = Min(free)
  BY DEF FreshId, IdFree
<1> HIDE DEF free
<1>3. Min(free) \in free
  <2>1. free \in SUBSET Nat
    BY Counts DEF free
  <2>. QED  BY <1>1, <2>1, MinIsLeast
<1>. QED  BY <1>2, <1>3 DEF free

----------------------------------------------------------------------------
(* Types *)

LEMMA TypeInit == Init => TypeOK
<1> SUFFICES ASSUME Init PROVE TypeOK
  OBVIOUS
<1>. QED  BY Limits DEF Init, TypeOK, Ended

\* A lease row that is one, and a hand that is not empty.
LEMMA Rows ==
    ASSUME TypeOK
    PROVE  /\ \A t \in Tasks : lease[t] # NoLease =>
                 lease[t] = [id |-> lease[t].id, ttl |-> lease[t].ttl]
                 /\ lease[t].id \in LeaseIds /\ lease[t].ttl \in 0..LeaseTTL
           /\ \A w \in Workers : hand[w] # Idle =>
                 /\ hand[w] \in Busy
                 /\ hand[w].at \in {"starting", "executing"}
                 /\ hand[w].task \in Tasks /\ hand[w].id \in LeaseIds
                 /\ hand[w].left \in 0..CommandLimit
           /\ \A w \in Workers : hand[w].at # "polling" => hand[w] # Idle
<1>1. \A t \in Tasks : lease[t] # NoLease => lease[t] \in [id : LeaseIds, ttl : 0..LeaseTTL]
  BY DEF TypeOK
<1>2. \A w \in Workers : hand[w] # Idle => hand[w] \in Busy
  BY DEF TypeOK
<1>. QED  BY <1>1, <1>2 DEF Busy, Idle

LEMMA Changed ==
    ASSUME NEW S, NEW T, NEW f \in [S -> T], NEW x \in S, NEW e \in T
    PROVE  /\ [f EXCEPT ![x] = e] \in [S -> T]
           /\ [f EXCEPT ![x] = e][x] = e
           /\ \A y \in S \ {x} : [f EXCEPT ![x] = e][y] = f[y]
OBVIOUS

\* A claim gives out a lease of full ttl under a free id.
LEMMA Claiming ==
    ASSUME TypeOK, NEW t \in Tasks, Claim(t)
    PROVE  /\ status' = [status EXCEPT ![t] = "leased"]
           /\ lease' = [lease EXCEPT ![t] = [id |-> FreshId(t), ttl |-> LeaseTTL]]
           /\ status[t] = "queued" /\ lease[t] = NoLease
           /\ [id |-> FreshId(t), ttl |-> LeaseTTL] \in [id : LeaseIds, ttl : 0..LeaseTTL]
           /\ [id |-> FreshId(t), ttl |-> LeaseTTL] # NoLease
           /\ IdFree(FreshId(t), t)
<1>1. status[t] = "queued" /\ lease[t] = NoLease
  BY DEF Claim, Eligible, TypeOK
<1>2. FreshId(t) \in LeaseIds /\ IdFree(FreshId(t), t)
  BY FreshIdIsFree DEF TypeOK
<1>3. LeaseTTL \in 0..LeaseTTL
  BY Limits
<1>4. [id |-> FreshId(t), ttl |-> LeaseTTL] # NoLease
  BY DEF NoLease
<1>. QED  BY <1>1, <1>2, <1>3, <1>4 DEF Claim

\* Every step, as what it does to the status, the lease and the worker involved.
LEMMA TypeNext == TypeOK /\ [Next]_vars => TypeOK'
<1> SUFFICES ASSUME TypeOK, [Next]_vars
             PROVE  TypeOK'
  OBVIOUS
<1>1. ASSUME NEW t \in Tasks, CreateTask(t)
      PROVE  TypeOK'
  BY <1>1 DEF CreateTask, TypeOK, Ended
<1>2. ASSUME NEW t \in Tasks, ExpireLease(t)
      PROVE  TypeOK'
  BY <1>2 DEF ExpireLease, Overdue, TypeOK, Ended
<1>3. ASSUME NEW w \in Workers, NEW t \in Tasks, Claim(t), faults' \in 0..MaxFaults,
             hand' \in [Workers -> Busy \cup {Idle}]
      PROVE  TypeOK'
  <2>1. wait' = wait
    BY <1>3 DEF Claim
  <2>. QED  BY <1>3, <2>1, Claiming DEF TypeOK, Ended
<1>4. ASSUME NEW w \in Workers, Poll(w)
      PROVE  TypeOK'
  <2>1. PICK t \in Tasks :
           /\ Claim(t)
           /\ Put(w, IF t \in Malformed THEN Idle
                     ELSE [at |-> "starting", task |-> t, id |-> FreshId(t), left |-> 0])
    BY <1>4 DEF Poll
  <2>2. FreshId(t) \in LeaseIds
    BY FreshIdIsFree DEF TypeOK
  <2>3. [at |-> "starting", task |-> t, id |-> FreshId(t), left |-> 0] \in Busy
    BY <2>2, Limits DEF Busy
  <2>4. hand' \in [Workers -> Busy \cup {Idle}]
    BY <2>1, <2>3 DEF Put, TypeOK
  <2>. QED  BY <1>3, <1>4, <2>1, <2>4 DEF Poll, TypeOK
<1>5. ASSUME NEW w \in Workers, PollLost(w)
      PROVE  TypeOK'
  <2>1. PICK t \in Tasks : Claim(t)
    BY <1>5 DEF PollLost
  <2>2. faults' \in 0..MaxFaults /\ hand' \in [Workers -> Busy \cup {Idle}]
    BY <1>5, Limits DEF PollLost, Fault, TypeOK
  <2>. QED  BY <1>3, <2>1, <2>2
<1>6. ASSUME NEW w \in Workers, ReportRunning(w)
      PROVE  TypeOK'
  <2>1. hand[w] # Idle /\ hand[w] \in Busy /\ hand[w].task \in Tasks
    BY <1>6, Rows DEF ReportRunning
  <2>2. [hand[w] EXCEPT !.at = "executing", !.left = WorkingTime(hand[w].task)] \in Busy
    BY <2>1, Times DEF Busy
  <2>3. hand' \in [Workers -> Busy \cup {Idle}]
    BY <1>6, <2>2 DEF ReportRunning, Put, TypeOK
  <2>4. /\ faults' \in 0..MaxFaults
        /\ \/ status' = status
           \/ Holds(w) /\ status' = [status EXCEPT ![hand[w].task] = "running"]
    BY <1>6, Limits DEF ReportRunning, Fault, TypeOK
  <2>5. UNCHANGED <<wait, lease>>
    BY <1>6 DEF ReportRunning
  <2>. QED  BY <2>1, <2>3, <2>4, <2>5 DEF Holds, TypeOK, Ended
<1>7. ASSUME NEW w \in Workers, ReportCompletion(w)
      PROVE  TypeOK'
  <2>1. hand[w].task \in Tasks
    BY <1>7, Rows DEF ReportCompletion, Done
  <2>2. hand' \in [Workers -> Busy \cup {Idle}]
    BY <1>7 DEF ReportCompletion, Put, TypeOK
  <2>3. /\ faults' \in 0..MaxFaults
        /\ \/ UNCHANGED <<status, lease>>
           \/ \E result \in Ended :
                 /\ status' = [status EXCEPT ![hand[w].task] = result]
                 /\ lease' = [lease EXCEPT ![hand[w].task] = NoLease]
    BY <1>7, Limits DEF ReportCompletion, Fault, Results, Ended, TypeOK
  <2>4. wait' = wait
    BY <1>7 DEF ReportCompletion
  <2>. QED  BY <2>1, <2>2, <2>3, <2>4 DEF TypeOK, Ended
<1>8. ASSUME NEW w \in Workers, Die(w)
      PROVE  TypeOK'
  BY <1>8, Limits DEF Die, Fault, Put, TypeOK
<1>9. ASSUME Tick
      PROVE  TypeOK'
  <2>1. \A n \in Nat : Down(n) \in Nat /\ Down(n) <= n
    BY DEF Down
  <2>2. wait' \in [Tasks -> 0..MaxJitter]
    BY <1>9, <2>1, Limits DEF Tick, TypeOK
  <2>3. lease' \in [Tasks -> [id : LeaseIds, ttl : 0..LeaseTTL] \cup {NoLease}]
    BY <1>9, <2>1, Limits, Rows DEF Tick, TypeOK
  <2>4. \A t \in Tasks : lease'[t] = NoLease <=> lease[t] = NoLease
    BY <1>9, Rows DEF Tick, NoLease
  <2>5. ASSUME NEW w \in Workers, hand[w] # Idle
        PROVE  [hand[w] EXCEPT !.left = @ - 1] \in Busy
    <3>1. hand[w] \in Busy /\ hand[w].left # 0 /\ hand[w].left \in 0..CommandLimit
      BY <1>9, <2>5, Rows DEF Tick, Settled, Done
    <3>2. hand[w].left - 1 \in 0..CommandLimit
      BY <3>1, Limits
    <3>. QED  BY <3>1, <3>2 DEF Busy
  <2>6. hand' \in [Workers -> Busy \cup {Idle}]
    BY <1>9, <2>5 DEF Tick
  <2>. QED  BY <1>9, <2>2, <2>3, <2>4, <2>6 DEF Tick, TypeOK
<1>10. CASE UNCHANGED vars
  BY <1>10 DEF vars, TypeOK
<1>. QED
  BY <1>1, <1>2, <1>4, <1>5, <1>6, <1>7, <1>8, <1>9, <1>10 DEF Next, Run

\* Every reachable state is well-typed; in particular a task has a lease exactly while
\* it is leased or running, and there is always a lease id nobody remembers.
THEOREM TypeCorrect == Spec => []TypeOK
<1>. QED  BY TypeInit, TypeNext, PTL DEF Spec

----------------------------------------------------------------------------
(* The invariant                                                            *)
(*                                                                          *)
(* A worker's remaining time and its lease's remaining ttl were set off by  *)
(* the same claim and run down together.  One whose lease is gone is a ttl  *)
(* behind its start, and one whose task was claimed again a ttl behind the  *)
(* worker that has the new lease: between two claims of a task the lease of *)
(* the first has to run out.                                                *)

Current(w) == lease[hand[w].task] # NoLease /\ lease[hand[w].task].id = hand[w].id

Aged(t, id, left) ==
    IF lease[t] = NoLease THEN left + LeaseTTL <= WorkingTime(t)
    ELSE IF lease[t].id = id
    THEN left + LeaseTTL = WorkingTime(t) + lease[t].ttl
    ELSE left + LeaseTTL + LeaseTTL <= WorkingTime(t) + lease[t].ttl

AgeInv(w) ==
    /\ hand[w].at = "starting" => Current(w) /\ lease[hand[w].task].ttl = LeaseTTL
    /\ hand[w].at = "executing" => Aged(hand[w].task, hand[w].id, hand[w].left)

Together(w, v) == w # v /\ hand[w] # Idle /\ hand[v] # Idle /\ hand[w].task = hand[v].task

IdsDiffer(w, v) == Together(w, v) => hand[w].id # hand[v].id

Apart(w, v) ==
    Together(w, v) /\ hand[w].at = "executing" /\ hand[v].at = "executing" =>
        \/ hand[w].left + LeaseTTL <= hand[v].left
        \/ hand[v].left + LeaseTTL <= hand[w].left

NotBefore(t) == WorkingTime(t) >= LeaseTTL => status[t] \notin Ended

AgeInvs == \A w \in Workers : AgeInv(w)
PairInv == \A w, v \in Workers : IdsDiffer(w, v) /\ Apart(w, v)
LateInv == \A t \in Tasks : NotBefore(t)

RunInv == AgeInvs /\ PairInv /\ LateInv

LEMMA RunInit == Init => RunInv
BY DEF Init, RunInv, AgeInvs, PairInv, LateInv, AgeInv, IdsDiffer, Apart, Together,
       NotBefore, Idle, Ended

\* A lease ends: whoever had it, or had one before it, is a ttl behind its start.
LEMMA LeaseGone ==
    ASSUME TypeOK, NEW w \in Workers, hand[w] # Idle, hand[w].at = "executing", AgeInv(w),
           lease[hand[w].task] # NoLease,
           lease[hand[w].task].ttl = 0 \/ lease[hand[w].task].id # hand[w].id
    PROVE  hand[w].left + LeaseTTL <= WorkingTime(hand[w].task)
<1>1. /\ hand[w].task \in Tasks /\ hand[w].left \in Nat
      /\ lease[hand[w].task].ttl \in 0..LeaseTTL
  <2>1. hand[w].task \in Tasks /\ hand[w].left \in 0..CommandLimit
    BY Rows
  <2>2. lease[hand[w].task].ttl \in 0..LeaseTTL
    BY <2>1, Rows
  <2>. QED  BY <2>1, <2>2
<1>2. WorkingTime(hand[w].task) \in Nat /\ LeaseTTL \in Nat
  BY <1>1, Times, Limits
<1>. QED  BY <1>1, <1>2 DEF AgeInv, Aged

\* A worker that is not touched.
LEMMA AgeKept ==
    ASSUME NEW w \in Workers, AgeInv(w), hand'[w] = hand[w],
           lease'[hand[w].task] = lease[hand[w].task]
    PROVE  AgeInv(w)'
BY DEF AgeInv, Aged, Current, WorkingTime, Duration

\* Workers that do nothing but let go of their task.
LEMMA PairKept ==
    ASSUME PairInv, \A w \in Workers : hand'[w] \in {hand[w], Idle}
    PROVE  PairInv'
<1> SUFFICES ASSUME NEW w \in Workers, NEW v \in Workers
             PROVE  IdsDiffer(w, v)' /\ Apart(w, v)'
  BY DEF PairInv
<1>1. CASE hand'[w] = Idle \/ hand'[v] = Idle
  BY <1>1 DEF IdsDiffer, Apart, Together
<1>2. CASE hand'[w] = hand[w] /\ hand'[v] = hand[v]
  BY <1>2 DEF PairInv, IdsDiffer, Apart, Together
<1>. QED  BY <1>1, <1>2

LEMMA AgeIdle ==
    ASSUME NEW w \in Workers, hand[w] = Idle
    PROVE  AgeInv(w)
BY DEF AgeInv, Idle

LEMMA ExpiryStep ==
    ASSUME TypeOK, RunInv, NEW t \in Tasks, ExpireLease(t)
    PROVE  RunInv'
<1>1. /\ lease' = [lease EXCEPT ![t] = NoLease] /\ status' = [status EXCEPT ![t] = "queued"]
      /\ hand' = hand /\ lease[t] # NoLease /\ lease[t].ttl = 0
  BY DEF ExpireLease, Overdue
<1>2. PairInv'
  BY <1>1 DEF RunInv, PairInv, IdsDiffer, Apart, Together
<1>3. LateInv'
  BY <1>1 DEF RunInv, LateInv, NotBefore, TypeOK, Ended
<1>4. ASSUME NEW w \in Workers
      PROVE  AgeInv(w)'
  <2>1. CASE hand[w] = Idle
    BY <1>1, <2>1 DEF AgeInv, Idle
  <2>2. CASE hand[w] # Idle
    <3>1. hand[w].task \in Tasks /\ AgeInv(w)
      BY <2>2, Rows DEF RunInv, AgeInvs
    <3>2. CASE hand[w].task = t
      <4>1. hand[w].at # "starting"
        BY <1>1, <3>1, <3>2, Limits DEF AgeInv
      <4>2. lease'[t] = NoLease
        BY <1>1 DEF TypeOK
      <4>3. hand[w].at = "executing" => hand[w].left + LeaseTTL <= WorkingTime(t)
        BY <1>1, <2>2, <3>1, <3>2, LeaseGone
      <4>. QED  BY <1>1, <3>2, <4>1, <4>2, <4>3 DEF AgeInv, Aged
    <3>3. CASE hand[w].task # t
      <4>1. lease'[hand[w].task] = lease[hand[w].task]
        BY <1>1, <3>1, <3>3 DEF TypeOK
      <4>. QED  BY <1>1, <3>1, <4>1 DEF AgeInv, Aged, Current
    <3>. QED  BY <3>2, <3>3
  <2>. QED  BY <2>1, <2>2
<1>. QED  BY <1>2, <1>3, <1>4 DEF RunInv, AgeInvs

\* A new lease: nobody else had the task under one.
LEMMA ClaimStep ==
    ASSUME TypeOK, RunInv, NEW w \in Workers, NEW t \in Tasks, Claim(t), hand[w] = Idle,
           \/ hand' = hand
           \/ hand' = [hand EXCEPT ![w] = Idle]
           \/ hand' = [hand EXCEPT ![w] = [at |-> "starting", task |-> t,
                                          id |-> FreshId(t), left |-> 0]]
    PROVE  RunInv'
<1> DEFINE new == [at |-> "starting", task |-> t, id |-> FreshId(t), left |-> 0]
<1>1. /\ status' = [status EXCEPT ![t] = "leased"] /\ lease[t] = NoLease
      /\ lease' = [lease EXCEPT ![t] = [id |-> FreshId(t), ttl |-> LeaseTTL]]
      /\ [id |-> FreshId(t), ttl |-> LeaseTTL] # NoLease
      /\ IdFree(FreshId(t), t)
  BY Claiming
<1>2. /\ lease'[t] # NoLease /\ lease'[t].id = FreshId(t) /\ lease'[t].ttl = LeaseTTL
      /\ \A u \in Tasks \ {t} : lease'[u] = lease[u]
  BY <1>1 DEF TypeOK
<1>3. \A v \in Workers \ {w} : hand'[v] = hand[v]
  BY DEF TypeOK
<1>4. hand'[w] \in {Idle, new}
  BY DEF TypeOK
<1>5. new.at = "starting" /\ new.task = t /\ new.id = FreshId(t)
  OBVIOUS
<1> HIDE DEF new
<1>6. LateInv'
  BY <1>1 DEF RunInv, LateInv, NotBefore, TypeOK, Ended
<1>7. ASSUME NEW v \in Workers, hand[v] # Idle
      PROVE  AgeInv(v)'
  <2>1. hand[v].task \in Tasks /\ AgeInv(v) /\ hand'[v] = hand[v] /\ v # w
    BY <1>3, <1>7, Rows DEF RunInv, AgeInvs
  <2>2. CASE hand[v].task # t
    BY <1>2, <2>1, <2>2, AgeKept
  <2>3. CASE hand[v].task = t
    <3>1. hand[v].id # FreshId(t)
      BY <1>1, <1>7, <2>3 DEF IdFree
    <3>2. hand[v].at # "starting"
      BY <1>1, <2>1, <2>3 DEF AgeInv, Current
    <3>3. hand[v].at = "executing" => hand[v].left + LeaseTTL <= WorkingTime(t)
      BY <1>1, <2>1, <2>3 DEF AgeInv, Aged
    <3>4. hand[v].left \in Nat /\ WorkingTime(t) \in Nat /\ LeaseTTL \in Nat
      <4>1. hand[v].left \in 0..CommandLimit
        BY <1>7, Rows
      <4>. QED  BY <4>1, Times, Limits
    <3>5. hand[v].at = "executing" =>
            hand[v].left + LeaseTTL + LeaseTTL <= WorkingTime(t) + LeaseTTL
      BY <3>3, <3>4
    <3>. QED  BY <1>2, <2>1, <2>3, <3>1, <3>2, <3>5 DEF AgeInv, Aged, WorkingTime, Duration
  <2>. QED  BY <2>2, <2>3
<1>8. ASSUME NEW v \in Workers, hand[v] = Idle
      PROVE  AgeInv(v)'
  <2>1. CASE hand'[v] = Idle
    BY <2>1 DEF AgeInv, Idle
  <2>2. CASE hand'[v] = new
    BY <1>2, <1>5, <2>2 DEF AgeInv, Current
  <2>3. hand'[v] \in {Idle, new}
    BY <1>3, <1>4, <1>8
  <2>. QED  BY <2>1, <2>2, <2>3
<1>9. PairInv'
  <2>1. CASE hand'[w] = Idle
    BY <1>3, <2>1, PairKept DEF RunInv
  <2>2. CASE hand'[w] = new
    <3>1. SUFFICES ASSUME NEW u \in Workers, NEW v \in Workers
                   PROVE  IdsDiffer(u, v)' /\ Apart(u, v)'
      BY DEF PairInv
    <3>2. CASE u # w /\ v # w
      BY <1>3, <3>2 DEF RunInv, PairInv, IdsDiffer, Apart, Together
    <3>3. CASE u = w \/ v = w
      BY <1>1, <1>3, <1>5, <2>2, <3>3 DEF IdsDiffer, Apart, Together, IdFree
    <3>. QED  BY <3>2, <3>3
  <2>. QED  BY <1>4, <2>1, <2>2
<1>. QED  BY <1>6, <1>7, <1>8, <1>9 DEF RunInv, AgeInvs

\* The command starts within the unit of time of the claim.
LEMMA RunningStep ==
    ASSUME TypeOK, RunInv, NEW w \in Workers, ReportRunning(w)
    PROVE  RunInv'
<1> DEFINE t   == hand[w].task
           new == [hand[w] EXCEPT !.at = "executing", !.left = WorkingTime(t)]
<1>1. /\ hand[w] \in Busy /\ hand[w] # Idle /\ t \in Tasks /\ hand[w].at = "starting"
      /\ AgeInv(w)
  BY Rows DEF ReportRunning, RunInv, AgeInvs
<1>2. lease[t] # NoLease /\ lease[t].id = hand[w].id /\ lease[t].ttl = LeaseTTL
  BY <1>1 DEF AgeInv, Current
<1>3. /\ new \in Busy /\ new.at = "executing" /\ new.task = t /\ new.id = hand[w].id
      /\ new.left = WorkingTime(t) /\ new # Idle
  BY <1>1, Times DEF Busy, Idle
<1>4. hand'[w] = new /\ \A v \in Workers \ {w} : hand'[v] = hand[v]
  BY DEF ReportRunning, Put, TypeOK
<1>5. lease' = lease /\ (status' = status \/ status' = [status EXCEPT ![t] = "running"])
  BY DEF ReportRunning
<1> HIDE DEF new, t
<1>6. LateInv'
  BY <1>1, <1>5 DEF RunInv, LateInv, NotBefore, TypeOK, Ended
<1>7. AgeInv(w)'
  BY <1>2, <1>3, <1>4, <1>5 DEF AgeInv, Aged, WorkingTime, Duration
<1>8. \A v \in Workers \ {w} : AgeInv(v)'
  BY <1>4, <1>5, AgeKept DEF RunInv, AgeInvs
<1>9. ASSUME NEW v \in Workers \ {w}, hand[v].at = "executing", hand[v].task = t
      PROVE  hand[v].left + LeaseTTL <= WorkingTime(t)
  <2>1. hand[v] # Idle /\ AgeInv(v)
    BY <1>9 DEF Idle, RunInv, AgeInvs
  <2>2. hand[v].id # hand[w].id
    BY <1>1, <1>9, <2>1 DEF RunInv, PairInv, IdsDiffer, Together, t
  <2>. QED  BY <1>2, <1>9, <2>1, <2>2, LeaseGone
<1>10. PairInv'
  <2>1. SUFFICES ASSUME NEW u \in Workers, NEW v \in Workers
                 PROVE  IdsDiffer(u, v)' /\ Apart(u, v)'
    BY DEF PairInv
  <2>2. IdsDiffer(u, v) /\ Apart(u, v)
    BY DEF RunInv, PairInv
  <2>3. CASE u # w /\ v # w
    BY <1>4, <2>2, <2>3 DEF IdsDiffer, Apart, Together
  <2>4. CASE u = w \/ v = w
    BY <1>1, <1>3, <1>4, <1>9, <2>2, <2>4 DEF IdsDiffer, Apart, Together, t
  <2>. QED  BY <2>3, <2>4
<1>. QED  BY <1>6, <1>7, <1>8, <1>10 DEF RunInv, AgeInvs

\* A report under a lease ends it, and says "succeeded" or "failed" only of a command
\* that was over while the lease still had some of its ttl.
LEMMA CompletionStep ==
    ASSUME TypeOK, RunInv, NEW w \in Workers, ReportCompletion(w)
    PROVE  RunInv'
<1> DEFINE t == hand[w].task
<1>1. /\ hand[w] # Idle /\ t \in Tasks /\ hand[w].at = "executing" /\ hand[w].left = 0
      /\ AgeInv(w)
  BY Rows DEF ReportCompletion, Done, RunInv, AgeInvs
<1>2. hand'[w] = Idle /\ \A v \in Workers \ {w} : hand'[v] = hand[v]
  BY DEF ReportCompletion, Put, TypeOK
<1>3. PairInv'
  BY <1>2, PairKept DEF RunInv
<1>4. AgeInv(w)'
  BY <1>2 DEF AgeInv, Idle
<1>5. CASE UNCHANGED <<status, lease>>
  <2>1. \A v \in Workers \ {w} : AgeInv(v)'
    BY <1>2, <1>5, AgeKept DEF RunInv, AgeInvs
  <2>2. LateInv'
    BY <1>5 DEF RunInv, LateInv, NotBefore, WorkingTime, Duration
  <2>. QED  BY <1>3, <1>4, <2>1, <2>2 DEF RunInv, AgeInvs
<1>6. ASSUME Holds(w), NEW result \in Ended, status' = [status EXCEPT ![t] = result],
             lease' = [lease EXCEPT ![t] = NoLease]
      PROVE  RunInv'
  <2>1. /\ lease[t] # NoLease /\ lease[t].id = hand[w].id /\ lease[t].ttl > 0
        /\ lease[t].ttl \in 0..LeaseTTL
    <3>1. lease[t] # NoLease /\ lease[t].id = hand[w].id /\ lease[t].ttl > 0
      BY <1>6 DEF Holds
    <3>. QED  BY <1>1, <3>1, Rows
  <2>2. WorkingTime(t) < LeaseTTL
    <3>1. 0 + LeaseTTL = WorkingTime(t) + lease[t].ttl
      BY <1>1, <2>1 DEF AgeInv, Aged
    <3>2. WorkingTime(t) \in Nat
      BY <1>1, Times, Limits
    <3>. QED  BY <2>1, <3>1, <3>2, Limits
  <2>3. LateInv'
    <3>1. SUFFICES ASSUME NEW u \in Tasks PROVE NotBefore(u)'
      BY DEF LateInv
    <3>2. CASE u = t
      <4>1. WorkingTime(t) \in Nat
        BY <1>1, Times, Limits
      <4>. QED  BY <2>2, <3>2, <4>1, Limits DEF NotBefore, WorkingTime, Duration
    <3>3. CASE u # t
      <4>1. status'[u] = status[u]
        BY <1>6, <3>3 DEF TypeOK
      <4>. QED  BY <4>1 DEF RunInv, LateInv, NotBefore, WorkingTime, Duration
    <3>. QED  BY <3>2, <3>3
  <2>4. ASSUME NEW v \in Workers \ {w}, hand[v] # Idle
        PROVE  AgeInv(v)'
    <3>1. hand[v].task \in Tasks /\ AgeInv(v) /\ hand'[v] = hand[v]
      BY <1>2, <2>4, Rows DEF RunInv, AgeInvs
    <3>2. CASE hand[v].task # t
      <4>1. lease'[hand[v].task] = lease[hand[v].task]
        BY <1>6, <3>1, <3>2 DEF TypeOK
      <4>. QED  BY <3>1, <4>1, AgeKept
    <3>3. CASE hand[v].task = t
      <4>1. hand[v].id # lease[t].id
        BY <1>1, <2>1, <2>4, <3>3 DEF RunInv, PairInv, IdsDiffer, Together
      <4>2. hand[v].at # "starting"
        BY <3>1, <3>3, <4>1 DEF AgeInv, Current
      <4>3. hand[v].at = "executing" => hand[v].left + LeaseTTL <= WorkingTime(t)
        BY <2>1, <2>4, <3>1, <3>3, <4>1, LeaseGone
      <4>4. lease'[t] = NoLease
        BY <1>1, <1>6 DEF TypeOK
      <4>. QED  BY <3>1, <3>3, <4>2, <4>3, <4>4 DEF AgeInv, Aged, WorkingTime, Duration
    <3>. QED  BY <3>2, <3>3
  <2>5. ASSUME NEW v \in Workers \ {w}, hand[v] = Idle
        PROVE  AgeInv(v)'
    BY <1>2, <2>5 DEF AgeInv, Idle
  <2>. QED  BY <1>3, <1>4, <2>3, <2>4, <2>5 DEF RunInv, AgeInvs
<1>. QED  BY <1>5, <1>6 DEF ReportCompletion, Results, Ended

\* Time takes the same from every command and every lease.
LEMMA TickStep ==
    ASSUME TypeOK, RunInv, Tick
    PROVE  RunInv'
<1>1. LateInv'
  BY DEF Tick, RunInv, LateInv, NotBefore, WorkingTime, Duration
<1>2. ASSUME NEW w \in Workers, hand[w] # Idle
      PROVE  /\ hand[w].at = "executing" /\ hand[w].task \in Tasks
             /\ hand[w].left \in Nat /\ hand[w].left > 0
             /\ hand'[w] # Idle /\ hand'[w].at = "executing"
             /\ hand'[w].task = hand[w].task /\ hand'[w].id = hand[w].id
             /\ hand'[w].left = hand[w].left - 1
  <2>1. /\ hand[w] \in Busy /\ hand[w].at = "executing" /\ hand[w].task \in Tasks
        /\ hand[w].left \in 0..CommandLimit /\ hand[w].left # 0
    BY <1>2, Rows DEF Tick, Settled, Done
  <2>2. hand'[w] = [hand[w] EXCEPT !.left = hand[w].left - 1]
    BY <1>2 DEF Tick
  <2>3. /\ hand'[w].at = "executing" /\ hand'[w].task = hand[w].task
        /\ hand'[w].id = hand[w].id /\ hand'[w].left = hand[w].left - 1
    BY <2>1, <2>2 DEF Busy
  <2>. QED  BY <2>1, <2>3 DEF Idle
<1>3. ASSUME NEW w \in Workers, hand[w] = Idle
      PROVE  hand'[w] = Idle
  BY <1>3 DEF Tick
<1>4. ASSUME NEW t \in Tasks
      PROVE  /\ lease[t] = NoLease => lease'[t] = NoLease
             /\ lease[t] # NoLease =>
                   /\ lease'[t] # NoLease /\ lease'[t].id = lease[t].id
                   /\ lease[t].ttl \in Nat /\ lease[t].ttl > 0
                   /\ lease'[t].ttl = lease[t].ttl - 1
  <2>1. CASE lease[t] = NoLease
    BY <2>1 DEF Tick
  <2>2. CASE lease[t] # NoLease
    <3>1. /\ lease[t] \in [id : LeaseIds, ttl : 0..LeaseTTL] /\ lease[t].ttl # 0
      BY <2>2 DEF Tick, Settled, Overdue, TypeOK
    <3>2. lease'[t] = [lease[t] EXCEPT !.ttl = lease[t].ttl - 1]
      BY <2>2, <3>1 DEF Tick, Down
    <3>3. lease'[t].id = lease[t].id /\ lease'[t].ttl = lease[t].ttl - 1
      BY <3>1, <3>2
    <3>4. lease'[t] # NoLease
      BY <3>1, <3>2 DEF NoLease
    <3>. QED  BY <2>2, <3>1, <3>3, <3>4, Limits
  <2>. QED  BY <2>1, <2>2
<1>5. ASSUME NEW t \in Tasks, NEW id, NEW left \in Nat, left > 0, Aged(t, id, left)
      PROVE  Aged(t, id, left - 1)'
  <2>1. WorkingTime(t) \in Nat /\ LeaseTTL \in Nat
    BY Times, Limits
  <2>2. CASE lease[t] = NoLease
    BY <1>4, <1>5, <2>1, <2>2 DEF Aged
  <2>3. CASE lease[t] # NoLease
    BY <1>4, <1>5, <2>1, <2>3 DEF Aged
  <2>. QED  BY <2>2, <2>3
<1>8. ASSUME NEW w \in Workers, hand[w] # Idle
      PROVE  AgeInv(w)'
  <2>1. PICK t \in Tasks, id \in LeaseIds, left \in Nat :
           t = hand[w].task /\ id = hand[w].id /\ left = hand[w].left
    BY <1>2, <1>8, Rows
  <2>2. left > 0 /\ Aged(t, id, left)
    BY <1>2, <1>8, <2>1 DEF RunInv, AgeInvs, AgeInv, Aged
  <2>3. Aged(t, id, left - 1)'
    BY <1>5, <2>2
  <2>4. /\ hand'[w].at = "executing" /\ hand'[w].task = t /\ hand'[w].id = id
        /\ hand'[w].left = left - 1
    BY <1>2, <1>8, <2>1
  <2>. QED  BY <2>3, <2>4 DEF AgeInv, Aged, WorkingTime, Duration
<1>6. ASSUME NEW w \in Workers
      PROVE  AgeInv(w)'
  BY <1>3, <1>8 DEF AgeInv, Idle
<1>7. ASSUME NEW u \in Workers, NEW v \in Workers
      PROVE  IdsDiffer(u, v)' /\ Apart(u, v)'
  <2>1. IdsDiffer(u, v) /\ Apart(u, v)
    BY DEF RunInv, PairInv
  <2>2. CASE hand[u] = Idle \/ hand[v] = Idle
    BY <1>3, <2>2 DEF IdsDiffer, Apart, Together
  <2>3. CASE hand[u] # Idle /\ hand[v] # Idle
    BY <1>2, <2>1, <2>3, Limits DEF IdsDiffer, Apart, Together
  <2>. QED  BY <2>2, <2>3
<1>. QED  BY <1>1, <1>6, <1>7 DEF RunInv, AgeInvs, PairInv

LEMMA RunNext == TypeOK /\ RunInv /\ [Next]_vars => RunInv'
<1> SUFFICES ASSUME TypeOK, RunInv, [Next]_vars
             PROVE  RunInv'
  OBVIOUS
<1>1. ASSUME NEW t \in Tasks, CreateTask(t)
      PROVE  RunInv'
  <2>1. UNCHANGED <<lease, hand>> /\ status' = [status EXCEPT ![t] = "queued"]
    BY <1>1 DEF CreateTask
  <2>2. PairInv'
    BY <2>1, PairKept DEF RunInv
  <2>3. AgeInvs'
    BY <2>1, AgeKept DEF RunInv, AgeInvs
  <2>4. LateInv'
    BY <2>1 DEF RunInv, LateInv, NotBefore, TypeOK, Ended, WorkingTime, Duration
  <2>. QED  BY <2>2, <2>3, <2>4 DEF RunInv
<1>2. ASSUME NEW w \in Workers, Poll(w)
      PROVE  RunInv'
  <2>1. PICK t \in Tasks :
           /\ Claim(t)
           /\ Put(w, IF t \in Malformed THEN Idle
                     ELSE [at |-> "starting", task |-> t, id |-> FreshId(t), left |-> 0])
    BY <1>2 DEF Poll
  <2>. QED  BY <1>2, <2>1, ClaimStep DEF Poll, Put
<1>3. ASSUME NEW w \in Workers, PollLost(w)
      PROVE  RunInv'
  BY <1>3, ClaimStep DEF PollLost
<1>4. ASSUME NEW w \in Workers, Die(w)
      PROVE  RunInv'
  <2>1. /\ UNCHANGED <<status, lease>> /\ hand'[w] = Idle
        /\ \A v \in Workers \ {w} : hand'[v] = hand[v]
    BY <1>4 DEF Die, Put, TypeOK
  <2>2. PairInv'
    BY <2>1, PairKept DEF RunInv
  <2>3. \A v \in Workers \ {w} : AgeInv(v)'
    BY <2>1, AgeKept DEF RunInv, AgeInvs
  <2>4. AgeInv(w)'
    BY <2>1 DEF AgeInv, Idle
  <2>5. LateInv'
    BY <2>1 DEF RunInv, LateInv, NotBefore, WorkingTime, Duration
  <2>. QED  BY <2>2, <2>3, <2>4, <2>5 DEF RunInv, AgeInvs
<1>5. CASE UNCHANGED vars
  <2>1. UNCHANGED <<status, lease, hand>>
    BY <1>5 DEF vars
  <2>2. PairInv'
    BY <2>1, PairKept DEF RunInv
  <2>3. AgeInvs'
    BY <2>1, AgeKept DEF RunInv, AgeInvs
  <2>4. LateInv'
    BY <2>1 DEF RunInv, LateInv, NotBefore, WorkingTime, Duration
  <2>. QED  BY <2>2, <2>3, <2>4 DEF RunInv
<1>. QED
  BY <1>1, <1>2, <1>3, <1>4, <1>5, ExpiryStep, RunningStep, CompletionStep, TickStep
     DEF Next, Run

LEMMA RunCorrect == Spec => []RunInv
<1>. QED  BY RunInit, RunNext, TypeCorrect, PTL DEF Spec

\* What a worker reports of a command that takes as long as its lease or longer is
\* never accepted, however many workers run it how often: its task does not end.
THEOREM LateCorrect == Spec => []LateReportsIgnored
<1>1. RunInv => LateReportsIgnored
  BY DEF RunInv, LateInv, NotBefore, LateReportsIgnored
<1>. QED  BY <1>1, RunCorrect, PTL

----------------------------------------------------------------------------
(* Counting workers                                                         *)
(*                                                                          *)
(* The times the runners of a task have left lie in 1..CommandLimit and are *)
(* a ttl apart: no two fall into the same interval of that length.          *)

LEMMA Counted ==
    ASSUME NEW k \in Nat, NEW q \in Nat, NEW d \in Nat, NEW n \in Nat,
           k <= q + 1, d * q < n
    PROVE  (k - 1) * d < n
<1>1. (k - 1) * d <= q * d
  <2>1. k - 1 <= q /\ k - 1 \in Int
    OBVIOUS
  <2>. QED  BY <2>1
<1>. QED  BY <1>1

\* However often a command outlives its lease, no more workers run it at a time than
\* leases fit into the limit of its command.
THEOREM RunsCorrect == Spec => []RunsBounded
<1>1. ASSUME TypeOK, RunInv, NEW t \in Tasks
      PROVE  (Cardinality(Runners(t)) - 1) * LeaseTTL < CommandLimit
  <2> DEFINE R == Runners(t)
             last == (CommandLimit - 1) \div LeaseTTL
             slot == [w \in R |-> (hand[w].left - 1) \div LeaseTTL]
  <2>1. /\ LeaseTTL \in Nat /\ LeaseTTL >= 1 /\ CommandLimit \in Nat
        /\ CommandLimit - 1 \in Nat
    BY Limits
  <2>2. ASSUME NEW w \in R
        PROVE  /\ w \in Workers /\ hand[w] # Idle /\ hand[w].at = "executing"
               /\ hand[w].task = t
               /\ hand[w].left \in Nat /\ hand[w].left - 1 \in Nat
               /\ hand[w].left - 1 <= CommandLimit - 1
    <3>1. w \in Workers /\ hand[w].at = "executing" /\ hand[w].task = t /\ hand[w].left > 0
      BY DEF Runners
    <3>2. hand[w] # Idle /\ hand[w].left \in 0..CommandLimit
      BY <1>1, <3>1, Rows
    <3>. QED  BY <3>1, <3>2, Limits
  <2>3. last \in Nat /\ LeaseTTL * last < CommandLimit
    <3>1. last \in Nat /\ LeaseTTL * last <= CommandLimit - 1
      BY <2>1, Quotients
    <3>. QED  BY <2>1, <3>1
  <2>4. slot \in [R -> 0..last]
    <3>1. ASSUME NEW w \in R
          PROVE  (hand[w].left - 1) \div LeaseTTL \in 0..last
      <4>1. (hand[w].left - 1) \div LeaseTTL \in Nat
        BY <2>1, <2>2, Quotients
      <4>2. (hand[w].left - 1) \div LeaseTTL <= last
        BY <2>1, <2>2, QuotientsOrdered
      <4>. QED  BY <2>3, <4>1, <4>2
    <3>. QED  BY <3>1
  <2>5. ASSUME NEW w \in R, NEW v \in R, w # v
        PROVE  slot[w] # slot[v]
    <3>1. \/ hand[w].left + LeaseTTL <= hand[v].left
          \/ hand[v].left + LeaseTTL <= hand[w].left
      BY <1>1, <2>2, <2>5 DEF RunInv, PairInv, Apart, Together
    <3>2. \/ (hand[w].left - 1) + LeaseTTL <= hand[v].left - 1
          \/ (hand[v].left - 1) + LeaseTTL <= hand[w].left - 1
      BY <2>1, <2>2, <3>1
    <3>. QED  BY <2>1, <2>2, <3>2, QuotientsDiffer
  <2>6. IsFiniteSet(R)
    BY Limits, FS_Subset DEF Runners
  <2> HIDE DEF R, last, slot
  <2>7. slot \in Injection(R, 0..last)
    BY <2>4, <2>5, Fun_IsInj
  <2>8. IsFiniteSet(0..last) /\ Cardinality(0..last) = last + 1
    BY <2>3, FS_Interval
  <2>9. Cardinality(R) \in Nat /\ Cardinality(R) <= last + 1
    BY <2>6, <2>7, <2>8, FS_Injection, FS_CardinalityType
  <2>. QED  BY <2>1, <2>3, <2>9, Counted DEF R
<1>2. TypeOK /\ RunInv => RunsBounded
  BY <1>1 DEF RunsBounded
<1>. QED  BY <1>2, TypeCorrect, RunCorrect, PTL
=============================================================================
