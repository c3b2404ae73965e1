----------------------------- MODULE TaskTx_proofs -----------------------------
(***************************************************************************)
(* What TLAPS proves of TaskTx, for any number of sessions and any bounds. *)
(***************************************************************************)
EXTENDS TaskTx, FiniteSetTheorems, TLAPS

Statuses == {"queued"} \cup Active \cup Terminal
Tasks    == [status : Statuses, attempt : Nat]
Leases   == [id : Nat \ {TaskKey}, live : BOOLEAN]

Txs ==
    [op : AllOperations \cup {"none"}, pc : Steps, grant : Nat, attempt : Nat,
     requeue : BOOLEAN, held : SUBSET Nat, waits : Nat, row : Tasks \cup {Keep},
     lrow : Leases \cup {NoLease, Keep}, out : SUBSET Receipt]

\* TypeOK without the bounds of the model, and with no lease on the task's own key.
Shape ==
    /\ task \in Tasks
    /\ lease \in Leases \cup {NoLease}
    /\ grants \in Nat
    /\ receipts \subseteq Receipt
    /\ tx \in [Sessions -> Txs]

LEMMA Markers ==
    /\ NoLease \notin Leases
    /\ Keep \notin Leases /\ Keep # NoLease /\ Keep \notin Tasks
    /\ NoKey \in Nat /\ NoKey # TaskKey
BY MarkerAssumption, TxAssumption
   DEF LeaseRow, Leases, Tasks, Statuses, NoKey, TaskKey

\* Which handler executes which statements.
OnCourse(t) ==
    /\ t.pc = "validate" => t.op \in {"complete", "fail", "progress"}
    /\ t.pc = "read" => t.op \in {"complete", "fail", "progress", "renew", "cancel", "sweep"}
    /\ t.pc = "lock" => t.op \in {"complete", "fail", "renew"}
    /\ t.pc = "recheck" => t.op \in {"complete", "fail", "cancel"}
    /\ t.pc \in {"select", "insert"} => t.op = "claim"
    /\ t.pc \in {"scan", "requeue"} => t.op = "sweep"
    /\ t.pc = "write" => t.op \in {"complete", "fail", "progress", "cancel", "sweep"}
    /\ t.pc = "release" => t.op \in {"cancel", "sweep"}
    /\ t.pc = "commit" => t.op # "none"
    /\ t.op \in {"complete", "fail", "progress", "renew"} => t.grant # TaskKey
    /\ t.op = "sweep" /\ t.pc # "scan" => t.grant # TaskKey
    /\ t.op = "cancel" /\ t.pc \in {"read", "release"} => t.waits # TaskKey

\* The transaction has locked its lease, by for_update.
UnderLease(t) ==
    \/ t.op \in {"complete", "fail"} /\ t.pc \in {"recheck", "write", "commit"}
    \/ t.op = "renew" /\ t.pc = "commit"

HoldsLease(t) == lease # NoLease /\ lease.id \in t.held

\* A lease row is locked by whoever writes it, and a claim writes a new one only
\* while there is none.
Guarded(t) ==
    /\ UnderLease(t) => HoldsLease(t) /\ lease.id = t.grant
    /\ t.op # "claim" /\ t.lrow # Keep => HoldsLease(t)
    /\ t.op = "claim" /\ t.pc \in {"insert", "commit"} => TaskKey \in t.held
    /\ t.op = "claim" /\ t.pc = "commit" => lease = NoLease
    /\ t.op = "claim" /\ t.lrow # Keep => t.pc = "commit"

\* No row is locked twice.
Exclusive == \A r, s \in Sessions : r # s => tx[r].held \cap tx[s].held = {}

LockInv ==
    /\ Shape
    /\ Exclusive
    /\ \A s \in Sessions : OnCourse(tx[s]) /\ Guarded(tx[s])

LEMMA IdleIs ==
    Idle \in Txs /\ OnCourse(Idle) /\ Guarded(Idle)
BY Markers DEF Idle, Txs, OnCourse, Guarded, UnderLease, HoldsLease, AllOperations, Steps

LEMMA LockInit == Init => LockInv
<1> SUFFICES ASSUME Init
             PROVE  LockInv
  OBVIOUS
<1>1. Shape
  BY IdleIs DEF Init, Shape, Tasks, Statuses
<1>2. Exclusive
  BY DEF Init, Exclusive, Idle
<1>. QED  BY <1>1, <1>2, IdleIs DEF Init, LockInv

\* A statement that commits nothing: what must be shown of the transaction record it
\* leaves, and that no row it has locked anew was locked.
LEMMA Becomes ==
    ASSUME LockInv, NEW s \in Sessions, NEW t \in Txs, Become(s, t),
           OnCourse(t), Guarded(t),
           \A key \in t.held \ tx[s].held : ~Locked(s, key)
    PROVE  LockInv'
<1>1. tx' = [tx EXCEPT ![s] = t] /\ UNCHANGED <<task, lease, grants, receipts>>
  BY DEF Become
<1>2. Shape'
  BY <1>1 DEF LockInv, Shape
<1>3. Exclusive'
  BY <1>1 DEF LockInv, Shape, Exclusive, Locked
<1>4. ASSUME NEW r \in Sessions
      PROVE  OnCourse(tx'[r]) /\ Guarded(tx[r])'
  BY <1>1 DEF LockInv, Shape, OnCourse, Guarded, HoldsLease, UnderLease
<1>. QED  BY <1>2, <1>3, <1>4 DEF LockInv, OnCourse

LEMMA RolledBack ==
    ASSUME LockInv, NEW s \in Sessions, Rollback(s)
    PROVE  LockInv'
BY Becomes, IdleIs DEF Rollback, Idle

LEMMA Statement ==
    ASSUME LockInv, NEW s \in Sessions
    PROVE  tx[s] \in Txs /\ OnCourse(tx[s]) /\ Guarded(tx[s])
BY DEF LockInv, Shape

\* A statement without a lock.
LEMMA GoneTo ==
    ASSUME LockInv, NEW s \in Sessions, NEW t \in Txs, Become(s, t),
           OnCourse(t), ~UnderLease(t),
           t.op = tx[s].op, t.held = tx[s].held, t.lrow = tx[s].lrow,
           t.op = "claim" => t.pc = tx[s].pc
    PROVE  LockInv'
<1>1. Guarded(t)
  BY Statement DEF Guarded, HoldsLease
<1>. QED  BY <1>1, Becomes
LEMMA BeginKept ==
    ASSUME LockInv, NEW s \in Sessions, NEW op \in AllOperations, Begin(s, op)
    PROVE  LockInv'
<1>1. ASSUME NEW t \in Txs, Become(s, t),
             t.op = op, t.held = {}, t.lrow = Keep, t.waits = NoKey,
             \/ t.pc = "validate" /\ op \in {"complete", "fail", "progress"} /\ t.grant # TaskKey
             \/ t.pc = "read" /\ op = "renew" /\ t.grant # TaskKey
             \/ t.pc = "read" /\ op = "cancel"
             \/ t.pc = "select" /\ op = "claim"
             \/ t.pc = "scan" /\ op = "sweep"
      PROVE  LockInv'
  <2>1. OnCourse(t) /\ Guarded(t)
    BY <1>1, Markers DEF OnCourse, Guarded, UnderLease
  <2>. QED  BY <1>1, <2>1, Becomes
<1>2. ASSUME NEW g \in 1..grants, NEW pc \in {"validate", "read"},
             Become(s, [Idle EXCEPT !.op = op, !.pc = pc, !.grant = g]),
             \/ pc = "validate" /\ op \in {"complete", "fail", "progress"}
             \/ pc = "read" /\ op = "renew"
      PROVE  LockInv'
  <2> DEFINE t == [Idle EXCEPT !.op = op, !.pc = pc, !.grant = g]
  <2>1. g \in Nat /\ g # TaskKey /\ pc \in Steps
    BY DEF LockInv, Shape, TaskKey, Steps
  <2>2. /\ t \in Txs /\ t.op = op /\ t.pc = pc /\ t.grant = g /\ t.held = {}
        /\ t.lrow = Keep /\ t.waits = NoKey
    BY <2>1, IdleIs DEF Idle, Txs
  <2>. QED  BY <1>1, <1>2, <2>1, <2>2
<1>3. ASSUME NEW pc \in {"read", "select", "scan"},
             Become(s, [Idle EXCEPT !.op = op, !.pc = pc]),
             \/ pc = "read" /\ op = "cancel"
             \/ pc = "select" /\ op = "claim"
             \/ pc = "scan" /\ op = "sweep"
      PROVE  LockInv'
  <2> DEFINE t == [Idle EXCEPT !.op = op, !.pc = pc]
  <2>1. /\ t \in Txs /\ t.op = op /\ t.pc = pc /\ t.held = {}
        /\ t.lrow = Keep /\ t.waits = NoKey
    BY IdleIs DEF Idle, Txs, Steps
  <2>. QED  BY <1>1, <1>3, <2>1
<1>. QED  BY <1>2, <1>3 DEF Begin

LEMMA ValidateKept ==
    ASSUME LockInv, NEW s \in Sessions, Validate(s)
    PROVE  LockInv'
<1> DEFINE t == [tx[s] EXCEPT !.pc = "read"]
<1>1. t \in Txs /\ OnCourse(t) /\ ~UnderLease(t) /\ t.op # "claim"
      /\ t.op = tx[s].op /\ t.held = tx[s].held /\ t.lrow = tx[s].lrow
  BY Statement DEF Validate, Txs, Steps, OnCourse, UnderLease
<1>. HIDE DEF t
<1>2. CASE Rollback(s)
  BY <1>2, RolledBack
<1>3. CASE Become(s, t)
  BY <1>1, <1>3, GoneTo
<1>. QED  BY <1>2, <1>3 DEF Validate, Goto, t

LEMMA ReadKept ==
    ASSUME LockInv, NEW s \in Sessions, Read(s)
    PROVE  LockInv'
<1>1. ASSUME NEW pc \in {"lock", "write", "release", "requeue"}, NEW requeue \in BOOLEAN,
             Become(s, [tx[s] EXCEPT !.pc = pc, !.requeue = requeue]),
             pc = "lock" => tx[s].op \in {"complete", "fail", "renew"},
             pc = "write" => tx[s].op = "progress",
             pc = "release" => tx[s].op = "cancel",
             pc = "requeue" => tx[s].op = "sweep"
      PROVE  LockInv'
  <2> DEFINE t == [tx[s] EXCEPT !.pc = pc, !.requeue = requeue]
  <2>1. /\ t \in Txs /\ t.op = tx[s].op /\ t.held = tx[s].held /\ t.lrow = tx[s].lrow
        /\ t.pc = pc /\ t.grant = tx[s].grant /\ t.waits = tx[s].waits
    BY Statement DEF Txs, Steps
  <2>2. tx[s].pc = "read"
    BY DEF Read
  <2>. HIDE DEF t
  <2>3. OnCourse(t) /\ ~UnderLease(t) /\ t.op # "claim"
    BY <1>1, <2>1, <2>2, Statement DEF OnCourse, UnderLease
  <2>. QED  BY <1>1, <2>1, <2>3, GoneTo DEF t
<1>2. ASSUME NEW pc \in {"lock", "write", "release", "requeue"}
      PROVE  [tx[s] EXCEPT !.pc = pc] = [tx[s] EXCEPT !.pc = pc, !.requeue = tx[s].requeue]
  BY Statement DEF Txs
<1>3. tx[s].requeue \in BOOLEAN
  BY Statement DEF Txs
<1>4. CASE Rollback(s)
  BY <1>4, RolledBack
<1>5. ASSUME NEW retryable \in BOOLEAN, tx[s].op = "fail",
             Become(s, [tx[s] EXCEPT !.pc = "lock",
                    !.requeue = retryable /\ task.attempt + 1 < MaxAttempts])
      PROVE  LockInv'
  <2>1. (retryable /\ task.attempt + 1 < MaxAttempts) \in BOOLEAN
    OBVIOUS
  <2>. QED  BY <1>1, <1>5, <2>1
<1>6. CASE \E pc \in {"lock", "write", "release", "requeue"} :
             /\ Goto(s, pc)
             /\ pc = "lock" => tx[s].op \in {"complete", "fail", "renew"}
             /\ pc = "write" => tx[s].op = "progress"
             /\ pc = "release" => tx[s].op = "cancel"
             /\ pc = "requeue" => tx[s].op = "sweep"
  <2>1. PICK pc \in {"lock", "write", "release", "requeue"} :
             /\ Become(s, [tx[s] EXCEPT !.pc = pc, !.requeue = tx[s].requeue])
             /\ pc = "lock" => tx[s].op \in {"complete", "fail", "renew"}
             /\ pc = "write" => tx[s].op = "progress"
             /\ pc = "release" => tx[s].op = "cancel"
             /\ pc = "requeue" => tx[s].op = "sweep"
    BY <1>2, <1>6 DEF Goto
  <2>. QED  BY <1>1, <1>3, <2>1
<1>. QED  BY <1>4, <1>5, <1>6 DEF Read
\* A statement that waits.
LEMMA Blocked ==
    ASSUME LockInv, NEW s \in Sessions, NEW key \in Nat, NEW seen, Block(s, key, seen),
           tx[s].op = "cancel" /\ tx[s].pc \in {"read", "release"} => key # TaskKey
    PROVE  LockInv'
<1> DEFINE t == [tx[s] EXCEPT !.waits = key]
<1>1. /\ t \in Txs /\ t.op = tx[s].op /\ t.held = tx[s].held /\ t.lrow = tx[s].lrow
      /\ t.pc = tx[s].pc /\ t.grant = tx[s].grant /\ t.waits = key
  BY Statement DEF Txs
<1>. HIDE DEF t
<1>2. OnCourse(t) /\ Guarded(t)
  BY <1>1, Statement DEF OnCourse, Guarded, UnderLease, HoldsLease
<1>3. Become(s, t)
  BY DEF Block, t
<1>. QED  BY <1>1, <1>2, <1>3, Becomes

\* The transaction record of a statement that gets its row.
LEMMA HavingIs ==
    ASSUME LockInv, NEW s \in Sessions, NEW key \in Nat, NEW pc \in Steps
    PROVE  /\ Having(s, key, pc) \in Txs
           /\ Having(s, key, pc).op = tx[s].op
           /\ Having(s, key, pc).pc = pc
           /\ Having(s, key, pc).grant = tx[s].grant
           /\ Having(s, key, pc).held = tx[s].held \cup {key}
           /\ Having(s, key, pc).lrow = tx[s].lrow
           /\ Having(s, key, pc).waits = NoKey
BY Statement, Markers DEF Having, Txs

LEMMA KeyOfLease ==
    ASSUME LockInv, NEW key \in Nat, key # TaskKey, Exists(key)
    PROVE  lease # NoLease /\ lease.id = key
BY DEF Exists

LEMMA LockLeaseKept ==
    ASSUME LockInv, NEW s \in Sessions, LockLease(s)
    PROVE  LockInv'
<1> DEFINE g == tx[s].grant
<1>1. /\ g \in Nat /\ g # TaskKey /\ tx[s].op \in {"complete", "fail", "renew"}
      /\ tx[s].pc = "lock" /\ tx[s].lrow \in Leases \cup {NoLease, Keep}
  BY Statement DEF LockLease, OnCourse, Txs
<1>2. CASE Hit(s, g, Sought(s))
  <2>1. /\ lease # NoLease /\ lease.id = g /\ ~Locked(s, g)
    BY <1>1, <1>2, KeyOfLease DEF Hit
  <2>2. ASSUME tx[s].op = "renew",
               Become(s, [Having(s, g, "commit") EXCEPT !.lrow = [id |-> g, live |-> TRUE]])
        PROVE  LockInv'
    <3> DEFINE h == Having(s, g, "commit")
               t == [h EXCEPT !.lrow = [id |-> g, live |-> TRUE]]
    <3>1. /\ h \in Txs /\ h.op = "renew" /\ h.pc = "commit" /\ h.grant = g
          /\ h.held = tx[s].held \cup {g}
      BY <1>1, <2>2, HavingIs DEF Steps
    <3>. HIDE DEF h
    <3>2. /\ t \in Txs /\ t.op = "renew" /\ t.pc = "commit" /\ t.grant = g
          /\ t.held = tx[s].held \cup {g}
      BY <1>1, <3>1 DEF Txs, Leases
    <3>3. Become(s, t)
      BY <2>2 DEF h
    <3>. HIDE DEF t
    <3>4. OnCourse(t) /\ Guarded(t)
      BY <1>1, <2>1, <3>2 DEF OnCourse, Guarded, UnderLease, HoldsLease
    <3>. QED  BY <2>1, <3>2, <3>3, <3>4, Becomes
  <2>3. ASSUME tx[s].op # "renew", Become(s, Having(s, g, "recheck"))
        PROVE  LockInv'
    <3> DEFINE t == Having(s, g, "recheck")
    <3>1. /\ t \in Txs /\ t.op = tx[s].op /\ t.pc = "recheck" /\ t.grant = g
          /\ t.held = tx[s].held \cup {g} /\ t.lrow = tx[s].lrow
      BY <1>1, HavingIs DEF Steps
    <3>. HIDE DEF t
    <3>2. OnCourse(t) /\ Guarded(t)
      BY <1>1, <2>1, <2>3, <3>1 DEF OnCourse, Guarded, UnderLease, HoldsLease
    <3>. QED  BY <2>1, <2>3, <3>1, <3>2, Becomes DEF t
  <2>4. CASE Rollback(s)
    BY <2>4, RolledBack
  <2>5. CASE Block(s, g, Sought(s))
    BY <1>1, <2>5, Blocked
  <2>. QED  BY <2>2, <2>3, <2>4, <2>5 DEF LockLease
<1>3. CASE Rollback(s)
  BY <1>3, RolledBack
<1>4. CASE Block(s, g, Sought(s))
  BY <1>1, <1>4, Blocked
<1>. QED  BY <1>2, <1>3, <1>4 DEF LockLease

LEMMA RecheckKept ==
    ASSUME LockInv, NEW s \in Sessions, Recheck(s)
    PROVE  LockInv'
<1>1. tx[s].pc = "recheck" /\ tx[s].op \in {"complete", "fail", "cancel"}
  BY Statement DEF Recheck, OnCourse
<1>2. ASSUME NEW t \in Txs, Become(s, t), t.pc \in {"write", "commit"},
             t.op = tx[s].op, t.grant = tx[s].grant, t.held = tx[s].held,
             t.lrow = tx[s].lrow, t.pc = "commit" => tx[s].op = "cancel"
      PROVE  LockInv'
  <2>1. OnCourse(t) /\ Guarded(t)
    BY <1>1, <1>2, Statement DEF OnCourse, Guarded, UnderLease, HoldsLease
  <2>. QED  BY <1>2, <2>1, Becomes
<1>3. CASE Rollback(s)
  BY <1>3, RolledBack
<1>4. CASE Goto(s, "write")
  <2> DEFINE t == [tx[s] EXCEPT !.pc = "write"]
  <2>1. /\ t \in Txs /\ t.pc = "write" /\ t.op = tx[s].op /\ t.grant = tx[s].grant
        /\ t.held = tx[s].held /\ t.lrow = tx[s].lrow
    BY Statement DEF Txs, Steps
  <2>. QED  BY <1>2, <1>4, <2>1 DEF Goto
<1>5. CASE Become(s, [tx[s] EXCEPT !.pc = "write", !.attempt = task.attempt])
  <2> DEFINE t == [tx[s] EXCEPT !.pc = "write", !.attempt = task.attempt]
  <2>1. /\ t \in Txs /\ t.pc = "write" /\ t.op = tx[s].op /\ t.grant = tx[s].grant
        /\ t.held = tx[s].held /\ t.lrow = tx[s].lrow
    BY Statement DEF Txs, Steps, LockInv, Shape, Tasks
  <2>. QED  BY <1>2, <1>5, <2>1
<1>6. CASE /\ tx[s].op = "cancel"
           /\ Become(s, [tx[s] EXCEPT !.pc = "commit",
                            !.out = {[type |-> "canceled", grant |-> 0]}])
  <2> DEFINE t == [tx[s] EXCEPT !.pc = "commit",
                       !.out = {[type |-> "canceled", grant |-> 0]}]
  <2>1. {[type |-> "canceled", grant |-> 0]} \in SUBSET Receipt
    BY DEF Receipt
  <2>2. /\ t \in Txs /\ t.pc = "commit" /\ t.op = tx[s].op /\ t.grant = tx[s].grant
        /\ t.held = tx[s].held /\ t.lrow = tx[s].lrow
    BY <2>1, Statement DEF Txs, Steps
  <2>. QED  BY <1>2, <1>6, <2>2
<1>. QED  BY <1>3, <1>4, <1>5, <1>6 DEF Recheck

LEMMA SelectKept ==
    ASSUME LockInv, NEW s \in Sessions, Select(s)
    PROVE  LockInv'
<1>1. CASE Rollback(s)
  BY <1>1, RolledBack
<1>2. CASE ~Locked(s, TaskKey) /\ Become(s, Having(s, TaskKey, "insert"))
  <2> DEFINE t == Having(s, TaskKey, "insert")
  <2>1. tx[s].op = "claim" /\ tx[s].pc = "select"
    BY DEF Select, At
  <2>2. /\ t \in Txs /\ t.op = "claim" /\ t.pc = "insert"
        /\ t.held = tx[s].held \cup {TaskKey} /\ t.lrow = tx[s].lrow
    BY <2>1, HavingIs DEF Steps, TaskKey
  <2>. HIDE DEF t
  <2>3. OnCourse(t) /\ Guarded(t)
    BY <2>1, <2>2, Statement DEF OnCourse, Guarded, UnderLease, HoldsLease
  <2>. QED  BY <1>2, <2>2, <2>3, Becomes DEF t
<1>. QED  BY <1>1, <1>2 DEF Select

LEMMA InsertKept ==
    ASSUME LockInv, NEW s \in Sessions, Insert(s)
    PROVE  LockInv'
<1>1. tx[s].op = "claim" /\ tx[s].pc = "insert"
  BY DEF Insert, At
<1>2. CASE Rollback(s)
  BY <1>2, RolledBack
<1>3. CASE lease # NoLease /\ Block(s, lease.id, TRUE)
  <2>1. lease.id \in Nat
    BY <1>3 DEF LockInv, Shape, Leases
  <2>. QED  BY <1>1, <1>3, <2>1, Blocked
<1>4. CASE lease = NoLease /\ Grant(s)
  <2> DEFINE new == [id |-> grants + 1, live |-> TRUE]
             t   == [tx[s] EXCEPT !.pc = "commit", !.waits = NoKey,
                        !.row = [task EXCEPT !.status = "leased"], !.lrow = new]
  <2>1. grants + 1 \in Nat /\ new \in Leases
    BY DEF LockInv, Shape, Leases, TaskKey
  <2>2. [task EXCEPT !.status = "leased"] \in Tasks
    BY DEF LockInv, Shape, Tasks, Statuses, Active
  <2>3. t \in Txs /\ t.op = "claim" /\ t.pc = "commit" /\ t.held = tx[s].held
    BY <1>1, <2>1, <2>2, Statement, Markers DEF Txs, Steps
  <2>4. tx' = [tx EXCEPT ![s] = t] /\ grants' = grants + 1
        /\ UNCHANGED <<task, lease, receipts>>
    BY <1>4 DEF Grant
  <2>. HIDE DEF t, new
  <2>5. OnCourse(t) /\ Guarded(t)
    BY <1>1, <1>4, <2>3, Statement DEF OnCourse, Guarded, UnderLease
  <2>6. Shape'
    BY <2>1, <2>3, <2>4 DEF LockInv, Shape
  <2>7. Exclusive'
    BY <2>3, <2>4 DEF LockInv, Shape, Exclusive
  <2>8. ASSUME NEW r \in Sessions
        PROVE  OnCourse(tx'[r]) /\ Guarded(tx[r])'
    BY <2>4, <2>5 DEF LockInv, Shape, OnCourse, Guarded, HoldsLease, UnderLease
  <2>. QED  BY <2>6, <2>7, <2>8 DEF LockInv, OnCourse
<1>. QED  BY <1>2, <1>3, <1>4 DEF Insert

LEMMA ScanKept ==
    ASSUME LockInv, NEW s \in Sessions, Scan(s)
    PROVE  LockInv'
<1>1. CASE Rollback(s)
  BY <1>1, RolledBack
<1>2. CASE lease # NoLease /\ Become(s, [tx[s] EXCEPT !.pc = "read", !.grant = lease.id])
  <2> DEFINE t == [tx[s] EXCEPT !.pc = "read", !.grant = lease.id]
  <2>1. tx[s].op = "sweep" /\ lease.id \in Nat \ {TaskKey}
    BY <1>2 DEF Scan, At, LockInv, Shape, Leases
  <2>2. /\ t \in Txs /\ t.op = "sweep" /\ t.pc = "read" /\ t.grant = lease.id
        /\ t.held = tx[s].held /\ t.lrow = tx[s].lrow
    BY <2>1, Statement DEF Txs, Steps
  <2>. HIDE DEF t
  <2>3. OnCourse(t) /\ ~UnderLease(t)
    BY <2>1, <2>2 DEF OnCourse, UnderLease
  <2>. QED  BY <1>2, <2>1, <2>2, <2>3, GoneTo DEF t
<1>. QED  BY <1>1, <1>2 DEF Scan

LEMMA RequeueReadKept ==
    ASSUME LockInv, NEW s \in Sessions, RequeueRead(s)
    PROVE  LockInv'
<1> DEFINE t == [tx[s] EXCEPT !.pc = "write", !.attempt = task.attempt]
<1>1. tx[s].op = "sweep" /\ tx[s].pc = "requeue" /\ Become(s, t)
  BY DEF RequeueRead, At
<1>2. /\ t \in Txs /\ t.op = "sweep" /\ t.pc = "write" /\ t.grant = tx[s].grant
      /\ t.held = tx[s].held /\ t.lrow = tx[s].lrow
  BY <1>1, Statement DEF Txs, Steps, LockInv, Shape, Tasks
<1>. HIDE DEF t
<1>3. OnCourse(t) /\ ~UnderLease(t)
  BY <1>1, <1>2, Statement DEF OnCourse, UnderLease
<1>. QED  BY <1>1, <1>2, <1>3, GoneTo
\* What the UPDATE of a handler writes.
LEMMA WrittenIs ==
    ASSUME LockInv, NEW s \in Sessions, tx[s].pc = "write"
    PROVE  /\ Written(s) \in Txs
           /\ Written(s).op = tx[s].op
           /\ Written(s).pc = IF tx[s].op = "sweep" THEN "release" ELSE "commit"
           /\ Written(s).grant = tx[s].grant
           /\ Written(s).held = tx[s].held \cup {TaskKey}
           /\ Written(s).row = NewRow(s)
           /\ Written(s).lrow = IF tx[s].op \in {"complete", "fail"} /\ Exists(tx[s].grant)
                                THEN NoLease ELSE tx[s].lrow
           /\ Written(s).out = Proof(s)
           /\ Written(s).waits = NoKey
<1>1. tx[s] \in Txs /\ tx[s].op \in {"complete", "fail", "progress", "cancel", "sweep"}
  BY Statement DEF OnCourse
<1>2. NewRow(s) \in Tasks
  <2>1. ASSUME NEW st \in Statuses
        PROVE  [task EXCEPT !.status = st] \in Tasks
    BY DEF LockInv, Shape, Tasks
  <2>2. {"succeeded", "running", "canceled", "failed", "queued"} \subseteq Statuses
    BY DEF Statuses, Active, Terminal
  <2>3. ASSUME NEW n \in Nat
        PROVE  [status |-> "queued", attempt |-> n] \in Tasks
    BY <2>2 DEF Tasks
  <2>4. tx[s].attempt \in Nat /\ tx[s].attempt + 1 \in Nat
    BY <1>1 DEF Txs
  <2>. QED  BY <1>1, <2>1, <2>2, <2>3, <2>4 DEF NewRow, Requeued
<1>3. Proof(s) \in SUBSET Receipt
  <2>1. tx[s].grant \in Nat /\ 0 \in Nat
    BY <1>1 DEF Txs
  <2>. QED  BY <1>1, <2>1 DEF Proof, Receipt
<1> DEFINE pc == IF tx[s].op = "sweep" THEN "release" ELSE "commit"
           h == Having(s, TaskKey, pc)
<1>4. pc \in Steps /\ TaskKey \in Nat
  BY DEF Steps, TaskKey
<1>5. /\ h \in Txs /\ h.op = tx[s].op /\ h.pc = pc /\ h.grant = tx[s].grant
      /\ h.held = tx[s].held \cup {TaskKey} /\ h.lrow = tx[s].lrow /\ h.waits = NoKey
  BY <1>4, HavingIs
<1> DEFINE l == IF tx[s].op \in {"complete", "fail"} /\ Exists(tx[s].grant)
                THEN NoLease ELSE h.lrow
<1>6. l \in Leases \cup {NoLease, Keep}
  BY <1>5 DEF Txs
<1>7. Written(s) = [h EXCEPT !.row = NewRow(s), !.lrow = l, !.out = Proof(s)]
  BY DEF Written
<1>. HIDE DEF h, pc, l
<1>. QED  BY <1>2, <1>3, <1>5, <1>6, <1>7 DEF Txs, l, pc

LEMMA WriteKept ==
    ASSUME LockInv, NEW s \in Sessions, Write(s)
    PROVE  LockInv'
<1>1. tx[s].pc = "write" /\ tx[s].op \in {"complete", "fail", "progress", "cancel", "sweep"}
  BY Statement DEF Write, OnCourse
<1>2. CASE ~Locked(s, TaskKey) /\ Become(s, Written(s))
  <2> DEFINE t == Written(s)
  <2>1. /\ t \in Txs /\ t.op = tx[s].op /\ t.grant = tx[s].grant
        /\ t.pc = IF tx[s].op = "sweep" THEN "release" ELSE "commit"
        /\ t.held = tx[s].held \cup {TaskKey}
        /\ t.lrow = tx[s].lrow \/ tx[s].op \in {"complete", "fail"}
    BY <1>1, WrittenIs
  <2>. HIDE DEF t
  <2>2. OnCourse(t)
    BY <1>1, <2>1, Statement DEF OnCourse
  <2>3. Guarded(t)
    BY <1>1, <2>1, Statement DEF Guarded, UnderLease, HoldsLease
  <2>. QED  BY <1>2, <2>1, <2>2, <2>3, Becomes DEF t
<1>3. CASE Block(s, TaskKey, TRUE)
  BY <1>1, <1>3, Blocked DEF TaskKey
<1>. QED  BY <1>2, <1>3 DEF Write, Hit

LEMMA DeleteKept ==
    ASSUME LockInv, NEW s \in Sessions, Delete(s)
    PROVE  LockInv'
<1> DEFINE next == IF tx[s].op = "sweep" THEN "commit" ELSE "recheck"
           key  == Doomed(s)
<1>1. tx[s].pc = "release" /\ tx[s].op \in {"cancel", "sweep"} /\ tx[s] \in Txs
      /\ next \in Steps
  BY Statement DEF Delete, OnCourse, Steps
<1>2. key \in Nat /\ key # TaskKey
  <2>1. lease # NoLease => lease.id \in Nat \ {TaskKey}
    BY DEF LockInv, Shape, Leases
  <2>2. tx[s].waits \in Nat /\ tx[s].grant \in Nat
    BY <1>1 DEF Txs
  <2>. QED  BY <1>1, <2>1, <2>2, Statement, Markers DEF Doomed, OnCourse
<1>3. CASE Hit(s, key, Exists(key)) /\ Become(s, [Having(s, key, next) EXCEPT !.lrow = NoLease])
  <2> DEFINE h == Having(s, key, next)
             t == [h EXCEPT !.lrow = NoLease]
  <2>1. /\ h \in Txs /\ h.op = tx[s].op /\ h.pc = next /\ h.grant = tx[s].grant
        /\ h.held = tx[s].held \cup {key}
    BY <1>1, <1>2, HavingIs
  <2>2. lease # NoLease /\ lease.id = key /\ ~Locked(s, key)
    BY <1>2, <1>3, KeyOfLease DEF Hit
  <2>. HIDE DEF h, key
  <2>3. /\ t \in Txs /\ t.op = tx[s].op /\ t.pc = next /\ t.grant = tx[s].grant
        /\ t.held = tx[s].held \cup {key}
    BY <2>1 DEF Txs
  <2>4. Become(s, t)
    BY <1>3 DEF h, key
  <2>. HIDE DEF t
  <2>5. OnCourse(t) /\ Guarded(t)
    BY <1>1, <2>2, <2>3, Statement DEF OnCourse, Guarded, UnderLease, HoldsLease
  <2>. QED  BY <2>2, <2>3, <2>4, <2>5, Becomes
<1>4. CASE Become(s, [tx[s] EXCEPT !.pc = next, !.waits = NoKey])
  <2> DEFINE t == [tx[s] EXCEPT !.pc = next, !.waits = NoKey]
  <2>1. /\ t \in Txs /\ t.op = tx[s].op /\ t.pc = next /\ t.grant = tx[s].grant
        /\ t.held = tx[s].held /\ t.lrow = tx[s].lrow
    BY <1>1, Markers DEF Txs
  <2>. HIDE DEF t
  <2>2. OnCourse(t) /\ ~UnderLease(t) /\ t.op # "claim"
    BY <1>1, <2>1, Statement DEF OnCourse, UnderLease
  <2>. QED  BY <1>4, <2>1, <2>2, GoneTo DEF t
<1>5. CASE Block(s, key, Exists(key))
  BY <1>2, <1>5, Blocked
<1>. QED  BY <1>3, <1>4, <1>5 DEF Delete

LEMMA CommitKept ==
    ASSUME LockInv, NEW s \in Sessions, Commit(s)
    PROVE  LockInv'
<1>1. /\ tx[s].pc = "commit" /\ tx[s] \in Txs /\ OnCourse(tx[s]) /\ Guarded(tx[s])
      /\ tx' = [tx EXCEPT ![s] = Idle] /\ UNCHANGED grants
      /\ task' = IF tx[s].row = Keep THEN task ELSE tx[s].row
      /\ lease' = IF tx[s].lrow = Keep THEN lease ELSE tx[s].lrow
      /\ receipts' = receipts \cup tx[s].out
  BY Statement DEF Commit
<1>2. Shape'
  BY <1>1, IdleIs DEF LockInv, Shape, Txs
<1>3. Exclusive'
  BY <1>1 DEF LockInv, Shape, Exclusive, Idle
<1>4. ASSUME NEW r \in Sessions
      PROVE  OnCourse(tx'[r]) /\ Guarded(tx[r])'
  <2>1. CASE r = s
    <3>1. tx'[r] = Idle
      BY <1>1, <2>1 DEF LockInv, Shape
    <3>. QED
      BY <3>1, IdleIs DEF Idle, Guarded, UnderLease
  <2>2. CASE r # s
    <3>1. tx'[r] = tx[r] /\ OnCourse(tx[r]) /\ Guarded(tx[r])
          /\ tx[r].held \cap tx[s].held = {}
      BY <1>1, <2>2, Statement DEF LockInv, Shape, Exclusive
    <3>2. CASE tx[s].lrow = Keep
      BY <1>1, <3>1, <3>2 DEF Guarded, HoldsLease
    <3>3. CASE tx[s].lrow # Keep /\ tx[s].op = "claim"
      <4>1. lease = NoLease /\ TaskKey \in tx[s].held
        BY <1>1, <3>3 DEF Guarded
      <4>. QED  BY <3>1, <4>1 DEF Guarded, HoldsLease
    <3>4. CASE tx[s].lrow # Keep /\ tx[s].op # "claim"
      <4>1. HoldsLease(tx[s])
        BY <1>1, <3>4 DEF Guarded
      <4>2. ~HoldsLease(tx[r])
        BY <3>1, <4>1 DEF HoldsLease
      <4>. QED  BY <3>1, <4>1, <4>2 DEF Guarded, HoldsLease
    <3>. QED  BY <3>2, <3>3, <3>4
  <2>. QED  BY <2>1, <2>2
<1>. QED  BY <1>2, <1>3, <1>4 DEF LockInv, OnCourse

LEMMA ExpireKept ==
    ASSUME LockInv, Expire
    PROVE  LockInv'
<1>1. /\ lease # NoLease /\ lease' = [lease EXCEPT !.live = FALSE]
      /\ UNCHANGED <<task, grants, receipts, tx>> /\ lease \in Leases
  BY DEF Expire, LockInv, Shape
<1>2. lease' \in Leases /\ lease'.id = lease.id /\ lease' # NoLease
  BY <1>1, Markers DEF Leases
<1>. QED
  BY <1>1, <1>2 DEF LockInv, Shape, Exclusive, OnCourse, Guarded, HoldsLease, UnderLease

LEMMA WorkKept ==
    ASSUME LockInv, NEW s \in Sessions, Work(s)
    PROVE  LockInv'
BY ValidateKept, ReadKept, LockLeaseKept, RecheckKept, SelectKept, InsertKept, ScanKept,
   RequeueReadKept, WriteKept, DeleteKept, CommitKept DEF Work

LEMMA LockStep == LockInv /\ [Next]_vars => LockInv'
<1>1. ASSUME LockInv, Next
      PROVE  LockInv'
  <2>1. Operations \subseteq AllOperations
    BY TxAssumption
  <2>. QED
    BY <1>1, <2>1, BeginKept, WorkKept, RolledBack, ExpireKept DEF Next, Victim, CutOff
<1>2. ASSUME LockInv, UNCHANGED vars
      PROVE  LockInv'
  BY <1>2 DEF vars, LockInv, Shape, Exclusive, OnCourse, Guarded, HoldsLease, UnderLease
<1>. QED  BY <1>1, <1>2

LEMMA LockCorrect == Spec => []LockInv
<1>. QED  BY LockInit, LockStep, PTL DEF Spec

\* Whatever the handlers and however many sessions: once complete or fail has its
\* lease locked, that lease stands until its transaction ends.
THEOREM LockedLeaseCorrect == Spec => []LockedLeaseStands
<1>1. ASSUME LockInv, NEW s \in Sessions, tx[s].op \in {"complete", "fail"},
             tx[s].pc \in {"recheck", "write", "commit"}
      PROVE  Exists(tx[s].grant)
  BY <1>1 DEF LockInv, Guarded, UnderLease, HoldsLease, Exists
<1>2. LockInv => LockedLeaseStands
  BY <1>1 DEF LockedLeaseStands
<1>. QED  BY <1>2, LockCorrect, PTL
----------------------------------------------------------------------------
(* Writes under a lease *)

\* Sessions run the handlers they are given.
Assigned == \A s \in Sessions : tx[s].op \in Operations \cup {"none"}

LEMMA StaysAssigned ==
    ASSUME LockInv, NEW s \in Sessions, Work(s)
    PROVE  /\ \A r \in Sessions \ {s} : tx'[r] = tx[r]
           /\ tx'[s].op = tx[s].op \/ tx'[s] = Idle
<1>1. tx \in [Sessions -> Txs] /\ tx[s] \in Txs
  BY DEF LockInv, Shape
<1>2. ASSUME NEW t, Become(s, t), t.op = tx[s].op \/ t = Idle
      PROVE  /\ \A r \in Sessions \ {s} : tx'[r] = tx[r]
             /\ tx'[s].op = tx[s].op \/ tx'[s] = Idle
  BY <1>1, <1>2 DEF Become
<1>3. ASSUME Rollback(s)
      PROVE  /\ \A r \in Sessions \ {s} : tx'[r] = tx[r]
             /\ tx'[s] = Idle
  BY <1>1, <1>3 DEF Rollback, Become
<1>4. ASSUME NEW key, NEW seen, Block(s, key, seen)
      PROVE  /\ \A r \in Sessions \ {s} : tx'[r] = tx[r]
             /\ tx'[s].op = tx[s].op
  BY <1>1, <1>4 DEF Block, Become, Txs
<1>5. ASSUME NEW key, NEW pc
      PROVE  Having(s, key, pc).op = tx[s].op
  BY <1>1 DEF Having, Txs
<1>6. CASE Validate(s) \/ Read(s) \/ Recheck(s)
  BY <1>1, <1>6 DEF Validate, Read, Recheck, Goto, Rollback, Become, Txs
<1>7. CASE LockLease(s)
  <2>1. ASSUME NEW l, NEW key
        PROVE  [Having(s, key, "commit") EXCEPT !.lrow = l].op = tx[s].op
    BY <1>1 DEF Having, Txs
  <2>. QED  BY <1>2, <1>3, <1>4, <1>5, <1>7, <2>1 DEF LockLease
<1>8. CASE Scan(s) \/ RequeueRead(s)
  BY <1>1, <1>8 DEF Scan, RequeueRead, Rollback, Become, Txs
<1>9. CASE Select(s)
  BY <1>2, <1>3, <1>5, <1>9 DEF Select
<1>10. CASE Insert(s)
  <2>1. CASE Grant(s)
    BY <1>1, <2>1 DEF Grant, Txs
  <2>. QED  BY <1>3, <1>4, <1>10, <2>1 DEF Insert
<1>11. CASE Write(s)
  <2>1. Written(s).op = tx[s].op
    BY <1>11, WrittenIs DEF Write
  <2>. QED  BY <1>2, <1>4, <1>11, <2>1 DEF Write
<1>12. CASE Delete(s)
  <2>1. ASSUME NEW key, NEW pc
        PROVE  [Having(s, key, pc) EXCEPT !.lrow = NoLease].op = tx[s].op
    BY <1>1 DEF Having, Txs
  <2>2. ASSUME NEW pc
        PROVE  [tx[s] EXCEPT !.pc = pc, !.waits = NoKey].op = tx[s].op
    BY <1>1 DEF Txs
  <2>. QED  BY <1>2, <1>4, <1>12, <2>1, <2>2 DEF Delete
<1>13. CASE Commit(s)
  BY <1>1, <1>13 DEF Commit
<1>. QED
  BY <1>6, <1>7, <1>8, <1>9, <1>10, <1>11, <1>12, <1>13 DEF Work

LEMMA AssignedStep == LockInv /\ Assigned /\ [Next]_vars => Assigned'
<1> SUFFICES ASSUME LockInv, Assigned, [Next]_vars
             PROVE  Assigned'
  OBVIOUS
<1>1. tx \in [Sessions -> Txs]
  BY DEF LockInv, Shape
<1>2. ASSUME NEW s \in Sessions, NEW op \in Operations, Begin(s, op)
      PROVE  Assigned'
  <2>1. ASSUME NEW t, Become(s, t), t.op = op
        PROVE  Assigned'
    BY <1>1, <2>1 DEF Become, Assigned
  <2>2. ASSUME NEW pc, NEW g
        PROVE  /\ [Idle EXCEPT !.op = op, !.pc = pc].op = op
               /\ [Idle EXCEPT !.op = op, !.pc = pc, !.grant = g].op = op
    BY DEF Idle
  <2>. QED  BY <1>2, <2>1, <2>2 DEF Begin
<1>3. ASSUME NEW s \in Sessions, Work(s)
      PROVE  Assigned'
  BY <1>3, StaysAssigned DEF Assigned, Idle
<1>4. ASSUME NEW s \in Sessions, Rollback(s)
      PROVE  Assigned'
  BY <1>1, <1>4 DEF Rollback, Become, Assigned, Idle
<1>5. CASE Expire \/ UNCHANGED vars
  BY <1>5 DEF Expire, vars, Assigned
<1>. QED  BY <1>2, <1>3, <1>4, <1>5 DEF Next, Victim, CutOff

LEMMA AssignedCorrect == Spec => []Assigned
<1>1. Init => Assigned
  BY DEF Init, Assigned, Idle
<1>. QED  BY <1>1, AssignedStep, LockCorrect, PTL DEF Spec

\* Only a commit changes a committed row of tasks.
LEMMA OnlyCommits ==
    ASSUME LockInv, [Next]_vars, task' # task
    PROVE  \E s \in Sessions : Commit(s)
<1>1. ASSUME NEW s \in Sessions, Work(s)
      PROVE  Commit(s)
  BY <1>1 DEF Work, Validate, Read, LockLease, Recheck, Select, Insert, Grant, Scan,
              RequeueRead, Write, Delete, Goto, Block, Rollback, Become
<1>. QED
  BY <1>1 DEF Next, Begin, Victim, CutOff, Expire, Rollback, Become, vars

\* "Mutations require matching lease_id", for complete and fail, whatever the other
\* sessions do: report_progress is the one handler that writes without its lease.
THEOREM WritesCorrect ==
    ASSUME "progress" \notin Operations
    PROVE  Spec => WorkerWritesUnderItsLease
<1>1. ASSUME LockInv, Assigned, [Next]_vars, NEW s \in Sessions,
             tx[s].op \in {"complete", "fail", "progress"}, tx'[s] = Idle, task' # task
      PROVE  Exists(tx[s].grant)
  <2>1. PICK r \in Sessions : Commit(r)
    BY <1>1, OnlyCommits
  <2>2. r = s
    <3>1. tx'[s] # tx[s]
      BY <1>1 DEF Idle
    <3>. QED  BY <1>1, <2>1, <3>1 DEF Commit, LockInv, Shape
  <2>3. tx[s].op \in {"complete", "fail"} /\ tx[s].pc = "commit"
    BY <1>1, <2>1, <2>2 DEF Assigned, Commit
  <2>. QED  BY <1>1, <2>3 DEF LockInv, Guarded, UnderLease, HoldsLease, Exists
<1>2. LockInv /\ Assigned /\ [Next]_vars =>
          [\A s \in Sessions :
              tx[s].op \in {"complete", "fail", "progress"} /\ tx'[s] = Idle /\ task' # task
                  => Exists(tx[s].grant)]_vars
  BY <1>1
<1>. QED
  BY <1>2, LockCorrect, AssignedCorrect, PTL DEF Spec, WorkerWritesUnderItsLease
----------------------------------------------------------------------------
(* The handlers that act on the row they have locked                        *)
(*                                                                          *)
(* What complete, fail and renew_lease write depends on the lease row they  *)
(* have locked, what lease_next writes on the task row.  Among themselves   *)
(* they keep the three committed records in step.                           *)

Locking == {"complete", "fail", "claim", "renew"}

Report(t) ==
    \/ t.row.status = "succeeded" /\ t.out = {[type |-> "completed", grant |-> t.grant]}
    \/ t.row.status = "failed" /\ t.out = {[type |-> "failed", grant |-> t.grant]}
    \/ t.row.status = "queued" /\ t.out = {[type |-> "retry_scheduled", grant |-> t.grant]}

Pending(t) ==
    /\ t.op = "claim" => /\ t.row # Keep /\ t.row.status = "leased"
                         /\ t.lrow \in Leases /\ t.out = {}
    /\ t.op = "renew" => t.row = Keep /\ t.lrow \in Leases /\ t.out = {}
    /\ t.op \in {"complete", "fail"} =>
           t.lrow = NoLease /\ TaskKey \in t.held /\ t.row # Keep /\ Report(t)

OwnRow(t) ==
    /\ IF t.pc = "commit" THEN Pending(t) ELSE t.row = Keep /\ t.lrow = Keep /\ t.out = {}
    /\ t.op = "claim" /\ t.pc \in {"insert", "commit"} => task.status = "queued"

RowInv ==
    /\ \A s \in Sessions : OwnRow(tx[s])
    /\ LeaseMatchesStatus
    /\ ReceiptsMatchStatus

LEMMA RowInit == Init => RowInv
BY DEF Init, RowInv, OwnRow, Idle, LeaseMatchesStatus, ReceiptsMatchStatus, Has, Active, Terminal

LEMMA RowBecomes ==
    ASSUME LockInv, RowInv, NEW s \in Sessions, NEW t, Become(s, t), OwnRow(t)
    PROVE  RowInv'
<1>1. tx' = [tx EXCEPT ![s] = t] /\ UNCHANGED <<task, lease, grants, receipts>>
  BY DEF Become
<1>2. ASSUME NEW r \in Sessions
      PROVE  OwnRow(tx[r])'
  BY <1>1 DEF LockInv, Shape, RowInv, OwnRow, Pending, Report
<1>. QED  BY <1>1, <1>2 DEF RowInv, LeaseMatchesStatus, ReceiptsMatchStatus, Has

\* The transaction record of a statement that writes nothing.
LEMMA NothingWritten ==
    ASSUME LockInv, RowInv, NEW s \in Sessions, NEW t, Become(s, t),
           tx[s].pc # "commit", t.pc \notin {"insert", "commit"} \/ t = Idle,
           t = Idle \/ (t.row = tx[s].row /\ t.lrow = tx[s].lrow /\ t.out = tx[s].out)
    PROVE  RowInv'
<1>1. OwnRow(t)
  <2>1. OwnRow(Idle)
    BY DEF OwnRow, Idle
  <2>2. OwnRow(tx[s])
    BY DEF RowInv
  <2>. QED  BY <2>1, <2>2 DEF OwnRow
<1>. QED  BY <1>1, RowBecomes

LEMMA RowRollback ==
    ASSUME LockInv, RowInv, NEW s \in Sessions, Rollback(s)
    PROVE  RowInv'
<1>1. OwnRow(Idle)
  BY DEF OwnRow, Idle
<1>. QED  BY <1>1, RowBecomes DEF Rollback

LEMMA RowBlock ==
    ASSUME LockInv, RowInv, NEW s \in Sessions, NEW key, NEW seen, Block(s, key, seen),
           tx[s].pc # "commit"
    PROVE  RowInv'
<1> DEFINE t == [tx[s] EXCEPT !.waits = key]
<1>1. /\ t.pc = tx[s].pc /\ t.op = tx[s].op /\ t.row = tx[s].row /\ t.lrow = tx[s].lrow
      /\ t.out = tx[s].out /\ Become(s, t)
  BY Statement DEF Txs, Block
<1>. HIDE DEF t
<1>2. OwnRow(tx[s])
  BY DEF RowInv
<1>3. OwnRow(t)
  BY <1>1, <1>2 DEF OwnRow
<1>. QED  BY <1>1, <1>3, RowBecomes

LEMMA RowBegin ==
    ASSUME LockInv, RowInv, NEW s \in Sessions, NEW op, Begin(s, op)
    PROVE  RowInv'
<1>1. ASSUME NEW t, Become(s, t), t.row = Keep, t.lrow = Keep, t.out = {},
             t.pc \notin {"insert", "commit"}
      PROVE  RowInv'
  <2>1. OwnRow(t)
    BY <1>1 DEF OwnRow
  <2>. QED  BY <1>1, <2>1, RowBecomes
<1>2. ASSUME NEW pc \in {"validate", "read", "select", "scan"}, NEW g,
             \/ Become(s, [Idle EXCEPT !.op = op, !.pc = pc])
             \/ Become(s, [Idle EXCEPT !.op = op, !.pc = pc, !.grant = g])
      PROVE  RowInv'
  <2> DEFINE t == [Idle EXCEPT !.op = op, !.pc = pc]
             u == [Idle EXCEPT !.op = op, !.pc = pc, !.grant = g]
  <2>1. t.row = Keep /\ t.lrow = Keep /\ t.out = {} /\ t.pc = pc
    BY DEF Idle
  <2>2. u.row = Keep /\ u.lrow = Keep /\ u.out = {} /\ u.pc = pc
    BY DEF Idle
  <2>. HIDE DEF t, u
  <2>3. Become(s, t) \/ Become(s, u)
    BY <1>2 DEF t, u
  <2>. QED  BY <1>1, <2>1, <2>2, <2>3
<1>. QED  BY <1>2 DEF Begin

LEMMA RowSteps ==
    ASSUME LockInv, RowInv, NEW s \in Sessions, tx[s].op \in Locking,
           Validate(s) \/ Read(s) \/ Recheck(s) \/ Scan(s) \/ RequeueRead(s)
    PROVE  RowInv'
<1>1. ASSUME tx[s].pc # "commit",
             NEW pc \in {"read", "lock", "write", "release", "requeue"}, NEW requeue, NEW attempt,
             \/ Become(s, [tx[s] EXCEPT !.pc = pc])
             \/ Become(s, [tx[s] EXCEPT !.pc = pc, !.requeue = requeue])
             \/ Become(s, [tx[s] EXCEPT !.pc = pc, !.attempt = attempt])
      PROVE  RowInv'
  <2> DEFINE t == [tx[s] EXCEPT !.pc = pc]
             u == [tx[s] EXCEPT !.pc = pc, !.requeue = requeue]
             v == [tx[s] EXCEPT !.pc = pc, !.attempt = attempt]
  <2>1. t.pc = pc /\ t.row = tx[s].row /\ t.lrow = tx[s].lrow /\ t.out = tx[s].out
    BY Statement DEF Txs
  <2>2. u.pc = pc /\ u.row = tx[s].row /\ u.lrow = tx[s].lrow /\ u.out = tx[s].out
    BY Statement DEF Txs
  <2>3. v.pc = pc /\ v.row = tx[s].row /\ v.lrow = tx[s].lrow /\ v.out = tx[s].out
    BY Statement DEF Txs
  <2>. HIDE DEF t, u, v
  <2>4. Become(s, t) \/ Become(s, u) \/ Become(s, v)
    BY <1>1 DEF t, u, v
  <2>. QED  BY <1>1, <2>1, <2>2, <2>3, <2>4, NothingWritten
<1>2. CASE Rollback(s)
  BY <1>2, RowRollback
<1>3. CASE Validate(s) /\ ~Rollback(s)
  BY <1>1, <1>3 DEF Validate, Goto
<1>4. CASE Read(s) /\ ~Rollback(s)
  BY <1>1, <1>4 DEF Read, Goto
<1>5. CASE Recheck(s) /\ ~Rollback(s)
  BY <1>1, <1>5 DEF Recheck, Goto, Locking
<1>6. ~Scan(s) /\ ~RequeueRead(s)
  BY DEF Scan, RequeueRead, At, Locking
<1>. QED  BY <1>2, <1>3, <1>4, <1>5, <1>6

LEMMA RowLockLease ==
    ASSUME LockInv, RowInv, NEW s \in Sessions, LockLease(s)
    PROVE  RowInv'
<1> DEFINE g == tx[s].grant
<1>1. tx[s].pc = "lock" /\ g \in Nat \ {TaskKey} /\ OwnRow(tx[s])
  BY Statement DEF LockLease, OnCourse, Txs, RowInv
<1>2. /\ Having(s, g, "recheck").pc = "recheck"
      /\ Having(s, g, "recheck").row = tx[s].row
      /\ Having(s, g, "recheck").lrow = tx[s].lrow
      /\ Having(s, g, "recheck").out = tx[s].out
  BY Statement DEF Having, Txs
<1>3. ASSUME tx[s].op = "renew",
             Become(s, [Having(s, g, "commit") EXCEPT !.lrow = [id |-> g, live |-> TRUE]])
      PROVE  RowInv'
  <2> DEFINE t == [Having(s, g, "commit") EXCEPT !.lrow = [id |-> g, live |-> TRUE]]
  <2>1. /\ t.op = "renew" /\ t.pc = "commit" /\ t.row = tx[s].row /\ t.out = tx[s].out
        /\ t.lrow = [id |-> g, live |-> TRUE]
    BY <1>3, Statement DEF Having, Txs
  <2>2. [id |-> g, live |-> TRUE] \in Leases
    BY <1>1 DEF Leases
  <2>. HIDE DEF t
  <2>3. OwnRow(t)
    BY <1>1, <2>1, <2>2 DEF OwnRow, Pending
  <2>. QED  BY <1>3, <2>3, RowBecomes DEF t
<1>4. CASE Become(s, Having(s, g, "recheck"))
  BY <1>1, <1>2, <1>4, NothingWritten
<1>5. CASE Rollback(s)
  BY <1>5, RowRollback
<1>6. CASE Block(s, g, Sought(s))
  BY <1>1, <1>6, RowBlock
<1>. QED  BY <1>3, <1>4, <1>5, <1>6 DEF LockLease

LEMMA RowClaim ==
    ASSUME LockInv, RowInv, NEW s \in Sessions, Select(s) \/ Insert(s)
    PROVE  RowInv'
<1>1. tx[s].op = "claim" /\ tx[s].pc \in {"select", "insert"} /\ OwnRow(tx[s])
  BY DEF Select, Insert, At, RowInv
<1>2. CASE Rollback(s)
  BY <1>2, RowRollback
<1>3. CASE Block(s, lease.id, TRUE)
  BY <1>1, <1>3, RowBlock
<1>4. CASE task.status = "queued" /\ Become(s, Having(s, TaskKey, "insert"))
  <2> DEFINE t == Having(s, TaskKey, "insert")
  <2>1. t.pc = "insert" /\ t.row = tx[s].row /\ t.lrow = tx[s].lrow /\ t.out = tx[s].out
    BY Statement DEF Having, Txs
  <2>. HIDE DEF t
  <2>2. OwnRow(t)
    BY <1>1, <1>4, <2>1 DEF OwnRow
  <2>. QED  BY <1>4, <2>2, RowBecomes DEF t
<1>5. CASE tx[s].pc = "insert" /\ Grant(s)
  <2> DEFINE new == [id |-> grants + 1, live |-> TRUE]
             leased == [task EXCEPT !.status = "leased"]
             t == [tx[s] EXCEPT !.pc = "commit", !.waits = NoKey, !.row = leased, !.lrow = new]
  <2>1. new \in Leases /\ leased \in Tasks /\ leased.status = "leased" /\ leased # Keep
    <3>1. new \in Leases
      BY DEF LockInv, Shape, Leases, TaskKey
    <3>2. leased \in Tasks /\ leased.status = "leased"
      BY DEF LockInv, Shape, Tasks, Statuses, Active
    <3>. QED  BY <3>1, <3>2, Markers
  <2>. HIDE DEF new, leased
  <2>2. /\ t.op = "claim" /\ t.pc = "commit" /\ t.row = leased /\ t.lrow = new
        /\ t.out = tx[s].out
    BY <1>1, Statement DEF Txs
  <2>3. tx' = [tx EXCEPT ![s] = t] /\ UNCHANGED <<task, lease, receipts>>
    BY <1>5 DEF Grant, new, leased
  <2>. HIDE DEF t
  <2>4. OwnRow(t)
    BY <1>1, <1>5, <2>1, <2>2 DEF OwnRow, Pending
  <2>5. ASSUME NEW r \in Sessions
        PROVE  OwnRow(tx[r])'
    BY <2>3, <2>4 DEF LockInv, Shape, RowInv, OwnRow, Pending, Report
  <2>. QED  BY <2>3, <2>5 DEF RowInv, LeaseMatchesStatus, ReceiptsMatchStatus, Has
<1>. QED  BY <1>2, <1>3, <1>4, <1>5 DEF Select, Insert, At

LEMMA RowWrite ==
    ASSUME LockInv, RowInv, NEW s \in Sessions, tx[s].op \in Locking, Write(s)
    PROVE  RowInv'
<1>1. /\ tx[s].pc = "write" /\ tx[s].op \in {"complete", "fail"}
      /\ OwnRow(tx[s]) /\ Exists(tx[s].grant)
  <2>1. tx[s].pc = "write" /\ tx[s].op \in {"complete", "fail"}
    BY Statement DEF Write, OnCourse, Locking
  <2>. QED
    BY <2>1, Statement DEF RowInv, Guarded, UnderLease, HoldsLease, Exists
<1>2. CASE Become(s, Written(s))
  <2> DEFINE t == Written(s)
  <2>1. /\ t \in Txs /\ t.op = tx[s].op /\ t.pc = "commit" /\ t.grant = tx[s].grant
        /\ TaskKey \in t.held /\ t.row = NewRow(s) /\ t.lrow = NoLease /\ t.out = Proof(s)
    BY <1>1, WrittenIs
  <2>2. /\ tx[s].op = "complete" => NewRow(s) = [task EXCEPT !.status = "succeeded"]
        /\ tx[s].op = "fail" => NewRow(s) = IF tx[s].requeue THEN Requeued(s)
                                            ELSE [task EXCEPT !.status = "failed"]
    BY DEF NewRow
  <2>3. task \in Tasks
    BY DEF LockInv, Shape
  <2>4. /\ tx[s].op = "complete" => NewRow(s).status = "succeeded"
        /\ tx[s].op = "fail" => NewRow(s).status = IF tx[s].requeue THEN "queued" ELSE "failed"
        /\ NewRow(s) \in Tasks
    <3>1. NewRow(s) \in Tasks
      <4>1. [task EXCEPT !.status = "succeeded"] \in Tasks
            /\ [task EXCEPT !.status = "failed"] \in Tasks
        BY <2>3 DEF Tasks, Statuses, Terminal
      <4>2. Requeued(s) \in Tasks
        BY Statement DEF Requeued, Tasks, Statuses, Txs
      <4>. QED  BY <1>1, <2>2, <4>1, <4>2
    <3>. QED  BY <1>1, <2>2, <2>3, <3>1 DEF Requeued, Tasks
  <2>5. NewRow(s) # Keep
    BY <2>4, Markers
  <2>6. Proof(s) = {[type |-> IF tx[s].op = "complete" THEN "completed"
                              ELSE IF tx[s].requeue THEN "retry_scheduled" ELSE "failed",
                     grant |-> tx[s].grant]}
    BY <1>1 DEF Proof
  <2>7. Report(t)
    BY <1>1, <2>1, <2>4, <2>6 DEF Report
  <2>. HIDE DEF t
  <2>8. OwnRow(t)
    BY <1>1, <2>1, <2>5, <2>7 DEF OwnRow, Pending
  <2>. QED  BY <1>2, <2>8, RowBecomes DEF t
<1>3. CASE Block(s, TaskKey, TRUE)
  BY <1>1, <1>3, RowBlock
<1>. QED  BY <1>2, <1>3 DEF Write
LEMMA RowCommit ==
    ASSUME LockInv, RowInv, NEW s \in Sessions, tx[s].op \in Locking, Commit(s)
    PROVE  RowInv' /\ (task.status \in Terminal => task' = task)
<1>1. /\ tx[s].pc = "commit" /\ tx[s] \in Txs /\ Guarded(tx[s]) /\ Pending(tx[s])
      /\ tx' = [tx EXCEPT ![s] = Idle]
      /\ task' = IF tx[s].row = Keep THEN task ELSE tx[s].row
      /\ lease' = IF tx[s].lrow = Keep THEN lease ELSE tx[s].lrow
      /\ receipts' = receipts \cup tx[s].out
      /\ OwnRow(tx[s]) /\ Exclusive /\ tx \in [Sessions -> Txs]
  BY Statement DEF Commit, RowInv, OwnRow, LockInv, Shape
<1>2. tx'[s] = Idle /\ \A r \in Sessions \ {s} : tx'[r] = tx[r]
  BY <1>1
<1>3. tx[s].row # Keep => TaskKey \in tx[s].held
  BY <1>1 DEF Pending, Guarded, Locking
<1>4. ASSUME NEW r \in Sessions
      PROVE  OwnRow(tx[r])'
  <2>1. CASE r = s
    BY <1>2, <2>1 DEF OwnRow, Idle
  <2>2. CASE r # s /\ tx[s].row = Keep
    BY <1>1, <1>2, <2>2 DEF RowInv, OwnRow, Pending, Report
  <2>3. CASE r # s /\ tx[s].row # Keep
    <3>1. TaskKey \notin tx[r].held
      BY <1>1, <1>3, <2>3 DEF Exclusive
    <3>2. Guarded(tx[r]) /\ OwnRow(tx[r])
      BY Statement DEF RowInv
    <3>3. ~(tx[r].op = "claim" /\ tx[r].pc \in {"insert", "commit"})
      BY <3>1, <3>2 DEF Guarded
    <3>. QED  BY <1>2, <2>3, <3>2, <3>3 DEF OwnRow, Pending, Report
  <2>. QED  BY <2>1, <2>2, <2>3
<1>5. ASSUME LeaseMatchesStatus', ReceiptsMatchStatus'
      PROVE  RowInv'
  BY <1>4, <1>5 DEF RowInv
<1>6. CASE tx[s].op = "claim"
  <2>1. /\ task.status = "queued" /\ task'.status = "leased" /\ lease' \in Leases
        /\ receipts' = receipts
    BY <1>1, <1>6, Markers DEF OwnRow, Pending
  <2>2. lease' # NoLease
    BY <2>1, Markers
  <2>3. LeaseMatchesStatus' /\ ReceiptsMatchStatus'
    BY <2>1, <2>2 DEF RowInv, LeaseMatchesStatus, ReceiptsMatchStatus, Has, Active
  <2>. QED  BY <1>5, <2>1, <2>3 DEF Terminal
<1>7. CASE tx[s].op = "renew"
  <2>1. task' = task /\ lease' \in Leases /\ receipts' = receipts /\ lease # NoLease
    BY <1>1, <1>7, Markers DEF Pending, Guarded, UnderLease, HoldsLease
  <2>2. LeaseMatchesStatus' /\ ReceiptsMatchStatus'
    BY <2>1, Markers DEF RowInv, LeaseMatchesStatus, ReceiptsMatchStatus, Has
  <2>. QED  BY <1>5, <2>1, <2>2
<1>8. CASE tx[s].op \in {"complete", "fail"}
  <2>1. lease # NoLease
    BY <1>1, <1>8 DEF Guarded, UnderLease, HoldsLease
  <2>2. task.status \in Active
    BY <2>1 DEF RowInv, LeaseMatchesStatus
  <2>3. lease' = NoLease /\ task' = tx[s].row /\ Report(tx[s])
    BY <1>1, <1>8, Markers DEF Pending
  <2>4. task'.status \in {"succeeded", "failed", "queued"}
    BY <2>3 DEF Report
  <2>5. LeaseMatchesStatus'
    BY <2>3, <2>4 DEF LeaseMatchesStatus, Active
  <2>6. ~Has("completed") /\ ~Has("failed") /\ ~Has("canceled")
    BY <2>2 DEF RowInv, ReceiptsMatchStatus, Active
  <2>7. ASSUME NEW type, NEW new, tx[s].out = {[type |-> new, grant |-> tx[s].grant]}
        PROVE  Has(type)' <=> (Has(type) \/ type = new)
    <3> DEFINE e == [type |-> new, grant |-> tx[s].grant]
    <3>1. e.type = new /\ receipts' = receipts \cup {e}
      BY <1>1, <2>7
    <3>. HIDE DEF e
    <3>. QED  BY <3>1 DEF Has
  <2>8. ReceiptsMatchStatus'
    BY <2>3, <2>6, <2>7 DEF ReceiptsMatchStatus, Report
  <2>. QED  BY <1>5, <2>2, <2>5, <2>8 DEF Active, Terminal
<1>. QED  BY <1>6, <1>7, <1>8 DEF Locking

LEMMA RowWork ==
    ASSUME LockInv, RowInv, NEW s \in Sessions, tx[s].op \in Locking, Work(s)
    PROVE  RowInv'
<1>1. ~Delete(s)
  BY Statement DEF Delete, OnCourse, Locking
<1>. QED
  BY <1>1, RowSteps, RowLockLease, RowClaim, RowWrite, RowCommit DEF Work

\* A session that works runs one of these handlers, if they are all there are.
LEMMA WorkingSession ==
    ASSUME Operations \subseteq Locking, LockInv, Assigned, NEW s \in Sessions, Work(s)
    PROVE  tx[s].op \in Locking
<1>1. ASSUME tx[s].op = "none"
      PROVE  FALSE
  <2>1. tx[s].pc = "idle"
    BY <1>1, Statement DEF OnCourse, Txs, Steps
  <2>. QED
    BY <2>1 DEF Work, Validate, Read, LockLease, Recheck, Select, Insert, Scan,
                RequeueRead, Write, Delete, Commit, At
<1>. QED  BY <1>1 DEF Assigned

LEMMA RowStep ==
    ASSUME Operations \subseteq Locking, LockInv, Assigned, RowInv, [Next]_vars
    PROVE  RowInv'
<1>1. ASSUME NEW s \in Sessions, Work(s)
      PROVE  RowInv'
  <2>1. tx[s].op \in Locking
    BY <1>1, WorkingSession
  <2>. QED  BY <1>1, <2>1, RowWork
<1>2. CASE Expire
  <2>1. /\ lease # NoLease /\ lease' = [lease EXCEPT !.live = FALSE] /\ lease \in Leases
        /\ UNCHANGED <<task, receipts, tx>>
    BY <1>2 DEF Expire, LockInv, Shape
  <2>2. lease' # NoLease
    BY <2>1, Markers DEF Leases
  <2>. QED
    BY <2>1, <2>2 DEF RowInv, OwnRow, Pending, Report, LeaseMatchesStatus,
                      ReceiptsMatchStatus, Has
<1>3. CASE UNCHANGED vars
  BY <1>3 DEF vars, RowInv, OwnRow, Pending, Report, LeaseMatchesStatus,
              ReceiptsMatchStatus, Has
<1>. QED  BY <1>1, <1>2, <1>3, RowBegin, RowRollback DEF Next, Victim, CutOff

LEMMA RowCorrect ==
    ASSUME Operations \subseteq Locking
    PROVE  Spec => []RowInv
<1>1. LockInv /\ Assigned /\ RowInv /\ [Next]_vars => RowInv'
  BY RowStep
<1>. QED  BY <1>1, RowInit, LockCorrect, AssignedCorrect, PTL DEF Spec

\* With complete, fail, lease_next and renew_lease alone, in any number of concurrent
\* transactions: a committed lease row exists exactly while the task is leased.
THEOREM LeaseCorrect ==
    ASSUME Operations \subseteq {"complete", "fail", "claim", "renew"}
    PROVE  Spec => []LeaseMatchesStatus
<1>1. RowInv => LeaseMatchesStatus
  BY DEF RowInv
<1>. QED  BY <1>1, RowCorrect, PTL DEF Locking

\* Likewise no two receipts contradict each other, and none the task.
THEOREM ReceiptsCorrect ==
    ASSUME Operations \subseteq {"complete", "fail", "claim", "renew"}
    PROVE  Spec => []ReceiptsMatchStatus
<1>1. RowInv => ReceiptsMatchStatus
  BY DEF RowInv
<1>. QED  BY <1>1, RowCorrect, PTL DEF Locking

\* Likewise a terminal task is never written again, although fail does not ask for
\* the status.
THEOREM TerminalCorrect ==
    ASSUME Operations \subseteq {"complete", "fail", "claim", "renew"}
    PROVE  Spec => TerminalImmutable
<1>1. ASSUME LockInv, Assigned, RowInv, [Next]_vars, task.status \in Terminal
      PROVE  task' = task
  <2>1. ASSUME task' # task
        PROVE  FALSE
    <3>1. PICK s \in Sessions : Commit(s)
      BY <1>1, <2>1, OnlyCommits
    <3>2. tx[s].op \in Locking
      BY <1>1, <3>1, Statement DEF Commit, OnCourse, Assigned, Locking
    <3>. QED  BY <1>1, <2>1, <3>1, <3>2, RowCommit
  <2>. QED  BY <2>1
<1>2. LockInv /\ Assigned /\ RowInv /\ [Next]_vars =>
          [task.status \in Terminal => task' = task]_vars
  BY <1>1
<1>. QED
  BY <1>2, LockCorrect, AssignedCorrect, RowCorrect, PTL DEF Spec, TerminalImmutable, Locking

----------------------------------------------------------------------------
(* What a transaction is about to commit, in all handlers but the sweep     *)

\* The rows a statement without a lock leaves as they are.
Aside(t, u) ==
    /\ t.op = u.op /\ t.held = u.held /\ t.waits = u.waits
    /\ t.row = u.row /\ t.lrow = u.lrow /\ t.out = u.out

Canceled == {[type |-> "canceled", grant |-> 0]}

LEMMA UnlockedSteps ==
    ASSUME LockInv, NEW s \in Sessions,
           Validate(s) \/ Read(s) \/ Recheck(s) \/ Scan(s) \/ RequeueRead(s)
    PROVE  \/ Rollback(s)
           \/ \E t : /\ Become(s, t) /\ Aside(t, tx[s])
                     /\ t.pc \in {"read", "lock", "write", "release", "requeue"}
           \/ /\ tx[s].op = "cancel" /\ tx[s].pc = "recheck"
              /\ Become(s, [tx[s] EXCEPT !.pc = "commit", !.out = Canceled])
<1> DEFINE Goal == \E t : /\ Become(s, t) /\ Aside(t, tx[s])
                          /\ t.pc \in {"read", "lock", "write", "release", "requeue"}
<1>1. tx[s] \in Txs
  BY Statement
<1>2. ASSUME NEW pc \in {"read", "lock", "write", "release", "requeue"}, Goto(s, pc)
      PROVE  Goal
  <2> DEFINE t == [tx[s] EXCEPT !.pc = pc]
  <2>1. Aside(t, tx[s]) /\ t.pc = pc /\ Become(s, t)
    BY <1>1, <1>2 DEF Aside, Txs, Goto
  <2>. QED  BY <2>1
<1>3. ASSUME NEW b, Become(s, [tx[s] EXCEPT !.pc = "lock", !.requeue = b])
      PROVE  Goal
  <2> DEFINE t == [tx[s] EXCEPT !.pc = "lock", !.requeue = b]
  <2>1. Aside(t, tx[s]) /\ t.pc = "lock" /\ Become(s, t)
    BY <1>1, <1>3 DEF Aside, Txs
  <2>. QED  BY <2>1
<1>4. ASSUME NEW n, Become(s, [tx[s] EXCEPT !.pc = "write", !.attempt = n])
      PROVE  Goal
  <2> DEFINE t == [tx[s] EXCEPT !.pc = "write", !.attempt = n]
  <2>1. Aside(t, tx[s]) /\ t.pc = "write" /\ Become(s, t)
    BY <1>1, <1>4 DEF Aside, Txs
  <2>. QED  BY <2>1
<1>5. ASSUME NEW g, Become(s, [tx[s] EXCEPT !.pc = "read", !.grant = g])
      PROVE  Goal
  <2> DEFINE t == [tx[s] EXCEPT !.pc = "read", !.grant = g]
  <2>1. Aside(t, tx[s]) /\ t.pc = "read" /\ Become(s, t)
    BY <1>1, <1>5 DEF Aside, Txs
  <2>. QED  BY <2>1
<1> DEFINE End == /\ tx[s].op = "cancel" /\ tx[s].pc = "recheck"
                  /\ Become(s, [tx[s] EXCEPT !.pc = "commit", !.out = Canceled])
<1>. HIDE DEF Goal
<1>6. ASSUME Validate(s)
      PROVE  Rollback(s) \/ Goal
  BY <1>2, <1>6, Zenon DEF Validate
<1>7. ASSUME Read(s)
      PROVE  Rollback(s) \/ Goal
  BY <1>2, <1>3, <1>7, Zenon DEF Read
<1>8. ASSUME Recheck(s)
      PROVE  Rollback(s) \/ Goal \/ End
  BY <1>2, <1>4, <1>8, Zenon DEF Recheck, Canceled
<1>9. ASSUME Scan(s) \/ RequeueRead(s)
      PROVE  Rollback(s) \/ Goal
  BY <1>4, <1>5, <1>9, Zenon DEF Scan, RequeueRead
<1>. QED  BY <1>6, <1>7, <1>8, <1>9, Zenon DEF Goal

Effect(t) ==
    /\ t.pc = "commit" =>
          /\ Pending(t)
          /\ t.row # Keep => TaskKey \in t.held
          /\ t.op = "progress" => /\ t.row # Keep /\ t.row.status = "running"
                                 /\ t.lrow = Keep /\ t.out = {}
          /\ t.op = "cancel" => t.lrow \in {NoLease, Keep} /\ t.out = Canceled
    /\ t.pc # "commit" =>
          /\ t.row = Keep /\ t.out = {}
          /\ t.lrow = Keep \/ (t.op = "cancel" /\ t.lrow = NoLease)

EffectInv == \A s \in Sessions : Effect(tx[s])

LEMMA EffectBecomes ==
    ASSUME LockInv, EffectInv, NEW s \in Sessions, NEW t, Effect(t),
           tx' = [tx EXCEPT ![s] = t]
    PROVE  EffectInv'
<1>1. tx'[s] = t /\ \A r \in Sessions \ {s} : tx'[r] = tx[r]
  BY DEF LockInv, Shape
<1>2. \A r \in Sessions : Effect(tx'[r])
  BY <1>1 DEF EffectInv
<1>. QED  BY <1>2 DEF EffectInv, Effect, Pending, Report

LEMMA EffectIdle == Effect(Idle)
BY DEF Effect, Idle

LEMMA EffectAside ==
    ASSUME LockInv, EffectInv, NEW s \in Sessions, NEW t, Become(s, t),
           tx[s].pc # "commit", t.pc # "commit",
           t.op = tx[s].op, t.row = tx[s].row, t.lrow = tx[s].lrow, t.out = tx[s].out
    PROVE  EffectInv'
<1>1. Effect(t)
  BY DEF EffectInv, Effect
<1>. QED  BY <1>1, EffectBecomes DEF Become

LEMMA EffectRollback ==
    ASSUME LockInv, EffectInv, NEW s \in Sessions, Rollback(s)
    PROVE  EffectInv'
BY EffectIdle, EffectBecomes DEF Rollback, Become

LEMMA EffectBlock ==
    ASSUME LockInv, EffectInv, NEW s \in Sessions, NEW key, NEW seen, Block(s, key, seen),
           tx[s].pc # "commit"
    PROVE  EffectInv'
<1> DEFINE t == [tx[s] EXCEPT !.waits = key]
<1>1. /\ t.pc = tx[s].pc /\ t.op = tx[s].op /\ t.row = tx[s].row /\ t.lrow = tx[s].lrow
      /\ t.out = tx[s].out /\ Become(s, t)
  BY Statement DEF Txs, Block
<1>. HIDE DEF t
<1>. QED  BY <1>1, EffectAside

LEMMA EffectBegin ==
    ASSUME LockInv, EffectInv, NEW s \in Sessions, NEW op, Begin(s, op)
    PROVE  EffectInv'
<1>1. ASSUME NEW pc \in {"validate", "read", "select", "scan"}, NEW g,
             \/ Become(s, [Idle EXCEPT !.op = op, !.pc = pc])
             \/ Become(s, [Idle EXCEPT !.op = op, !.pc = pc, !.grant = g])
      PROVE  EffectInv'
  <2> DEFINE t == [Idle EXCEPT !.op = op, !.pc = pc]
             u == [Idle EXCEPT !.op = op, !.pc = pc, !.grant = g]
  <2>1. t.row = Keep /\ t.lrow = Keep /\ t.out = {} /\ t.pc = pc
    BY DEF Idle
  <2>2. u.row = Keep /\ u.lrow = Keep /\ u.out = {} /\ u.pc = pc
    BY DEF Idle
  <2>. HIDE DEF t, u
  <2>3. Become(s, t) \/ Become(s, u)
    BY <1>1 DEF t, u
  <2>4. Effect(t) /\ Effect(u)
    BY <2>1, <2>2 DEF Effect
  <2>. QED  BY <2>3, <2>4, EffectBecomes DEF Become
<1>. QED  BY <1>1 DEF Begin

LEMMA EffectUnlocked ==
    ASSUME LockInv, EffectInv, NEW s \in Sessions,
           Validate(s) \/ Read(s) \/ Recheck(s) \/ Scan(s) \/ RequeueRead(s)
    PROVE  EffectInv'
<1>1. tx[s].pc # "commit"
  BY DEF Validate, Read, Recheck, Scan, RequeueRead, At
<1>2. ASSUME NEW t, Become(s, t), Aside(t, tx[s]),
             t.pc \in {"read", "lock", "write", "release", "requeue"}
      PROVE  EffectInv'
  BY <1>1, <1>2, EffectAside DEF Aside
<1>3. ASSUME tx[s].op = "cancel", tx[s].pc = "recheck",
             Become(s, [tx[s] EXCEPT !.pc = "commit", !.out = Canceled])
      PROVE  EffectInv'
  <2> DEFINE t == [tx[s] EXCEPT !.pc = "commit", !.out = Canceled]
  <2>1. /\ t.op = "cancel" /\ t.pc = "commit" /\ t.row = tx[s].row /\ t.lrow = tx[s].lrow
        /\ t.out = Canceled /\ Become(s, t)
    BY <1>3, Statement DEF Txs
  <2>. HIDE DEF t
  <2>2. Effect(t)
    BY <1>3, <2>1 DEF EffectInv, Effect, Pending
  <2>. QED  BY <2>1, <2>2, EffectBecomes DEF Become
<1>. QED  BY <1>2, <1>3, EffectRollback, UnlockedSteps

LEMMA EffectLockLease ==
    ASSUME LockInv, EffectInv, NEW s \in Sessions, LockLease(s)
    PROVE  EffectInv'
<1> DEFINE g == tx[s].grant
           t == Having(s, g, "recheck")
           u == [Having(s, g, "commit") EXCEPT !.lrow = [id |-> g, live |-> TRUE]]
<1>1. tx[s] \in Txs /\ tx[s].pc = "lock" /\ OnCourse(tx[s]) /\ Effect(tx[s])
  BY Statement DEF LockLease, EffectInv
<1>2. /\ t.op = tx[s].op /\ t.pc = "recheck" /\ t.row = tx[s].row /\ t.lrow = tx[s].lrow
      /\ t.out = tx[s].out
  BY <1>1 DEF Having, Txs
<1>3. /\ u.op = tx[s].op /\ u.pc = "commit" /\ u.row = tx[s].row /\ u.out = tx[s].out
      /\ u.lrow = [id |-> g, live |-> TRUE]
  BY <1>1 DEF Having, Txs
<1>4. \/ Become(s, t)
      \/ tx[s].op = "renew" /\ Become(s, u)
      \/ Rollback(s)
      \/ Block(s, g, Sought(s))
  BY DEF LockLease
<1>5. tx[s].op = "renew" => [id |-> g, live |-> TRUE] \in Leases
  BY <1>1 DEF OnCourse, Txs, Leases
<1>. HIDE DEF t, u
<1>6. tx[s].op = "renew" => Effect(u)
  BY <1>1, <1>3, <1>5 DEF Effect, Pending
<1>7. CASE Become(s, t)
  BY <1>1, <1>2, <1>7, EffectAside
<1>8. CASE tx[s].op = "renew" /\ Become(s, u)
  BY <1>6, <1>8, EffectBecomes DEF Become
<1>9. CASE Block(s, g, Sought(s))
  BY <1>1, <1>9, EffectBlock
<1>. QED  BY <1>4, <1>7, <1>8, <1>9, EffectRollback

LEMMA EffectClaim ==
    ASSUME LockInv, EffectInv, NEW s \in Sessions, Select(s) \/ Insert(s)
    PROVE  EffectInv'
<1>1. /\ tx[s] \in Txs /\ tx[s].op = "claim" /\ tx[s].pc \in {"select", "insert"}
      /\ Effect(tx[s]) /\ Guarded(tx[s])
  BY Statement DEF Select, Insert, At, EffectInv
<1>2. CASE Become(s, Having(s, TaskKey, "insert"))
  <2> DEFINE t == Having(s, TaskKey, "insert")
  <2>1. /\ t.op = tx[s].op /\ t.pc = "insert" /\ t.row = tx[s].row /\ t.lrow = tx[s].lrow
        /\ t.out = tx[s].out
    BY <1>1 DEF Having, Txs
  <2>. HIDE DEF t
  <2>. QED  BY <1>1, <1>2, <2>1, EffectAside DEF t
<1>3. CASE Insert(s) /\ Grant(s)
  <2> DEFINE new    == [id |-> grants + 1, live |-> TRUE]
             leased == [task EXCEPT !.status = "leased"]
             t      == [tx[s] EXCEPT !.pc = "commit", !.waits = NoKey, !.row = leased,
                                     !.lrow = new]
  <2>1. new \in Leases /\ leased # Keep /\ leased.status = "leased"
    <3>1. task \in Tasks /\ grants \in Nat /\ "leased" \in Statuses
      BY DEF LockInv, Shape, Statuses, Active
    <3>2. leased \in Tasks
      BY <3>1 DEF Tasks
    <3>. QED  BY <3>1, <3>2, Markers DEF Leases, Tasks, TaskKey
  <2>. HIDE DEF new, leased
  <2>2. /\ t.op = "claim" /\ t.pc = "commit" /\ t.row = leased /\ t.lrow = new
        /\ t.held = tx[s].held /\ t.out = tx[s].out
    BY <1>1 DEF Txs
  <2>3. tx' = [tx EXCEPT ![s] = t]
    BY <1>3 DEF Grant, new, leased
  <2>. HIDE DEF t
  <2>4. TaskKey \in tx[s].held /\ tx[s].out = {}
    BY <1>1, <1>3 DEF Insert, At, Guarded, Effect
  <2>5. Effect(t)
    BY <2>1, <2>2, <2>4 DEF Effect, Pending
  <2>. QED  BY <2>3, <2>5, EffectBecomes
<1>4. CASE Block(s, lease.id, TRUE)
  BY <1>1, <1>4, EffectBlock
<1>. QED  BY <1>2, <1>3, <1>4, EffectRollback DEF Select, Insert

LEMMA EffectWrite ==
    ASSUME LockInv, EffectInv, NEW s \in Sessions, tx[s].op # "sweep", Write(s)
    PROVE  EffectInv'
<1>1. /\ tx[s] \in Txs /\ tx[s].pc = "write" /\ Effect(tx[s]) /\ Guarded(tx[s])
      /\ tx[s].op \in {"complete", "fail", "progress", "cancel"} /\ task \in Tasks
  BY Statement DEF Write, OnCourse, EffectInv, LockInv, Shape
<1>2. CASE Become(s, Written(s))
  <2> DEFINE t == Written(s)
  <2>1. /\ t \in Txs /\ t.op = tx[s].op /\ t.pc = "commit" /\ t.grant = tx[s].grant
        /\ t.held = tx[s].held \cup {TaskKey} /\ t.row = NewRow(s) /\ t.out = Proof(s)
        /\ t.lrow = IF tx[s].op \in {"complete", "fail"} /\ Exists(tx[s].grant)
                    THEN NoLease ELSE tx[s].lrow
    BY <1>1, WrittenIs
  <2>. HIDE DEF t
  <2>2. tx[s].op \in {"complete", "fail"} => Exists(tx[s].grant)
    BY <1>1 DEF Guarded, UnderLease, HoldsLease, Exists
  <2>3. CASE tx[s].op \in {"complete", "fail"}
    <3>1. /\ NewRow(s) = CASE tx[s].op = "complete" -> [task EXCEPT !.status = "succeeded"]
                           [] tx[s].op = "fail" -> IF tx[s].requeue THEN Requeued(s)
                                                   ELSE [task EXCEPT !.status = "failed"]
          /\ Proof(s) = CASE tx[s].op = "complete" -> {[type |-> "completed", grant |-> tx[s].grant]}
                          [] tx[s].op = "fail" ->
                               {[type |-> IF tx[s].requeue THEN "retry_scheduled" ELSE "failed",
                                 grant |-> tx[s].grant]}
      BY <2>3 DEF NewRow, Proof
    <3>2. /\ [task EXCEPT !.status = "succeeded"].status = "succeeded"
          /\ [task EXCEPT !.status = "failed"].status = "failed"
          /\ Requeued(s).status = "queued"
      BY <1>1 DEF Requeued, Tasks
    <3>3. NewRow(s) # Keep
      <4>1. /\ [task EXCEPT !.status = "succeeded"] \in Tasks
            /\ [task EXCEPT !.status = "failed"] \in Tasks
            /\ Requeued(s) \in Tasks
        BY <1>1 DEF Requeued, Tasks, Statuses, Terminal, Txs
      <4>. QED  BY <2>3, <3>1, <4>1, Markers
    <3>4. Report(t)
      BY <2>1, <2>3, <3>1, <3>2 DEF Report
    <3>. QED  BY <1>2, <2>1, <2>2, <2>3, <3>3, <3>4, EffectBecomes DEF Effect, Pending, Become, t
  <2>4. CASE tx[s].op = "cancel"
    <3>1. Proof(s) = Canceled
      BY <2>4 DEF Proof, Canceled
    <3>2. Effect(t)
      BY <1>1, <2>1, <2>4, <3>1 DEF Effect, Pending
    <3>. QED  BY <1>2, <3>2, EffectBecomes DEF Become, t
  <2>5. CASE tx[s].op = "progress"
    <3>1. Proof(s) = {} /\ NewRow(s) = [task EXCEPT !.status = "running"]
      BY <2>5 DEF Proof, NewRow
    <3>2. NewRow(s) \in Tasks /\ NewRow(s).status = "running"
      BY <1>1, <3>1 DEF Tasks, Statuses, Active
    <3>3. Effect(t)
      BY <1>1, <2>1, <2>5, <3>1, <3>2, Markers DEF Effect, Pending
    <3>. QED  BY <1>2, <3>3, EffectBecomes DEF Become, t
  <2>. QED  BY <1>1, <2>3, <2>4, <2>5
<1>3. CASE Block(s, TaskKey, TRUE)
  BY <1>1, <1>3, EffectBlock
<1>. QED  BY <1>2, <1>3 DEF Write

\* The record of a DELETE that finds its row, and of one that finds none.
LEMMA DeleteIs ==
    ASSUME LockInv, NEW s \in Sessions, Delete(s)
    PROVE  LET next == IF tx[s].op = "sweep" THEN "commit" ELSE "recheck" IN
           /\ Doomed(s) \in Nat
           /\ \/ /\ Exists(Doomed(s))
                 /\ \E t : /\ Become(s, t)
                           /\ t.op = tx[s].op /\ t.pc = next /\ t.grant = tx[s].grant
                           /\ t.held = tx[s].held \cup {Doomed(s)} /\ t.waits = NoKey
                           /\ t.row = tx[s].row /\ t.lrow = NoLease /\ t.out = tx[s].out
              \/ \E t : /\ Become(s, t)
                        /\ t.op = tx[s].op /\ t.pc = next /\ t.grant = tx[s].grant
                        /\ t.held = tx[s].held /\ t.waits = NoKey
                        /\ t.row = tx[s].row /\ t.lrow = tx[s].lrow /\ t.out = tx[s].out
              \/ Block(s, Doomed(s), Exists(Doomed(s)))
<1> DEFINE next == IF tx[s].op = "sweep" THEN "commit" ELSE "recheck"
           t    == [Having(s, Doomed(s), next) EXCEPT !.lrow = NoLease]
           u    == [tx[s] EXCEPT !.pc = next, !.waits = NoKey]
<1>1. tx[s] \in Txs
  BY Statement
<1>2. Doomed(s) \in Nat
  BY <1>1, Markers DEF Doomed, Txs, LockInv, Shape, Leases
<1>3. /\ t.op = tx[s].op /\ t.pc = next /\ t.grant = tx[s].grant
      /\ t.held = tx[s].held \cup {Doomed(s)} /\ t.waits = NoKey
      /\ t.row = tx[s].row /\ t.lrow = NoLease /\ t.out = tx[s].out
  BY <1>1 DEF Having, Txs
<1>4. /\ u.op = tx[s].op /\ u.pc = next /\ u.grant = tx[s].grant
      /\ u.held = tx[s].held /\ u.waits = NoKey
      /\ u.row = tx[s].row /\ u.lrow = tx[s].lrow /\ u.out = tx[s].out
  BY <1>1 DEF Txs
<1>5. \/ Exists(Doomed(s)) /\ Become(s, t)
      \/ Become(s, u)
      \/ Block(s, Doomed(s), Exists(Doomed(s)))
  BY DEF Delete, Hit
<1>. HIDE DEF t, u, next
<1>. QED  BY <1>2, <1>3, <1>4, <1>5 DEF next

LEMMA EffectDelete ==
    ASSUME LockInv, EffectInv, NEW s \in Sessions, tx[s].op # "sweep", Delete(s)
    PROVE  EffectInv'
<1>1. /\ tx[s].op = "cancel" /\ tx[s].pc = "release" /\ Effect(tx[s])
  BY Statement DEF Delete, OnCourse, EffectInv
<1>2. ASSUME NEW t, Become(s, t), t.op = tx[s].op, t.pc = "recheck",
             t.row = tx[s].row, t.out = tx[s].out, t.lrow = NoLease \/ t.lrow = tx[s].lrow
      PROVE  EffectInv'
  <2>1. Effect(t)
    BY <1>1, <1>2 DEF Effect
  <2>. QED  BY <1>2, <2>1, EffectBecomes DEF Become
<1>3. CASE Block(s, Doomed(s), Exists(Doomed(s)))
  BY <1>1, <1>3, EffectBlock
<1>. QED  BY <1>1, <1>2, <1>3, DeleteIs

\* Who runs the sweep is nobody.
LEMMA NoSweep ==
    ASSUME "sweep" \notin Operations, Assigned, NEW s \in Sessions
    PROVE  tx[s].op # "sweep"
BY DEF Assigned

LEMMA EffectStep ==
    ASSUME "sweep" \notin Operations, LockInv, Assigned, EffectInv, [Next]_vars
    PROVE  EffectInv'
<1>1. ASSUME NEW s \in Sessions, Work(s)
      PROVE  EffectInv'
  <2>1. CASE Commit(s)
    BY <2>1, EffectIdle, EffectBecomes DEF Commit
  <2>. QED
    BY <1>1, <2>1, NoSweep, EffectUnlocked, EffectLockLease, EffectClaim, EffectWrite,
       EffectDelete DEF Work
<1>2. CASE Expire \/ UNCHANGED vars
  BY <1>2 DEF Expire, vars, EffectInv, Effect, Pending, Report
<1>. QED  BY <1>1, <1>2, EffectBegin, EffectRollback DEF Next, Victim, CutOff

LEMMA EffectInit == Init => EffectInv
BY EffectIdle DEF Init, EffectInv

----------------------------------------------------------------------------
(* A committed lease, and the status of its task                            *)
(*                                                                          *)
(* With report_progress beside them, complete and fail leave a running task *)
(* without a lease.  The other direction survives: only they make a task    *)
(* inactive, and they delete its lease in the same transaction.             *)

LeaseIsActive == lease # NoLease => task.status \in Active

LEMMA ActiveCommit ==
    ASSUME LockInv, EffectInv, LeaseIsActive, NEW s \in Sessions,
           tx[s].op \notin {"cancel", "sweep"}, Commit(s)
    PROVE  LeaseIsActive'
<1>1. /\ tx[s].pc = "commit" /\ Effect(tx[s]) /\ Guarded(tx[s])
      /\ tx[s].op \in {"complete", "fail", "claim", "renew", "progress"}
      /\ task' = (IF tx[s].row = Keep THEN task ELSE tx[s].row)
      /\ lease' = (IF tx[s].lrow = Keep THEN lease ELSE tx[s].lrow)
  BY Statement DEF Commit, EffectInv, OnCourse, Txs, AllOperations
<1>2. CASE tx[s].op \in {"complete", "fail"}
  BY <1>1, <1>2, Markers DEF Effect, Pending, LeaseIsActive
<1>3. CASE tx[s].op \in {"claim", "progress"}
  BY <1>1, <1>3 DEF Effect, Pending, LeaseIsActive, Active
<1>4. CASE tx[s].op = "renew"
  BY <1>1, <1>4 DEF Effect, Pending, Guarded, UnderLease, HoldsLease, LeaseIsActive
<1>. QED  BY <1>1, <1>2, <1>3, <1>4

LEMMA OnlyCommitsLease ==
    ASSUME [Next]_vars, lease' # lease
    PROVE  Expire \/ \E s \in Sessions : Commit(s)
<1>1. ASSUME NEW s \in Sessions, Work(s)
      PROVE  Commit(s)
  BY <1>1 DEF Work, Validate, Read, LockLease, Recheck, Select, Insert, Grant, Scan,
              RequeueRead, Write, Delete, Goto, Block, Rollback, Become
<1>. QED
  BY <1>1 DEF Next, Begin, Victim, CutOff, Rollback, Become, vars

LEMMA ActiveStep ==
    ASSUME "cancel" \notin Operations, "sweep" \notin Operations,
           LockInv, Assigned, EffectInv, LeaseIsActive, [Next]_vars
    PROVE  LeaseIsActive'
<1>1. ASSUME NEW s \in Sessions, Commit(s)
      PROVE  LeaseIsActive'
  <2>1. tx[s].op \notin {"cancel", "sweep"}
    BY DEF Assigned
  <2>. QED  BY <1>1, <2>1, ActiveCommit
<1>2. CASE Expire
  BY <1>2 DEF Expire, LeaseIsActive
<1>3. CASE UNCHANGED lease /\ ~(\E s \in Sessions : Commit(s))
  BY <1>3, OnlyCommits DEF LeaseIsActive
<1>4. lease' # lease => Expire \/ \E s \in Sessions : Commit(s)
  BY OnlyCommitsLease
<1>. QED  BY <1>1, <1>2, <1>3, <1>4

\* Every expired lease is one the sweep's query finds, whatever complete, fail,
\* lease_next, renew_lease and report_progress run in any number of transactions.
THEOREM ExpiredCorrect ==
    ASSUME "cancel" \notin Operations, "sweep" \notin Operations
    PROVE  Spec => []ExpiredLeaseIsFound
<1>1. Init => LeaseIsActive
  BY DEF Init, LeaseIsActive
<1>2. LockInv /\ Assigned /\ EffectInv /\ [Next]_vars => EffectInv'
  BY EffectStep
<1>3. LockInv /\ Assigned /\ EffectInv /\ LeaseIsActive /\ [Next]_vars => LeaseIsActive'
  BY ActiveStep
<1>4. LeaseIsActive => ExpiredLeaseIsFound
  BY DEF LeaseIsActive, ExpiredLeaseIsFound
<1>. QED
  BY <1>1, <1>2, <1>3, <1>4, EffectInit, LockCorrect, AssignedCorrect, PTL DEF Spec

----------------------------------------------------------------------------
(* The retry budget                                                         *)
(*                                                                          *)
(* fail decides about the retry from an attempt it reads before it has the  *)
(* lease locked.  What it decided is still right when it commits: only a    *)
(* fail changes attempt, which ends its lease, and a lease that is gone     *)
(* does not come back, since one that is about to be inserted is new to     *)
(* every fail.  No other handler writes attempt, except the sweep.          *)

Claiming(t) == t.op = "claim" /\ t.pc = "commit"
Failing(t)  == t.op = "fail" /\ t.pc # "validate"

OwnRetry(t) ==
    /\ t.grant <= grants
    /\ t.op = "renew" /\ t.pc = "commit" => t.lrow.id = t.grant
    /\ /\ t.op = "fail" /\ t.pc \in {"lock", "recheck", "write", "commit"} /\ t.requeue
       /\ lease # NoLease /\ lease.id = t.grant
       => task.attempt + 1 < MaxAttempts
    /\ t.op = "fail" /\ t.pc \in {"write", "commit"} => t.attempt = task.attempt
    /\ t.pc = "commit" /\ t.row # Keep =>
           IF t.row.status = "queued"
           THEN t.op = "fail" /\ t.requeue /\ t.row.attempt = task.attempt + 1
           ELSE t.row.attempt = task.attempt

RetryReceipts == {r \in receipts : r.type = "retry_scheduled"}

Counted ==
    /\ task.attempt < MaxAttempts
    /\ IsFiniteSet(RetryReceipts)
    /\ Retries <= task.attempt

NewLeases ==
    \A c, s \in Sessions :
        Claiming(tx[c]) /\ Failing(tx[s]) => tx[s].grant # tx[c].lrow.id

RetryInv == (\A s \in Sessions : OwnRetry(tx[s])) /\ Counted /\ NewLeases

LEMMA RetryInit == Init => RetryInv
<1> SUFFICES ASSUME Init
             PROVE  RetryInv
  OBVIOUS
<1>1. RetryReceipts = {}
  BY DEF Init, RetryReceipts
<1>2. Retries = 0 /\ IsFiniteSet(RetryReceipts)
  BY <1>1, FS_EmptySet DEF Retries, RetryReceipts
<1>. QED
  BY <1>1, <1>2, TxAssumption
     DEF Init, RetryInv, OwnRetry, Claiming, Failing, Counted, NewLeases, Idle

\* A statement that commits nothing and grants no lease.
LEMMA RetryBecomes ==
    ASSUME LockInv, RetryInv, NEW s \in Sessions, NEW t, Become(s, t), OwnRetry(t),
           ~Claiming(t),
           Failing(t) => \/ Failing(tx[s]) /\ t.grant = tx[s].grant
                         \/ LeaseIsLive(t.grant)
    PROVE  RetryInv'
<1>1. tx' = [tx EXCEPT ![s] = t] /\ UNCHANGED <<task, lease, grants, receipts>>
  BY DEF Become
<1>2. tx'[s] = t /\ \A r \in Sessions \ {s} : tx'[r] = tx[r]
  BY <1>1 DEF LockInv, Shape
<1>3. \A r \in Sessions : OwnRetry(tx[r])'
  BY <1>1, <1>2 DEF RetryInv, OwnRetry, Claiming
<1>4. Counted'
  BY <1>1 DEF RetryInv, Counted, RetryReceipts, Retries
<1>5. ASSUME NEW c \in Sessions, Claiming(tx'[c])
      PROVE  /\ c # s /\ tx'[c] = tx[c] /\ Claiming(tx[c]) /\ lease = NoLease
  BY <1>2, <1>5, Statement DEF Guarded, Claiming
<1>6. NewLeases'
  BY <1>1, <1>2, <1>5 DEF RetryInv, NewLeases, Failing, LeaseIsLive
<1>. QED  BY <1>3, <1>4, <1>6 DEF RetryInv

LEMMA RetryRollback ==
    ASSUME LockInv, RetryInv, NEW s \in Sessions, Rollback(s)
    PROVE  RetryInv'
<1>1. OwnRetry(Idle) /\ ~Claiming(Idle) /\ ~Failing(Idle)
  BY DEF OwnRetry, Claiming, Failing, Idle, LockInv, Shape
<1>. QED  BY <1>1, RetryBecomes DEF Rollback

LEMMA RetryBlock ==
    ASSUME LockInv, RetryInv, NEW s \in Sessions, NEW key, NEW seen, Block(s, key, seen),
           tx[s].pc # "commit"
    PROVE  RetryInv'
<1> DEFINE t == [tx[s] EXCEPT !.waits = key]
<1>1. /\ t.pc = tx[s].pc /\ t.op = tx[s].op /\ t.grant = tx[s].grant
      /\ t.requeue = tx[s].requeue /\ t.attempt = tx[s].attempt /\ Become(s, t)
  BY Statement DEF Txs, Block
<1>. HIDE DEF t
<1>2. OwnRetry(tx[s])
  BY DEF RetryInv
<1>3. OwnRetry(t) /\ ~Claiming(t) /\ (Failing(t) => Failing(tx[s]))
  BY <1>1, <1>2 DEF OwnRetry, Claiming, Failing
<1>. QED  BY <1>1, <1>3, RetryBecomes

LEMMA RetryBegin ==
    ASSUME LockInv, RetryInv, NEW s \in Sessions, NEW op, Begin(s, op)
    PROVE  RetryInv'
<1>1. ASSUME NEW t, Become(s, t), t.pc \in {"validate", "read", "select", "scan"},
             t.pc = "validate" \/ t.op # "fail", t.grant <= grants
      PROVE  RetryInv'
  <2>1. OwnRetry(t) /\ ~Claiming(t) /\ ~Failing(t)
    BY <1>1 DEF OwnRetry, Claiming, Failing
  <2>. QED  BY <1>1, <2>1, RetryBecomes
<1>2. ASSUME NEW pc \in {"validate", "read", "select", "scan"}, NEW g \in 1..grants,
             pc = "validate" \/ op # "fail",
             Become(s, [Idle EXCEPT !.op = op, !.pc = pc, !.grant = g])
      PROVE  RetryInv'
  <2> DEFINE t == [Idle EXCEPT !.op = op, !.pc = pc, !.grant = g]
  <2>1. t.op = op /\ t.pc = pc /\ t.grant = g
    BY DEF Idle
  <2>. HIDE DEF t
  <2>2. Become(s, t) /\ t.grant <= grants
    BY <1>2, <2>1 DEF t, LockInv, Shape
  <2>. QED  BY <1>1, <1>2, <2>1, <2>2
<1>3. ASSUME NEW pc \in {"read", "select", "scan"}, op # "fail",
             Become(s, [Idle EXCEPT !.op = op, !.pc = pc])
      PROVE  RetryInv'
  <2> DEFINE t == [Idle EXCEPT !.op = op, !.pc = pc]
  <2>1. t.op = op /\ t.pc = pc /\ t.grant = 0
    BY DEF Idle
  <2>. HIDE DEF t
  <2>2. Become(s, t) /\ t.grant <= grants
    BY <1>3, <2>1 DEF t, LockInv, Shape
  <2>. QED  BY <1>1, <1>3, <2>1, <2>2
<1>4. CASE op = "cancel" \/ op = "claim" \/ op = "sweep"
  BY <1>3, <1>4, Zenon DEF Begin
<1>5. CASE op = "renew"
  BY <1>2, <1>5, Zenon DEF Begin
<1>6. CASE op \in {"complete", "fail", "progress"}
  BY <1>2, <1>6, Zenon DEF Begin
<1>7. \/ op = "cancel" \/ op = "claim" \/ op = "sweep" \/ op = "renew"
      \/ op \in {"complete", "fail", "progress"}
  BY Zenon DEF Begin
<1>. QED  BY <1>4, <1>5, <1>6, <1>7

LEMMA RetryValidate ==
    ASSUME LockInv, RetryInv, NEW s \in Sessions, Validate(s)
    PROVE  RetryInv'
<1> DEFINE t == [tx[s] EXCEPT !.pc = "read"]
<1>1. OwnRetry(tx[s]) /\ tx[s] \in Txs
  BY Statement DEF RetryInv
<1>2. t.pc = "read" /\ t.op = tx[s].op /\ t.grant = tx[s].grant
  BY <1>1 DEF Txs
<1>3. Rollback(s) \/ (Become(s, t) /\ LeaseIsLive(tx[s].grant))
  BY DEF Validate, Goto
<1>. HIDE DEF t
<1>4. OwnRetry(t) /\ ~Claiming(t)
  BY <1>1, <1>2 DEF OwnRetry, Claiming
<1>. QED  BY <1>2, <1>3, <1>4, RetryBecomes, RetryRollback

LEMMA RetryRead ==
    ASSUME LockInv, RetryInv, NEW s \in Sessions, Read(s)
    PROVE  RetryInv'
<1>1. OwnRetry(tx[s]) /\ tx[s] \in Txs /\ tx[s].pc = "read" /\ OnCourse(tx[s])
  BY Statement DEF RetryInv, Read
<1>2. CASE tx[s].op = "fail"
  <2>1. \E b \in BOOLEAN : /\ b => task.attempt + 1 < MaxAttempts
                           /\ Become(s, [tx[s] EXCEPT !.pc = "lock", !.requeue = b])
    BY <1>2, Zenon DEF Read
  <2>2. PICK b \in BOOLEAN : /\ b => task.attempt + 1 < MaxAttempts
                             /\ Become(s, [tx[s] EXCEPT !.pc = "lock", !.requeue = b])
    BY <2>1
  <2> DEFINE t == [tx[s] EXCEPT !.pc = "lock", !.requeue = b]
  <2>3. t.pc = "lock" /\ t.op = tx[s].op /\ t.grant = tx[s].grant /\ t.requeue = b
    BY <1>1 DEF Txs
  <2>4. Become(s, t)
    BY <2>2
  <2>. HIDE DEF t
  <2>5. OwnRetry(t) /\ ~Claiming(t)
    BY <1>1, <2>2, <2>3 DEF OwnRetry, Claiming
  <2>6. Failing(tx[s])
    BY <1>1, <1>2 DEF Failing
  <2>. QED  BY <2>3, <2>4, <2>5, <2>6, RetryBecomes
<1>3. ASSUME NEW pc \in {"lock", "write", "release", "requeue"}, Goto(s, pc), tx[s].op # "fail"
      PROVE  RetryInv'
  <2> DEFINE t == [tx[s] EXCEPT !.pc = pc]
  <2>1. t.pc = pc /\ t.op = tx[s].op /\ t.grant = tx[s].grant /\ Become(s, t)
    BY <1>1, <1>3 DEF Txs, Goto
  <2>. HIDE DEF t
  <2>2. OwnRetry(t) /\ ~Claiming(t) /\ ~Failing(t)
    BY <1>1, <1>3, <2>1 DEF OwnRetry, Claiming, Failing
  <2>. QED  BY <2>1, <2>2, RetryBecomes
<1>4. CASE tx[s].op # "fail"
  <2>1. Rollback(s) \/ \E pc \in {"lock", "write", "release", "requeue"} : Goto(s, pc)
    BY <1>4, Zenon DEF Read
  <2>. QED  BY <1>3, <1>4, <2>1, RetryRollback
<1>. QED  BY <1>2, <1>4

LEMMA RetryRecheck ==
    ASSUME LockInv, EffectInv, RetryInv, NEW s \in Sessions, Recheck(s)
    PROVE  RetryInv'
<1>1. OwnRetry(tx[s]) /\ tx[s] \in Txs /\ tx[s].pc = "recheck" /\ Effect(tx[s])
  BY Statement DEF RetryInv, Recheck, EffectInv
<1>2. CASE tx[s].op = "fail"
  <2> DEFINE t == [tx[s] EXCEPT !.pc = "write", !.attempt = task.attempt]
  <2>1. /\ t.pc = "write" /\ t.op = tx[s].op /\ t.grant = tx[s].grant
        /\ t.attempt = task.attempt /\ t.requeue = tx[s].requeue
    BY <1>1 DEF Txs
  <2>2. Become(s, t)
    BY <1>2, Zenon DEF Recheck
  <2>. HIDE DEF t
  <2>3. OwnRetry(t) /\ ~Claiming(t) /\ Failing(tx[s])
    BY <1>1, <1>2, <2>1 DEF OwnRetry, Claiming, Failing
  <2>. QED  BY <2>1, <2>2, <2>3, RetryBecomes
<1>3. CASE tx[s].op # "fail"
  <2> DEFINE t == [tx[s] EXCEPT !.pc = "write"]
             u == [tx[s] EXCEPT !.pc = "commit", !.out = Canceled]
  <2>1. t.pc = "write" /\ t.op = tx[s].op /\ t.grant = tx[s].grant
    BY <1>1 DEF Txs
  <2>2. u.pc = "commit" /\ u.op = tx[s].op /\ u.grant = tx[s].grant /\ u.row = Keep
    BY <1>1 DEF Txs, Effect
  <2>3. Become(s, t) \/ Rollback(s) \/ (tx[s].op = "cancel" /\ Become(s, u))
    BY <1>3, Zenon DEF Recheck, Goto, Canceled
  <2>. HIDE DEF t, u
  <2>4. OwnRetry(t) /\ ~Claiming(t) /\ ~Failing(t)
    BY <1>1, <1>3, <2>1 DEF OwnRetry, Claiming, Failing
  <2>5. tx[s].op = "cancel" => OwnRetry(u) /\ ~Claiming(u) /\ ~Failing(u)
    BY <1>1, <2>2 DEF OwnRetry, Claiming, Failing
  <2>. QED  BY <2>3, <2>4, <2>5, RetryBecomes, RetryRollback
<1>. QED  BY <1>2, <1>3

LEMMA RetryLockLease ==
    ASSUME LockInv, EffectInv, RetryInv, NEW s \in Sessions, LockLease(s)
    PROVE  RetryInv'
<1> DEFINE g == tx[s].grant
           t == Having(s, g, "recheck")
           u == [Having(s, g, "commit") EXCEPT !.lrow = [id |-> g, live |-> TRUE]]
<1>1. /\ OwnRetry(tx[s]) /\ tx[s] \in Txs /\ tx[s].pc = "lock" /\ tx[s].op # "claim"
      /\ tx[s].row = Keep
  BY Statement, Zenon DEF RetryInv, LockLease, OnCourse, EffectInv, Effect
<1>2. /\ t.op = tx[s].op /\ t.pc = "recheck" /\ t.grant = g
      /\ t.requeue = tx[s].requeue /\ t.attempt = tx[s].attempt
  BY <1>1 DEF Having, Txs
<1>3. /\ u.op = tx[s].op /\ u.pc = "commit" /\ u.grant = g /\ u.lrow = [id |-> g, live |-> TRUE]
      /\ u.row = Keep
  BY <1>1 DEF Having, Txs
<1>4. \/ Become(s, t)
      \/ tx[s].op = "renew" /\ Become(s, u)
      \/ Rollback(s)
      \/ Block(s, g, Sought(s))
  BY DEF LockLease
<1>. HIDE DEF t, u
<1>5. OwnRetry(t) /\ ~Claiming(t) /\ (Failing(t) => Failing(tx[s]))
  BY <1>1, <1>2 DEF OwnRetry, Claiming, Failing
<1>6. tx[s].op = "renew" => OwnRetry(u) /\ ~Claiming(u) /\ ~Failing(u)
  BY <1>1, <1>3 DEF OwnRetry, Claiming, Failing
<1>7. CASE Become(s, t)
  BY <1>2, <1>5, <1>7, RetryBecomes
<1>8. CASE tx[s].op = "renew" /\ Become(s, u)
  BY <1>6, <1>8, RetryBecomes
<1>9. CASE Block(s, g, Sought(s))
  BY <1>1, <1>9, RetryBlock
<1>. QED  BY <1>4, <1>7, <1>8, <1>9, RetryRollback

LEMMA RetryClaim ==
    ASSUME LockInv, RetryInv, NEW s \in Sessions, Select(s) \/ Insert(s)
    PROVE  RetryInv'
<1>1. OwnRetry(tx[s]) /\ tx[s] \in Txs /\ tx[s].op = "claim" /\ tx[s].pc \in {"select", "insert"}
  BY Statement DEF Select, Insert, At, RetryInv
<1>2. CASE Rollback(s)
  BY <1>2, RetryRollback
<1>3. CASE Block(s, lease.id, TRUE)
  BY <1>1, <1>3, RetryBlock
<1>4. CASE Become(s, Having(s, TaskKey, "insert"))
  <2> DEFINE t == Having(s, TaskKey, "insert")
  <2>1. t.op = "claim" /\ t.pc = "insert" /\ t.grant = tx[s].grant
    BY <1>1 DEF Having, Txs
  <2>. HIDE DEF t
  <2>2. OwnRetry(t) /\ ~Claiming(t) /\ ~Failing(t)
    BY <1>1, <2>1 DEF OwnRetry, Claiming, Failing
  <2>. QED  BY <1>4, <2>2, RetryBecomes DEF t
<1>5. CASE Grant(s)
  <2> DEFINE new    == [id |-> grants + 1, live |-> TRUE]
             leased == [task EXCEPT !.status = "leased"]
             t      == [tx[s] EXCEPT !.pc = "commit", !.waits = NoKey, !.row = leased,
                                     !.lrow = new]
  <2>1. /\ new.id = grants + 1 /\ grants \in Nat
        /\ leased.attempt = task.attempt /\ leased.status = "leased"
    BY DEF LockInv, Shape, Tasks
  <2>. HIDE DEF new, leased
  <2>2. t.op = "claim" /\ t.pc = "commit" /\ t.row = leased /\ t.lrow = new
        /\ t.grant = tx[s].grant
    BY <1>1 DEF Txs
  <2>3. tx' = [tx EXCEPT ![s] = t] /\ grants' = grants + 1 /\ UNCHANGED <<task, lease, receipts>>
    BY <1>5 DEF Grant, new, leased
  <2>. HIDE DEF t
  <2>4. tx'[s] = t /\ \A r \in Sessions \ {s} : tx'[r] = tx[r]
    BY <2>3 DEF LockInv, Shape
  <2>5. \A r \in Sessions : tx[r].grant \in Nat /\ tx[r].grant <= grants
    BY Statement DEF Txs, RetryInv, OwnRetry
  <2>6. \A r \in Sessions : OwnRetry(tx[r])'
    BY <1>1, <2>1, <2>2, <2>3, <2>4, <2>5 DEF RetryInv, OwnRetry, Claiming
  <2>7. Counted'
    BY <2>3 DEF RetryInv, Counted, RetryReceipts, Retries
  <2>8. NewLeases'
    BY <1>1, <2>1, <2>2, <2>4, <2>5 DEF RetryInv, NewLeases, Claiming, Failing
  <2>. QED  BY <2>6, <2>7, <2>8 DEF RetryInv
<1>. QED  BY <1>2, <1>3, <1>4, <1>5 DEF Select, Insert

LEMMA RetryWrite ==
    ASSUME LockInv, RetryInv, NEW s \in Sessions, tx[s].op # "sweep", Write(s)
    PROVE  RetryInv'
<1>1. /\ tx[s].pc = "write" /\ tx[s].op \in {"complete", "fail", "progress", "cancel"}
      /\ OwnRetry(tx[s]) /\ tx[s] \in Txs /\ task \in Tasks
  BY Statement DEF Write, OnCourse, RetryInv, LockInv, Shape
<1>2. CASE Become(s, Written(s))
  <2> DEFINE t == Written(s)
  <2>1. /\ t.op = tx[s].op /\ t.pc = "commit" /\ t.grant = tx[s].grant /\ t.row = NewRow(s)
    BY <1>1, WrittenIs
  <2>2. t.requeue = tx[s].requeue /\ t.attempt = tx[s].attempt
    BY <1>1 DEF Written, Having, Txs
  <2>. HIDE DEF t
  <2>3. IF tx[s].op = "fail" /\ tx[s].requeue
        THEN NewRow(s) = Requeued(s)
        ELSE \E status \in {"succeeded", "failed", "running", "canceled"} :
                NewRow(s) = [task EXCEPT !.status = status]
    BY <1>1 DEF NewRow
  <2>4. IF tx[s].op = "fail" /\ tx[s].requeue
        THEN NewRow(s).status = "queued" /\ NewRow(s).attempt = tx[s].attempt + 1
        ELSE NewRow(s).status # "queued" /\ NewRow(s).attempt = task.attempt
    BY <1>1, <2>3 DEF Requeued, Tasks
  <2>5. OwnRetry(t)
    BY <1>1, <2>1, <2>2, <2>4 DEF OwnRetry, Claiming
  <2>6. ~Claiming(t) /\ (Failing(t) => Failing(tx[s]))
    BY <1>1, <2>1 DEF Claiming, Failing
  <2>. QED  BY <1>2, <2>1, <2>5, <2>6, RetryBecomes DEF t
<1>3. CASE Block(s, TaskKey, TRUE)
  BY <1>1, <1>3, RetryBlock
<1>. QED  BY <1>2, <1>3 DEF Write

LEMMA RetryDelete ==
    ASSUME LockInv, RetryInv, NEW s \in Sessions, tx[s].op # "sweep", Delete(s)
    PROVE  RetryInv'
<1>1. tx[s].op = "cancel" /\ tx[s].pc = "release" /\ OwnRetry(tx[s])
  BY Statement DEF Delete, OnCourse, RetryInv
<1>2. ASSUME NEW t, Become(s, t), t.op = tx[s].op, t.pc = "recheck", t.grant = tx[s].grant
      PROVE  RetryInv'
  <2>1. OwnRetry(t) /\ ~Claiming(t) /\ ~Failing(t)
    BY <1>1, <1>2 DEF OwnRetry, Claiming, Failing
  <2>. QED  BY <1>2, <2>1, RetryBecomes
<1>3. CASE Block(s, Doomed(s), Exists(Doomed(s)))
  BY <1>1, <1>3, RetryBlock
<1>. QED  BY <1>1, <1>2, <1>3, DeleteIs

\* The receipts of a commit.
LEMMA RetryReceipted ==
    ASSUME RetryInv, LockInv, NEW out, receipts' = receipts \cup out, NEW g, NEW type,
           out = {} \/ out = {[type |-> type, grant |-> g]}
    PROVE  /\ IsFiniteSet(RetryReceipts')
           /\ Retries' <= Retries + 1
           /\ out = {} \/ type # "retry_scheduled" => Retries' = Retries
           /\ Retries \in Nat /\ Retries' \in Nat
<1> DEFINE e == [type |-> type, grant |-> g]
<1>1. IsFiniteSet(RetryReceipts) /\ Cardinality(RetryReceipts) \in Nat
  BY FS_CardinalityType DEF RetryInv, Counted
<1>2. e.type = type
  OBVIOUS
<1>3. Retries = Cardinality(RetryReceipts) /\ Retries' = Cardinality(RetryReceipts')
  BY DEF Retries, RetryReceipts
<1>. HIDE DEF e
<1>4. CASE out = {} \/ (out = {e} /\ type # "retry_scheduled")
  <2>1. RetryReceipts' = RetryReceipts
    BY <1>2, <1>4 DEF RetryReceipts
  <2>. QED  BY <1>1, <1>3, <2>1
<1>5. CASE out = {e} /\ type = "retry_scheduled"
  <2>1. RetryReceipts' = RetryReceipts \cup {e}
    BY <1>2, <1>5 DEF RetryReceipts
  <2>2. /\ IsFiniteSet(RetryReceipts \cup {e})
        /\ Cardinality(RetryReceipts \cup {e}) =
              IF e \in RetryReceipts THEN Cardinality(RetryReceipts)
                                     ELSE Cardinality(RetryReceipts) + 1
    BY <1>1, FS_AddElement
  <2>3. out # {}
    BY <1>5
  <2>. QED  BY <1>1, <1>3, <1>5, <2>1, <2>2, <2>3
<1>. QED  BY <1>4, <1>5 DEF e

LEMMA RetryCommit ==
    ASSUME LockInv, EffectInv, RetryInv, NEW s \in Sessions, tx[s].op # "sweep", Commit(s)
    PROVE  RetryInv'
<1>1. /\ tx[s].pc = "commit" /\ tx[s] \in Txs /\ Guarded(tx[s]) /\ Effect(tx[s])
      /\ OwnRetry(tx[s]) /\ Exclusive /\ UNCHANGED grants
      /\ task' = (IF tx[s].row = Keep THEN task ELSE tx[s].row)
      /\ lease' = (IF tx[s].lrow = Keep THEN lease ELSE tx[s].lrow)
      /\ receipts' = receipts \cup tx[s].out
      /\ task.attempt \in Nat
      /\ tx[s].op \in {"complete", "fail", "claim", "renew", "cancel", "progress"}
  BY Statement
     DEF Commit, EffectInv, RetryInv, LockInv, Shape, Tasks, OnCourse, Txs, AllOperations
<1>2. tx'[s] = Idle /\ \A r \in Sessions \ {s} : tx'[r] = tx[r]
  BY DEF Commit, LockInv, Shape
<1>3. NewLeases'
  BY <1>2 DEF RetryInv, NewLeases, Claiming, Failing, Idle
<1>4. OwnRetry(tx[s])'
  BY <1>1, <1>2 DEF OwnRetry, Claiming, Idle, LockInv, Shape
<1> DEFINE retry == tx[s].op = "fail" /\ tx[s].row.status = "queued"
\* What happens to the attempt, and to the lease.
<1>5. /\ ~retry => task'.attempt = task.attempt
      /\ retry => task'.attempt = task.attempt + 1 /\ tx[s].requeue /\ tx[s].row # Keep
  BY <1>1 DEF OwnRetry, Effect, Pending
<1>6. /\ tx[s].op \in {"complete", "fail"} =>
             lease # NoLease /\ lease.id \in tx[s].held /\ lease.id = tx[s].grant /\ lease' = NoLease
      /\ tx[s].op = "claim" => lease' = tx[s].lrow
      /\ tx[s].op = "renew" => lease # NoLease /\ lease'.id = lease.id
      /\ tx[s].op \in {"cancel", "progress"} => lease' = NoLease \/ lease' = lease
  BY <1>1, Markers DEF Effect, Pending, OwnRetry, Guarded, UnderLease, HoldsLease
<1>7. ASSUME NEW r \in Sessions, r # s
      PROVE  OwnRetry(tx[r])'
  <2>1. OwnRetry(tx[r]) /\ tx'[r] = tx[r] /\ Guarded(tx[r]) /\ Effect(tx[r]) /\ tx[r].held \cap tx[s].held = {}
    BY <1>1, <1>2, <1>7, Statement DEF RetryInv, EffectInv, Exclusive
  <2>2. tx[r].pc = "commit" /\ tx[r].row # Keep => task' = task
    BY <1>1, <2>1 DEF Effect
  <2>3. tx[r].op = "fail" /\ tx[r].pc \in {"write", "commit"} => ~retry
    BY <1>6, <2>1 DEF Guarded, UnderLease, HoldsLease
  <2>4. tx[r].op = "fail" /\ tx[r].pc \in {"lock", "recheck", "write", "commit"}
            /\ lease' # NoLease /\ lease'.id = tx[r].grant
        => lease # NoLease /\ lease.id = tx[r].grant /\ ~retry
    <3>1. Failing(tx[r]) /\ tx[s].op = "claim" => tx[r].grant # tx[s].lrow.id
      BY <1>1 DEF RetryInv, NewLeases, Claiming
    <3>. QED  BY <1>1, <1>6, <3>1 DEF Failing
  <2>5. (tx[r].grant <= grants)'
    BY <1>1, <2>1 DEF OwnRetry
  <2>6. (tx[r].op = "renew" /\ tx[r].pc = "commit" => tx[r].lrow.id = tx[r].grant)'
    BY <2>1 DEF OwnRetry
  <2>7. (/\ tx[r].op = "fail" /\ tx[r].pc \in {"lock", "recheck", "write", "commit"} /\ tx[r].requeue
         /\ lease # NoLease /\ lease.id = tx[r].grant
         => task.attempt + 1 < MaxAttempts)'
    BY <1>5, <2>1, <2>4 DEF OwnRetry
  <2>8. (tx[r].op = "fail" /\ tx[r].pc \in {"write", "commit"} => tx[r].attempt = task.attempt)'
    BY <1>5, <2>1, <2>3 DEF OwnRetry
  <2>9. (tx[r].pc = "commit" /\ tx[r].row # Keep =>
            IF tx[r].row.status = "queued"
            THEN tx[r].op = "fail" /\ tx[r].requeue /\ tx[r].row.attempt = task.attempt + 1
            ELSE tx[r].row.attempt = task.attempt)'
    BY <2>1, <2>2 DEF OwnRetry
  <2>. QED  BY <2>5, <2>6, <2>7, <2>8, <2>9 DEF OwnRetry
<1>8. CASE retry
  <2>1. task.attempt + 1 < MaxAttempts
    BY <1>1, <1>5, <1>6, <1>8 DEF OwnRetry
  <2>2. tx[s].out = {[type |-> "retry_scheduled", grant |-> tx[s].grant]}
    BY <1>1, <1>8 DEF Effect, Pending, Report
  <2>3. IsFiniteSet(RetryReceipts') /\ Retries' <= Retries + 1 /\ Retries \in Nat /\ Retries' \in Nat
    BY <1>1, <2>2, RetryReceipted
  <2>4. Counted'
    BY <1>1, <1>5, <1>8, <2>1, <2>3 DEF RetryInv, Counted
  <2>. QED  BY <1>3, <1>4, <1>7, <2>4 DEF RetryInv
<1>9. CASE ~retry
  <2>1. \/ tx[s].out = {}
        \/ \E type \in {"completed", "failed", "canceled"}, g \in Nat :
              tx[s].out = {[type |-> type, grant |-> g]}
    <3>1. tx[s].op \in {"complete", "fail"} => tx[s].row # Keep /\ Report(tx[s])
      BY <1>1 DEF Effect, Pending
    <3>2. tx[s].op = "complete" => tx[s].row.status # "queued"
      BY <1>1, <3>1 DEF OwnRetry
    <3>3. tx[s].op \in {"complete", "fail"} =>
            \E type \in {"completed", "failed"} : tx[s].out = {[type |-> type, grant |-> tx[s].grant]}
      BY <1>9, <3>1, <3>2 DEF Report
    <3>4. tx[s].grant \in Nat /\ 0 \in Nat
      BY <1>1 DEF Txs
    <3>. QED  BY <1>1, <3>3, <3>4 DEF Effect, Pending, Canceled
  <2>2. IsFiniteSet(RetryReceipts') /\ Retries' = Retries
    <3>1. CASE tx[s].out = {}
      BY <1>1, <3>1, RetryReceipted
    <3>2. CASE tx[s].out # {}
      <4>1. PICK type \in {"completed", "failed", "canceled"}, g \in Nat :
              tx[s].out = {[type |-> type, grant |-> g]}
        BY <2>1, <3>2
      <4>. QED  BY <1>1, <4>1, RetryReceipted
    <3>. QED  BY <3>1, <3>2
  <2>3. Counted'
    BY <1>5, <1>9, <2>2 DEF RetryInv, Counted
  <2>. QED  BY <1>3, <1>4, <1>7, <2>3 DEF RetryInv
<1>. QED  BY <1>8, <1>9

LEMMA RetryWork ==
    ASSUME LockInv, EffectInv, RetryInv, NEW s \in Sessions, tx[s].op # "sweep", Work(s)
    PROVE  RetryInv'
<1>1. ~Scan(s) /\ ~RequeueRead(s)
  BY DEF Scan, RequeueRead, At
<1>. QED
  BY <1>1, RetryValidate, RetryRead, RetryLockLease, RetryRecheck, RetryClaim, RetryWrite,
     RetryDelete, RetryCommit DEF Work

LEMMA RetryStep ==
    ASSUME "sweep" \notin Operations, LockInv, Assigned, EffectInv, RetryInv, [Next]_vars
    PROVE  RetryInv'
<1>1. ASSUME NEW s \in Sessions, Work(s)
      PROVE  RetryInv'
  BY <1>1, NoSweep, RetryWork
<1>2. CASE Expire
  <2>1. /\ lease # NoLease /\ lease' = [lease EXCEPT !.live = FALSE] /\ lease \in Leases
        /\ UNCHANGED <<task, grants, receipts, tx>>
    BY <1>2 DEF Expire, LockInv, Shape
  <2>2. lease'.id = lease.id
    BY <2>1 DEF Leases
  <2>. QED
    BY <2>1, <2>2 DEF RetryInv, OwnRetry, Claiming, Counted, RetryReceipts, Retries, NewLeases,
                      Failing
<1>3. CASE UNCHANGED vars
  BY <1>3 DEF vars, RetryInv, OwnRetry, Claiming, Counted, RetryReceipts, Retries, NewLeases,
              Failing
<1>. QED  BY <1>1, <1>2, <1>3, RetryBegin, RetryRollback DEF Next, Victim, CutOff

LEMMA RetryAlways ==
    ASSUME "sweep" \notin Operations
    PROVE  Spec => [](EffectInv /\ RetryInv)
<1>1. LockInv /\ Assigned /\ EffectInv /\ RetryInv /\ [Next]_vars => EffectInv' /\ RetryInv'
  BY EffectStep, RetryStep
<1>. QED  BY <1>1, EffectInit, RetryInit, LockCorrect, AssignedCorrect, PTL DEF Spec

\* No task is given more retries than max_attempts allows, whatever handlers any number
\* of sessions run at once, although fail decides on the retry before it has the lease
\* locked.  The sweep is the exception: it writes back an attempt it read without a lock.
THEOREM RetryCorrect ==
    ASSUME "sweep" \notin Operations
    PROVE  Spec => []RetryBudget
<1>1. LockInv /\ RetryInv => RetryBudget
  <2>1. ASSUME LockInv, RetryInv
        PROVE  Retries < MaxAttempts
    <3>1. Retries \in Nat
      BY <2>1, FS_CardinalityType DEF RetryInv, Counted, Retries, RetryReceipts
    <3>. QED  BY <2>1, <3>1, TxAssumption DEF RetryInv, Counted, LockInv, Shape, Tasks
  <2>. QED  BY <2>1 DEF RetryBudget
<1>. QED  BY <1>1, RetryAlways, LockCorrect, PTL

----------------------------------------------------------------------------
(* The types                                                                *)
(*                                                                          *)
(* Rows and locks are named by lease ids that were given out: a session     *)
(* locks what is in the table, waits for what another one has locked, and   *)
(* writes back the id it locked or the new one.  A claim that has begun has *)
(* its id reserved in the bound of the model.  The attempt written to the   *)
(* row stays below max_attempts by the retry budget above.                  *)

Seeker(t) == t.op = "claim" /\ t.pc \in {"select", "insert"}
Claims    == {r \in Sessions : tx[r].op = "claim"}
Seeking   == {r \in Sessions : Seeker(tx[r])}

KnownKeys(t) ==
    /\ \A key \in t.held : key <= grants
    /\ t.waits # NoKey => t.waits <= grants
    /\ t.lrow \in Leases => t.lrow.id <= grants

KeyInv ==
    /\ IsFiniteSet(Claims)
    /\ grants + Cardinality(Seeking) <= MaxGrants
    /\ lease # NoLease => lease.id <= grants
    /\ \A s \in Sessions : KnownKeys(tx[s])

LEMMA IdleKeys == KnownKeys(Idle) /\ ~Seeker(Idle) /\ Idle.op # "claim"
BY Markers DEF KnownKeys, Seeker, Idle

LEMMA KeyInit == Init => KeyInv
<1> SUFFICES ASSUME Init
             PROVE  KeyInv
  OBVIOUS
<1>1. \A s \in Sessions : tx[s] = Idle
  BY DEF Init
<1>2. Claims = {} /\ Seeking = {}
  BY <1>1, IdleKeys DEF Claims, Seeking
<1>3. IsFiniteSet(Claims) /\ Cardinality(Seeking) = 0
  BY <1>2, FS_EmptySet
<1>. QED  BY <1>1, <1>3, IdleKeys, TxAssumption DEF Init, KeyInv

\* The claims counted are finitely many.
LEMMA ClaimsCounted ==
    ASSUME KeyInv
    PROVE  /\ IsFiniteSet(Seeking) /\ Cardinality(Seeking) \in Nat
           /\ Cardinality(Claims) \in Nat /\ Cardinality(Seeking) <= Cardinality(Claims)
<1>1. IsFiniteSet(Claims) /\ Seeking \subseteq Claims
  BY DEF KeyInv, Seeking, Claims, Seeker
<1>. QED  BY <1>1, FS_Subset, FS_CardinalityType

\* A step of s that grants no lease.
LEMMA KeysBecome ==
    ASSUME LockInv, KeyInv, NEW s \in Sessions, NEW t, tx' = [tx EXCEPT ![s] = t],
           grants' = grants, lease' = NoLease \/ lease'.id <= grants,
           KnownKeys(t), t.op = "claim" => tx[s].op = "claim",
           Seeker(t) => Seeker(tx[s])
    PROVE  KeyInv'
<1>1. tx'[s] = t /\ \A r \in Sessions \ {s} : tx'[r] = tx[r]
  BY DEF LockInv, Shape
<1>2. Claims' \subseteq Claims /\ Seeking' \subseteq Seeking
  BY <1>1 DEF Claims, Seeking, Seeker
<1>3. IsFiniteSet(Claims')
  BY <1>2, FS_Subset DEF KeyInv
<1>4. Cardinality(Seeking') \in Nat /\ Cardinality(Seeking') <= Cardinality(Seeking)
  BY <1>2, ClaimsCounted, FS_Subset, FS_CardinalityType
<1>5. grants' + Cardinality(Seeking') <= MaxGrants
  BY <1>4, ClaimsCounted, TxAssumption DEF KeyInv, LockInv, Shape
<1>6. \A r \in Sessions : KnownKeys(tx[r])'
  BY <1>1 DEF KeyInv, KnownKeys
<1>. QED  BY <1>3, <1>5, <1>6 DEF KeyInv

\* A statement that commits nothing.
LEMMA KeysStatement ==
    ASSUME LockInv, KeyInv, NEW s \in Sessions, NEW t, Become(s, t),
           KnownKeys(t), t.op = tx[s].op, Seeker(t) => Seeker(tx[s])
    PROVE  KeyInv'
<1>1. lease' = NoLease \/ lease'.id <= grants
  BY DEF Become, KeyInv
<1>. QED  BY <1>1, KeysBecome DEF Become

LEMMA KeysRollback ==
    ASSUME LockInv, KeyInv, NEW s \in Sessions, Rollback(s)
    PROVE  KeyInv'
<1>1. lease' = NoLease \/ lease'.id <= grants
  BY DEF Rollback, Become, KeyInv
<1>. QED  BY <1>1, KeysBecome, IdleKeys DEF Rollback, Become

LEMMA KeysBlock ==
    ASSUME LockInv, KeyInv, NEW s \in Sessions, NEW key, NEW seen, Block(s, key, seen)
    PROVE  KeyInv'
<1> DEFINE t == [tx[s] EXCEPT !.waits = key]
<1>1. /\ t.pc = tx[s].pc /\ t.op = tx[s].op /\ t.held = tx[s].held /\ t.lrow = tx[s].lrow
      /\ t.waits = key /\ Become(s, t)
  BY Statement DEF Txs, Block
<1>. HIDE DEF t
<1>2. PICK r \in Sessions : key \in tx[r].held
  BY DEF Block, Locked
<1>3. KnownKeys(t)
  BY <1>1, <1>2 DEF KeyInv, KnownKeys
<1>. QED  BY <1>1, <1>3, KeysStatement DEF Seeker

\* A row that is there is locked.
LEMMA KeysHaving ==
    ASSUME LockInv, KeyInv, NEW s \in Sessions, NEW key \in Nat, NEW pc \in Steps, Exists(key)
    PROVE  key <= grants /\ KnownKeys(Having(s, key, pc))
<1>1. key <= grants
  BY DEF Exists, KeyInv, TaskKey, LockInv, Shape
<1>. QED  BY <1>1, HavingIs DEF KeyInv, KnownKeys

LEMMA KeysBegin ==
    ASSUME LockInv, KeyInv, NEW s \in Sessions, NEW op, Begin(s, op)
    PROVE  KeyInv'
<1>1. ASSUME NEW t, Become(s, t), t.held = {}, t.waits = NoKey, t.lrow = Keep, t.op # "claim"
      PROVE  KeyInv'
  <2>1. KnownKeys(t) /\ ~Seeker(t)
    BY <1>1, Markers DEF KnownKeys, Seeker
  <2>2. lease' = NoLease \/ lease'.id <= grants
    BY <1>1 DEF Become, KeyInv
  <2>. QED  BY <1>1, <2>1, <2>2, KeysBecome DEF Become
<1>2. ASSUME NEW pc, NEW g, op # "claim",
             \/ Become(s, [Idle EXCEPT !.op = op, !.pc = pc])
             \/ Become(s, [Idle EXCEPT !.op = op, !.pc = pc, !.grant = g])
      PROVE  KeyInv'
  <2> DEFINE t == [Idle EXCEPT !.op = op, !.pc = pc]
             u == [Idle EXCEPT !.op = op, !.pc = pc, !.grant = g]
  <2>1. /\ t.held = {} /\ t.waits = NoKey /\ t.lrow = Keep /\ t.op = op
        /\ u.held = {} /\ u.waits = NoKey /\ u.lrow = Keep /\ u.op = op
    BY DEF Idle
  <2>. HIDE DEF t, u
  <2>2. Become(s, t) \/ Become(s, u)
    BY <1>2 DEF t, u
  <2>. QED  BY <1>1, <1>2, <2>1, <2>2
<1>3. CASE op # "claim"
  BY <1>2, <1>3 DEF Begin
<1>4. CASE op = "claim"
  <2> DEFINE t == [Idle EXCEPT !.op = op, !.pc = "select"]
  <2>1. /\ grants + Cardinality({r \in Sessions : tx[r].op = "claim"}) < MaxGrants
        /\ Become(s, t) /\ tx[s] = Idle
    BY <1>4, Zenon DEF Begin
  <2>2. t.op = "claim" /\ t.held = {} /\ t.waits = NoKey /\ t.lrow = Keep
    BY <1>4 DEF Idle
  <2>. HIDE DEF t
  <2>3. tx'[s] = t /\ \A r \in Sessions \ {s} : tx'[r] = tx[r]
    BY <2>1 DEF Become, LockInv, Shape
  <2>4. Claims' = Claims \cup {s}
    BY <2>2, <2>3 DEF Claims
  <2>5. Seeking' \subseteq Claims \cup {s} /\ s \notin Claims
    BY <2>1, <2>4, IdleKeys DEF Claims, Seeking, Seeker
  <2>6. /\ IsFiniteSet(Claims \cup {s})
        /\ Cardinality(Claims \cup {s}) = Cardinality(Claims) + 1
    BY <2>5, FS_AddElement DEF KeyInv
  <2>7. Cardinality(Seeking') <= Cardinality(Claims) + 1 /\ Cardinality(Seeking') \in Nat
    BY <2>5, <2>6, FS_Subset, FS_CardinalityType
  <2>8. grants + Cardinality(Claims) < MaxGrants /\ UNCHANGED <<grants, lease>>
    BY <2>1 DEF Claims, Become
  <2>9. grants' + Cardinality(Seeking') <= MaxGrants
    BY <2>7, <2>8, ClaimsCounted, TxAssumption DEF LockInv, Shape
  <2>10. KnownKeys(t)
    BY <2>2, Markers DEF KnownKeys
  <2>11. \A r \in Sessions : KnownKeys(tx[r])'
    BY <2>3, <2>8, <2>10 DEF KeyInv, KnownKeys
  <2>. QED  BY <2>4, <2>6, <2>8, <2>9, <2>11 DEF KeyInv
<1>. QED  BY <1>3, <1>4

\* Statements without a lock.
LEMMA KeysUnlocked ==
    ASSUME LockInv, KeyInv, NEW s \in Sessions,
           Validate(s) \/ Read(s) \/ Recheck(s) \/ Scan(s) \/ RequeueRead(s)
    PROVE  KeyInv'
<1>1. ASSUME NEW t, Become(s, t), t.op = tx[s].op, t.held = tx[s].held,
             t.waits = tx[s].waits, t.lrow = tx[s].lrow,
             t.pc \in {"read", "lock", "write", "release", "requeue", "commit"}
      PROVE  KeyInv'
  <2>1. KnownKeys(t) /\ ~Seeker(t)
    BY <1>1 DEF KeyInv, KnownKeys, Seeker
  <2>. QED  BY <1>1, <2>1, KeysStatement
<1>2. ASSUME Become(s, [tx[s] EXCEPT !.pc = "commit", !.out = Canceled])
      PROVE  KeyInv'
  <2> DEFINE t == [tx[s] EXCEPT !.pc = "commit", !.out = Canceled]
  <2>1. /\ t.op = tx[s].op /\ t.held = tx[s].held /\ t.waits = tx[s].waits
        /\ t.lrow = tx[s].lrow /\ t.pc = "commit" /\ Become(s, t)
    BY <1>2, Statement DEF Txs
  <2>. HIDE DEF t
  <2>. QED  BY <1>1, <2>1
<1>. QED  BY <1>1, <1>2, KeysRollback, UnlockedSteps DEF Aside

LEMMA KeysLockLease ==
    ASSUME LockInv, KeyInv, NEW s \in Sessions, LockLease(s)
    PROVE  KeyInv'
<1> DEFINE g == tx[s].grant
           t == Having(s, g, "recheck")
           h == Having(s, g, "commit")
           u == [h EXCEPT !.lrow = [id |-> g, live |-> TRUE]]
<1>1. g \in Nat /\ "recheck" \in Steps /\ "commit" \in Steps
  BY Statement DEF Txs, Steps
<1>2. t.op = tx[s].op /\ t.pc = "recheck"
  BY <1>1, HavingIs
<1>3. /\ h \in Txs /\ h.op = tx[s].op /\ h.pc = "commit"
  BY <1>1, HavingIs
<1>. HIDE DEF h
<1>4. /\ u.op = tx[s].op /\ u.pc = "commit" /\ u.held = h.held /\ u.waits = h.waits
      /\ u.lrow = [id |-> g, live |-> TRUE]
  BY <1>3 DEF Txs
<1>5. \/ Exists(g) /\ (Become(s, t) \/ Become(s, u))
      \/ Rollback(s)
      \/ Block(s, g, Sought(s))
  BY DEF LockLease, Hit, h
<1>6. CASE Exists(g)
  <2>1. g <= grants /\ KnownKeys(t) /\ KnownKeys(h)
    BY <1>1, <1>6, KeysHaving DEF h
  <2>. HIDE DEF t, u
  <2>2. KnownKeys(u)
    BY <1>4, <2>1 DEF KnownKeys
  <2>3. ~Seeker(t) /\ ~Seeker(u)
    BY <1>2, <1>4 DEF Seeker
  <2>. QED  BY <1>2, <1>4, <1>5, <2>1, <2>2, <2>3, KeysStatement, KeysRollback, KeysBlock
<1>. QED  BY <1>5, <1>6, KeysRollback, KeysBlock

\* The claim that gets its lease id gives up its place in the bound.
LEMMA KeysGrant ==
    ASSUME LockInv, KeyInv, NEW s \in Sessions, Seeker(tx[s]), Grant(s)
    PROVE  KeyInv'
<1> DEFINE new == [id |-> grants + 1, live |-> TRUE]
           row == [task EXCEPT !.status = "leased"]
           t == [tx[s] EXCEPT !.pc = "commit", !.waits = NoKey, !.row = row, !.lrow = new]
<1>1. grants' = grants + 1 /\ UNCHANGED lease /\ tx' = [tx EXCEPT ![s] = t]
  BY DEF Grant
<1>2. t.op = "claim" /\ t.pc = "commit" /\ t.held = tx[s].held /\ t.waits = NoKey /\ t.lrow = new
  BY Statement DEF Txs, Seeker
<1>3. new.id = grants + 1 /\ grants \in Nat
  BY DEF LockInv, Shape
<1>. HIDE DEF t, new
<1>4. tx'[s] = t /\ \A r \in Sessions \ {s} : tx'[r] = tx[r]
  BY <1>1 DEF LockInv, Shape
<1>5. Claims' = Claims /\ Seeking' = Seeking \ {s} /\ s \in Seeking
  BY <1>2, <1>4 DEF Claims, Seeking, Seeker
<1>6. Cardinality(Seeking \ {s}) = Cardinality(Seeking) - 1
  BY <1>5, ClaimsCounted, FS_RemoveElement
<1>7. grants' + Cardinality(Seeking') <= MaxGrants
  BY <1>1, <1>3, <1>5, <1>6, ClaimsCounted, TxAssumption DEF KeyInv
<1>8. ASSUME NEW r \in Sessions
      PROVE  KnownKeys(tx[r])'
  <2>1. tx[r] \in Txs /\ KnownKeys(tx[r]) /\ KnownKeys(tx[s]) /\ tx[s] \in Txs
    BY Statement DEF KeyInv
  <2>2. CASE r = s
    BY <1>1, <1>2, <1>3, <1>4, <2>1, <2>2 DEF KnownKeys, Txs
  <2>3. CASE r # s
    BY <1>1, <1>3, <1>4, <2>1, <2>3, Markers DEF KnownKeys, Txs, Leases
  <2>. QED  BY <2>2, <2>3
<1>9. lease' # NoLease => lease'.id <= grants'
  BY <1>1, <1>3 DEF KeyInv, LockInv, Shape, Leases
<1>. QED  BY <1>5, <1>7, <1>8, <1>9 DEF KeyInv

LEMMA KeysClaim ==
    ASSUME LockInv, KeyInv, NEW s \in Sessions, Select(s) \/ Insert(s)
    PROVE  KeyInv'
<1>1. Seeker(tx[s])
  BY DEF Select, Insert, At, Seeker
<1>2. CASE Become(s, Having(s, TaskKey, "insert"))
  <2>1. TaskKey \in Nat /\ Exists(TaskKey) /\ "insert" \in Steps
    BY DEF TaskKey, Exists, Steps
  <2>2. KnownKeys(Having(s, TaskKey, "insert")) /\ Having(s, TaskKey, "insert").op = tx[s].op
    BY <2>1, KeysHaving, HavingIs
  <2>. QED  BY <1>1, <1>2, <2>2, KeysStatement
<1>. QED
  BY <1>1, <1>2, KeysRollback, KeysBlock, KeysGrant DEF Select, Insert

LEMMA KeysWrite ==
    ASSUME LockInv, KeyInv, NEW s \in Sessions, Write(s)
    PROVE  KeyInv'
<1>1. CASE Become(s, Written(s))
  <2>1. tx[s].pc = "write"
    BY DEF Write
  <2>2. /\ Written(s).op = tx[s].op
        /\ Written(s).pc \in {"release", "commit"}
        /\ Written(s).held = tx[s].held \cup {TaskKey}
        /\ Written(s).lrow \in {NoLease, tx[s].lrow}
        /\ Written(s).waits = NoKey
    BY <2>1, WrittenIs
  <2>3. TaskKey <= grants
    BY DEF TaskKey, LockInv, Shape
  <2>4. KnownKeys(Written(s)) /\ ~Seeker(Written(s))
    BY <2>2, <2>3, Markers DEF KeyInv, KnownKeys, Seeker
  <2>. QED  BY <1>1, <2>2, <2>4, KeysStatement
<1>. QED  BY <1>1, KeysBlock DEF Write

LEMMA KeysDelete ==
    ASSUME LockInv, KeyInv, NEW s \in Sessions, Delete(s)
    PROVE  KeyInv'
<1>1. Exists(Doomed(s)) => Doomed(s) <= grants
  BY DEF Exists, KeyInv, TaskKey, LockInv, Shape
<1>2. ASSUME NEW t, Become(s, t), t.op = tx[s].op, t.pc \in {"commit", "recheck"},
             t.waits = NoKey,
             \/ t.held = tx[s].held
             \/ Exists(Doomed(s)) /\ t.held = tx[s].held \cup {Doomed(s)},
             t.lrow = NoLease \/ t.lrow = tx[s].lrow
      PROVE  KeyInv'
  <2>1. KnownKeys(t) /\ ~Seeker(t)
    BY <1>1, <1>2, Markers DEF KeyInv, KnownKeys, Seeker
  <2>. QED  BY <1>2, <2>1, KeysStatement
<1>. QED  BY <1>2, DeleteIs, KeysBlock

LEMMA KeysCommit ==
    ASSUME LockInv, KeyInv, NEW s \in Sessions, Commit(s)
    PROVE  KeyInv'
<1>1. /\ lease' = IF tx[s].lrow = Keep THEN lease ELSE tx[s].lrow
      /\ tx' = [tx EXCEPT ![s] = Idle] /\ grants' = grants
  BY DEF Commit
<1>2. tx[s] \in Txs /\ KnownKeys(tx[s])
  BY Statement DEF KeyInv
<1>3. lease' = NoLease \/ lease'.id <= grants
  BY <1>1, <1>2 DEF KeyInv, KnownKeys, Txs
<1>. QED  BY <1>1, <1>3, IdleKeys, KeysBecome

LEMMA KeyStep ==
    ASSUME LockInv, KeyInv, [Next]_vars
    PROVE  KeyInv'
<1>1. ASSUME NEW s \in Sessions, Work(s)
      PROVE  KeyInv'
  BY <1>1, KeysUnlocked, KeysLockLease, KeysClaim, KeysWrite, KeysDelete, KeysCommit DEF Work
<1>2. CASE Expire
  <2>1. /\ lease # NoLease /\ lease' = [lease EXCEPT !.live = FALSE] /\ lease \in Leases
        /\ UNCHANGED <<grants, tx>>
    BY <1>2 DEF Expire, LockInv, Shape
  <2>2. lease'.id = lease.id
    BY <2>1 DEF Leases
  <2>. QED  BY <2>1, <2>2 DEF KeyInv, KnownKeys, Claims, Seeking
<1>3. CASE UNCHANGED vars
  BY <1>3 DEF vars, KeyInv, KnownKeys, Claims, Seeking
<1>. QED  BY <1>1, <1>2, <1>3, KeysBegin, KeysRollback DEF Next, Victim, CutOff

LEMMA KeyCorrect == Spec => []KeyInv
BY KeyInit, KeyStep, LockCorrect, PTL DEF Spec

\* The rows a transaction is about to commit are rows of the tables.
LEMMA RowsTyped ==
    ASSUME LockInv, EffectInv, RetryInv, NEW s \in Sessions
    PROVE  tx[s].row \in TaskRow \cup {Keep}
<1>1. /\ tx[s] \in Txs /\ Guarded(tx[s]) /\ Effect(tx[s]) /\ OwnRetry(tx[s])
      /\ task.attempt \in Nat /\ task.attempt < MaxAttempts
  BY Statement DEF EffectInv, RetryInv, Counted, LockInv, Shape, Tasks
<1>2. ASSUME tx[s].row # Keep
      PROVE  tx[s].row \in Tasks /\ tx[s].row.attempt < MaxAttempts
  <2>1. tx[s].pc = "commit" /\ tx[s].row \in Tasks
    BY <1>1, <1>2 DEF Effect, Txs
  <2>2. CASE tx[s].row.status = "queued"
    <3>1. tx[s].op = "fail" /\ tx[s].requeue /\ tx[s].row.attempt = task.attempt + 1
      BY <1>1, <1>2, <2>1, <2>2 DEF OwnRetry
    <3>2. lease # NoLease /\ lease.id = tx[s].grant
      BY <1>1, <2>1, <3>1 DEF Guarded, UnderLease, HoldsLease
    <3>. QED  BY <1>1, <2>1, <3>1, <3>2 DEF OwnRetry
  <2>3. CASE tx[s].row.status # "queued"
    BY <1>1, <1>2, <2>1, <2>3 DEF OwnRetry
  <2>. QED  BY <2>2, <2>3
<1>3. ASSUME NEW row \in Tasks, row.attempt < MaxAttempts
      PROVE  row \in TaskRow
  <2>1. /\ row = [status |-> row.status, attempt |-> row.attempt]
        /\ row.status \in Statuses /\ row.attempt \in 0..(MaxAttempts - 1)
    BY <1>3, TxAssumption DEF Tasks
  <2>. QED  BY <2>1 DEF TaskRow, Statuses
<1>. QED  BY <1>2, <1>3

\* What the sessions hold, wait for and write are rows the tables have or will have,
\* and no row gets an attempt beyond max_attempts - 1, whatever handlers but the sweep
\* run in any number of concurrent transactions.
THEOREM TypeCorrect ==
    ASSUME "sweep" \notin Operations
    PROVE  Spec => []TypeOK
<1>1. ASSUME LockInv, EffectInv, RetryInv, KeyInv
      PROVE  TypeOK
  <2>1. grants \in 0..MaxGrants
    BY <1>1, ClaimsCounted, TxAssumption DEF KeyInv, LockInv, Shape
  <2>2. Leases \subseteq LeaseRow
    BY DEF Leases, LeaseRow
  <2>3. task \in TaskRow
    <3>1. /\ task = [status |-> task.status, attempt |-> task.attempt]
          /\ task.status \in Statuses /\ task.attempt \in 0..(MaxAttempts - 1)
      BY <1>1, TxAssumption DEF LockInv, Shape, Tasks, RetryInv, Counted
    <3>. QED  BY <3>1 DEF TaskRow, Statuses
  <2>4. ASSUME NEW s \in Sessions
        PROVE  tx[s] \in Transaction
    <3>1. tx[s] \in Txs /\ KnownKeys(tx[s])
      BY <1>1, Statement DEF KeyInv
    <3>2. tx[s].held \in SUBSET (0..MaxGrants)
      <4>1. tx[s].held \in SUBSET Nat
        BY <3>1 DEF Txs
      <4>2. ASSUME NEW key \in tx[s].held
            PROVE  key \in 0..MaxGrants
        <5>1. key \in Nat /\ key <= grants
          BY <3>1, <4>1 DEF KnownKeys
        <5>. QED  BY <2>1, <5>1, TxAssumption
      <4>. QED  BY <4>2
    <3>3. tx[s].waits \in 0..NoKey
      BY <2>1, <3>1, TxAssumption DEF KnownKeys, Txs, NoKey
    <3>4. tx[s].row \in TaskRow \cup {Keep}
      BY <1>1, RowsTyped
    <3>5. tx[s].lrow \in LeaseRow \cup {NoLease, Keep}
      BY <2>2, <3>1 DEF Txs
    <3>. QED  BY <3>1, <3>2, <3>3, <3>4, <3>5 DEF Txs, Transaction
  <2>. QED  BY <1>1, <2>1, <2>2, <2>3, <2>4 DEF TypeOK, LockInv, Shape
<1>2. LockInv /\ EffectInv /\ RetryInv /\ KeyInv => TypeOK
  BY <1>1
<1>. QED  BY <1>2, LockCorrect, RetryAlways, KeyCorrect, PTL
===============================================================================
