-------------------------------- MODULE Custody --------------------------------
(***************************************************************************)
(* One task between the database and ReceiptGate, in integrated mode.      *)
(*                                                                         *)
(* A handler posts its receipt before its transaction commits            *)
(* (core.py:_emit_receipt), holding the rows it has written; ReceiptGate   *)
(* decides who is custodian.  The outbox is reduced to what module Outbox  *)
(* shows of it, the statements of a transaction to what module TaskTx does *)
(* not already cover: the post in the middle.                              *)
(***************************************************************************)
EXTENDS Naturals, FiniteSets

CONSTANTS
    Workers,
    Owner,          \* the principal that created the task and may cancel it
    Nobody,
    MaxAttempts,    \* max_attempts of the task
    MaxFaults,      \* bound: posts that fail, transactions that die, restarts
    MaxRounds       \* bound: calls of reconcile_worker

ASSUME CustodyAssumption ==
    /\ IsFiniteSet(Workers)
    /\ Owner \notin Workers
    /\ Nobody \notin Workers \cup {Owner}
    /\ MaxAttempts \in Nat \ {0}
    /\ {MaxFaults, MaxRounds} \subseteq Nat

VARIABLES
    row,       \* the task and its lease, as committed
    tx,        \* the transaction that is posting; the rows it wrote are locked
    ledger,    \* ReceiptGate: who is custodian, how the obligation was closed
    outbox,    \* completions waiting to be replayed
    rec,       \* the call of reconcile_worker
    finisher,  \* whose report made the row terminal
    doubted,   \* a completion's answer was not waited for, or reconcile_worker
               \* reopened a finished task
    unwritten, \* some completion was committed although it could not be buffered
    faults,
    rounds

vars == <<row, tx, ledger, outbox, rec, finisher, doubted, unwritten, faults, rounds>>

Outcomes == {"succeeded", "failed", "canceled"}

\* Lease ids are UUIDs: a new one differs from those in use.
LeaseIds == 1..2
NoLease  == 0

Rows      == [status : Outcomes \cup {"queued", "held"}, holder : Workers \cup {Nobody},
              lease : LeaseIds \cup {NoLease}, attempt : 0..MaxAttempts - 1]
Receipts  == [from : Workers \cup {Owner}, type : Outcomes \cup {"accepted"}]
Posting   == [receipt : Receipts, at : {"posting", "decided"}]
NoTx      == [at |-> "none"]
Verdicts  == {"success", "failure", "canceled"}
Proposals == [for : Workers \cup {Owner}, phase : {"accepted", "complete"},
              status : Verdicts \cup {"NA"}]
Waiting   == [proposal : Proposals, saved : BOOLEAN]
Rounds    == [at : {"read", "listed", "settling"}, worker : Workers, owed : BOOLEAN,
              lease : LeaseIds \cup {NoLease}]
NoRound   == [at |-> "none"]

Init ==
    /\ row = [status |-> "queued", holder |-> Nobody, lease |-> NoLease, attempt |-> 0]
    /\ tx = NoTx
    /\ ledger = [custodian |-> Nobody, closed |-> "open"]
    /\ outbox = {}
    /\ rec = NoRound
    /\ finisher = Nobody
    /\ doubted = FALSE
    /\ unwritten = FALSE
    /\ faults = 0
    /\ rounds = 0

Terminal == row.status \in Outcomes
Faulty   == faults < MaxFaults /\ faults' = faults + 1

----------------------------------------------------------------------------
(* The receipt as ReceiptGate sees it *)

Verdict == [succeeded |-> "success", failed |-> "failure", canceled |-> "canceled"]

ToProposalUnlabelled(receipt) ==    \* mutant: failures reach the last line as well
    [for    |-> receipt.from,
     phase  |-> IF receipt.type = "accepted" THEN "accepted" ELSE "complete",
     status |-> IF receipt.type = "accepted" THEN "NA" ELSE "success"]

\* to_memorygate_receipt: the sender of a receipt is the custodian it speaks for; of a
\* cancellation that is the owner.
ToProposal(receipt) ==
    [for    |-> receipt.from,
     phase  |-> IF receipt.type = "accepted" THEN "accepted" ELSE "complete",
     status |-> IF receipt.type = "accepted" THEN "NA" ELSE Verdict[receipt.type]]

\* _phase_may_buffer
MayBuffer(p) == p.phase = "complete"

TypeOK ==
    /\ row \in Rows
    /\ row.holder = Nobody <=> row.lease = NoLease
    /\ tx \in Posting \cup {NoTx}
    /\ ledger \in [custodian : Workers \cup {Nobody}, closed : Verdicts \cup {"open"}]
    /\ outbox \subseteq Waiting
    /\ \A item \in outbox : MayBuffer(item.proposal)
    /\ rec \in Rounds \cup {NoRound}
    /\ finisher \in Workers \cup {Owner, Nobody}
    /\ {doubted, unwritten} \subseteq BOOLEAN
    /\ faults \in 0..MaxFaults
    /\ rounds \in 0..MaxRounds

----------------------------------------------------------------------------
(* ReceiptGate *)

\* The first acceptance makes the custodian; only the custodian can close.
Admissible(p) ==
    /\ ledger.closed = "open"
    /\ ledger.custodian = IF p.phase = "accepted" THEN Nobody ELSE p.for

Received(p) ==
    ledger' = IF ~Admissible(p) THEN ledger
              ELSE IF p.phase = "accepted" THEN [ledger EXCEPT !.custodian = p.for]
              ELSE [ledger EXCEPT !.closed = p.status]

----------------------------------------------------------------------------
(* Transactions that post *)

BeginPost(from, type) ==
    /\ tx = NoTx
    /\ tx' = [receipt |-> [from |-> from, type |-> type], at |-> "posting"]
    /\ UNCHANGED <<row, ledger, outbox, rec, finisher, doubted, unwritten, faults, rounds>>

\* lease_next.  A lease row left behind makes its insert fail (uq_lease_task).
LeaseNext(w) ==
    /\ row.status = "queued"
    /\ row.lease = NoLease
    /\ BeginPost(w, "accepted")

Complete(w) ==
    /\ row.holder = w
    /\ row.status = "held"
    /\ BeginPost(w, "succeeded")

\* fail does not look at the status.
FailTerminal(w) ==
    /\ row.holder = w
    /\ BeginPost(w, "failed")

CancelTask ==
    /\ ~Terminal
    /\ BeginPost(Owner, "canceled")

PostAnsweredStrictly ==    \* mutant: a refusal fails the transaction as well
    /\ tx.at = "posting"
    /\ Received(ToProposal(tx.receipt))
    /\ tx' = IF Admissible(ToProposal(tx.receipt)) THEN [tx EXCEPT !.at = "decided"] ELSE NoTx
    /\ UNCHANGED <<row, outbox, rec, finisher, doubted, unwritten, faults, rounds>>

\* Accepted or refused: _emit_receipt looks for "buffered" only.
PostAnswered ==
    /\ tx.at = "posting"
    /\ Received(ToProposal(tx.receipt))
    /\ tx' = [tx EXCEPT !.at = "decided"]
    /\ UNCHANGED <<row, outbox, rec, finisher, doubted, unwritten, faults, rounds>>

\* The post fails, its answer is lost, or the breaker is open: nothing is known.
Unanswered == Received(ToProposal(tx.receipt)) \/ UNCHANGED ledger

PostFailedAcceptanceKept ==    \* mutant: ReceiptUnbufferable is only logged
    /\ tx.at = "posting"
    /\ ~MayBuffer(ToProposal(tx.receipt))
    /\ Faulty
    /\ Unanswered
    /\ tx' = [tx EXCEPT !.at = "decided"]
    /\ UNCHANGED <<row, outbox, rec, finisher, doubted, unwritten, rounds>>

\* ReceiptUnbufferable rolls the claim back.
AcceptanceFailed ==
    /\ tx.at = "posting"
    /\ ~MayBuffer(ToProposal(tx.receipt))
    /\ Faulty
    /\ Unanswered
    /\ tx' = NoTx
    /\ UNCHANGED <<row, outbox, rec, finisher, doubted, unwritten, rounds>>

Put(saved) == outbox' = outbox \cup {[proposal |-> ToProposal(tx.receipt), saved |-> saved]}

CompletionBufferedKept ==    \* mutant: "buffered" is taken for an answer
    /\ tx.at = "posting"
    /\ MayBuffer(ToProposal(tx.receipt))
    /\ Faulty
    /\ Unanswered
    /\ Put(TRUE)
    /\ doubted' = TRUE
    /\ tx' = [tx EXCEPT !.at = "decided"]
    /\ UNCHANGED <<row, rec, finisher, unwritten, rounds>>

\* ReceiptNotYetCommitted rolls the completion back.
CompletionBuffered ==
    /\ tx.at = "posting"
    /\ MayBuffer(ToProposal(tx.receipt))
    /\ Faulty
    /\ Unanswered
    /\ Put(TRUE)
    /\ doubted' = TRUE
    /\ tx' = NoTx
    /\ UNCHANGED <<row, rec, finisher, unwritten, rounds>>

\* The buffer file cannot be written: emit_receipt raises, with the receipt in the
\* buffer, and _emit_receipt warns and goes on.
CompletionUnwritten ==
    /\ tx.at = "posting"
    /\ MayBuffer(ToProposal(tx.receipt))
    /\ Faulty
    /\ Unanswered
    /\ Put(FALSE)
    /\ doubted' = TRUE
    /\ unwritten' = TRUE
    /\ tx' = [tx EXCEPT !.at = "decided"]
    /\ UNCHANGED <<row, rec, finisher, rounds>>

FreshLease == CHOOSE id \in LeaseIds : rec = NoRound \/ rec.lease # id

Commit ==
    /\ tx.at = "decided"
    /\ tx' = NoTx
    /\ IF tx.receipt.type = "accepted"
       THEN /\ row' = [row EXCEPT !.status = "held", !.holder = tx.receipt.from,
                                  !.lease = FreshLease]
            /\ UNCHANGED finisher
       ELSE /\ row' = [row EXCEPT !.status = tx.receipt.type, !.holder = Nobody,
                                  !.lease = NoLease]
            /\ finisher' = tx.receipt.from
    /\ UNCHANGED <<ledger, outbox, rec, doubted, unwritten, faults, rounds>>

\* The transaction dies after its post: the connection is lost, or a later task of
\* the same lease_next fails.
Abort ==
    /\ tx.at = "decided"
    /\ Faulty
    /\ tx' = NoTx
    /\ doubted' = (doubted \/ tx.receipt.type # "accepted")
    /\ UNCHANGED <<row, ledger, outbox, rec, finisher, unwritten, rounds>>

----------------------------------------------------------------------------
(* Transactions that do not post *)

MayRetryOneMore == row.attempt < MaxAttempts    \* mutant: off by one
MayRetry        == row.attempt + 1 < MaxAttempts

\* fail with a retry left: task.retry_scheduled is not for ReceiptGate.
FailRetry(w) ==
    /\ tx = NoTx
    /\ row.holder = w
    /\ MayRetry
    /\ row' = [status |-> "queued", holder |-> Nobody, lease |-> NoLease,
               attempt |-> row.attempt + 1]
    /\ UNCHANGED <<tx, ledger, outbox, rec, finisher, doubted, unwritten, faults, rounds>>

\* The lease expires and expire_leases finds it; neither is lease.expired.
ExpireLease ==
    /\ tx = NoTx
    /\ row.status = "held"
    /\ row' = [row EXCEPT !.status = "queued", !.holder = Nobody, !.lease = NoLease]
    /\ UNCHANGED <<tx, ledger, outbox, rec, finisher, doubted, unwritten, faults, rounds>>

----------------------------------------------------------------------------
(* The outbox *)

Replay(item) ==
    /\ item \in outbox
    /\ Received(item.proposal)
    /\ outbox' = outbox \ {item} \/ UNCHANGED outbox
    /\ UNCHANGED <<row, tx, rec, finisher, doubted, unwritten, faults, rounds>>

\* Refused, or not delivered, max_retries times, or evicted.
GiveUp(item) ==
    /\ item \in outbox
    /\ outbox' = outbox \ {item}
    /\ UNCHANGED <<row, tx, ledger, rec, finisher, doubted, unwritten, faults, rounds>>

Restart ==
    /\ Faulty
    /\ IF tx.at = "posting" THEN Unanswered ELSE UNCHANGED ledger
    /\ outbox' = {item \in outbox : item.saved}
    /\ tx' = NoTx
    /\ rec' = NoRound
    /\ doubted' = (doubted \/ tx # NoTx)
    /\ UNCHANGED <<row, finisher, unwritten, rounds>>

----------------------------------------------------------------------------
(* reconcile_worker: reads without a lock, one transaction *)

ListCustody(w) ==
    /\ rec = NoRound
    /\ rounds < MaxRounds
    /\ rounds' = rounds + 1
    /\ rec' = [at |-> "read", worker |-> w, lease |-> NoLease,
               owed |-> ledger.custodian = w /\ ledger.closed = "open"]
    /\ UNCHANGED <<row, tx, ledger, outbox, finisher, doubted, unwritten, faults>>

ListLeases ==
    /\ rec.at = "read"
    /\ rec' = IF row.holder = rec.worker /\ ~rec.owed
              THEN [rec EXCEPT !.at = "listed", !.lease = row.lease]
              ELSE NoRound
    /\ UNCHANGED <<row, tx, ledger, outbox, finisher, doubted, unwritten, faults, rounds>>

\* The DELETE waits for whoever has locked the lease row.  What follows it is one
\* step with it, since every other writer of the task waits for that row too; it is
\* not if there is no such row any more.
ReleaseStale ==
    /\ rec.at = "listed"
    /\ IF row.lease = rec.lease
       THEN /\ tx = NoTx
            /\ row' = [row EXCEPT !.status = "queued", !.holder = Nobody, !.lease = NoLease]
            /\ rec' = NoRound
       ELSE /\ rec' = IF Terminal THEN NoRound ELSE [rec EXCEPT !.at = "settling"]
            /\ UNCHANGED row
    /\ UNCHANGED <<tx, ledger, outbox, finisher, doubted, unwritten, faults, rounds>>

\* update_status to QUEUED, whatever the row is by now.
Settle ==
    /\ rec.at = "settling"
    /\ tx = NoTx
    /\ row' = [row EXCEPT !.status = "queued"]
    /\ finisher' = Nobody
    /\ rec' = NoRound
    /\ doubted' = (doubted \/ Terminal)
    /\ UNCHANGED <<tx, ledger, outbox, unwritten, faults, rounds>>

----------------------------------------------------------------------------

PostEnds == PostAnswered \/ AcceptanceFailed \/ CompletionBuffered \/ CompletionUnwritten
Claim    == \E w \in Workers : LeaseNext(w)
Report   == \E w \in Workers : Complete(w) \/ FailTerminal(w)
Next ==
    \/ Claim \/ Report \/ CancelTask
    \/ PostEnds \/ Commit \/ Abort
    \/ (\E w \in Workers : FailRetry(w)) \/ ExpireLease
    \/ (\E item \in outbox : Replay(item) \/ GiveUp(item))
    \/ Restart
    \/ (\E w \in Workers : ListCustody(w)) \/ ListLeases \/ ReleaseStale \/ Settle

\* A post has a timeout and a transaction ends.  Workers poll, and of those who get
\* the task again and again, one reports before its lease expires.
Fairness ==
    /\ WF_vars(PostEnds)
    /\ WF_vars(Commit \/ Abort)
    /\ WF_vars(Claim)
    /\ SF_vars(Report)

Spec == Init /\ [][Next]_vars /\ Fairness

----------------------------------------------------------------------------
(* Properties *)

\* No worker holds a lease on a task nobody was ever made custodian of: a claim
\* whose post failed, or whose transaction was cut off by a restart, leaves none,
\* also when reconcile_worker and expiry run in between.
HeldIsAccepted == row.holder # Nobody => ledger.custodian # Nobody

\* When the custodian's own report has made the task terminal here, ReceiptGate has
\* closed the obligation: no report takes effect on the word of the outbox, which
\* may yet give it up.  The exception is a buffer file that could not be written.
NoForgottenClosure ==
    finisher # Nobody /\ finisher = ledger.custodian /\ ~unwritten => ledger.closed # "open"

\* Database and ReceiptGate tell different outcomes only if the answer to some
\* completion was not known when its transaction ended, or reconcile_worker reopened
\* the task.  Expiry, refusals and cancellation alone never make them differ.
OutcomesAgree ==
    Terminal /\ ledger.closed # "open" /\ ~doubted => ledger.closed = Verdict[row.status]

\* reconcile_worker has put a task back in the queue whose lease row it left.
Wedged == row.status = "queued" /\ row.holder # Nobody

\* The task ends, whatever ReceiptGate thinks of its worker: it does not wait for a
\* custodian that is gone.  (Unless reconcile_worker has wedged it.)
TaskEnds == [](~Wedged) => <>[]Terminal

(* What the code says and does not do *)

\* Acceptance "cannot be decided locally": who gets the lease is the custodian
\* ReceiptGate has made, of an obligation that is still open.
CustodyConferred ==
    [][row'.lease \notin {row.lease, NoLease} =>
          ledger.custodian = row'.holder /\ ledger.closed = "open"]_vars
=============================================================================
