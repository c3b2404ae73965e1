---------------------------- MODULE Custody_proofs ----------------------------
(***************************************************************************)
(* What TLAPS proves of Custody, for any number of workers, attempts,      *)
(* failures and calls of reconcile_worker.                                 *)
(***************************************************************************)
EXTENDS Custody, TLAPS

\* An acceptance is posted for a worker: only lease_next posts one.
AcceptedByWorkers ==
    tx # NoTx /\ tx.receipt.type = "accepted" => tx.receipt.from \in Workers

LEMMA Principals ==
    /\ Owner \notin Workers /\ Nobody \notin Workers /\ Nobody # Owner
    /\ MaxAttempts \in Nat /\ MaxAttempts >= 1
    /\ MaxFaults \in Nat /\ MaxRounds \in Nat
BY CustodyAssumption

TypedTx == TypeOK /\ AcceptedByWorkers

\* The transaction that is posting, taken apart.
LEMMA PostingTx ==
    ASSUME TypedTx, tx.at \in {"posting", "decided"}
    PROVE  /\ tx # NoTx
           /\ tx \in Posting
           /\ tx.receipt \in Receipts
           /\ tx.receipt.type = "accepted" => tx.receipt.from \in Workers
           /\ tx.receipt.type # "accepted" => tx.receipt.type \in Outcomes
BY DEF TypedTx, TypeOK, AcceptedByWorkers, NoTx, Posting, Receipts

\* What a receipt becomes on its way to ReceiptGate.
LEMMA Proposal ==
    ASSUME NEW receipt \in Receipts
    PROVE  /\ ToProposal(receipt) \in Proposals
           /\ ToProposal(receipt).for = receipt.from
           /\ ToProposal(receipt).phase =
                  IF receipt.type = "accepted" THEN "accepted" ELSE "complete"
           /\ ToProposal(receipt).phase = "complete" =>
                  ToProposal(receipt).status \in Verdicts
<1>1. CASE receipt.type = "accepted"
  BY <1>1 DEF ToProposal, Receipts, Proposals
<1>2. CASE receipt.type \in Outcomes
  <2>1. Verdict[receipt.type] \in Verdicts /\ receipt.type # "accepted"
    BY <1>2 DEF Verdict, Verdicts, Outcomes
  <2>. QED  BY <2>1 DEF ToProposal, Receipts, Proposals
<1>. QED  BY <1>1, <1>2 DEF Receipts

\* A proposal that makes a custodian makes one of the workers.
Sound(p) ==
    /\ p \in Proposals
    /\ p.phase = "accepted" => p.for \in Workers
    /\ p.phase = "complete" => p.status \in Verdicts

LEMMA TxProposal ==
    ASSUME TypedTx, tx.at \in {"posting", "decided"}
    PROVE  Sound(ToProposal(tx.receipt))
BY PostingTx, Proposal DEF Sound

----------------------------------------------------------------------------
(* ReceiptGate *)

LedgerType == ledger \in [custodian : Workers \cup {Nobody}, closed : Verdicts \cup {"open"}]

\* A custodian stays, a closed obligation stays closed.
LEMMA LedgerReceives ==
    ASSUME LedgerType, NEW p, Sound(p), Received(p)
    PROVE  /\ LedgerType'
           /\ ledger.custodian # Nobody => ledger'.custodian = ledger.custodian
           /\ ledger.closed # "open" => ledger'.closed = ledger.closed
           /\ (ledger.closed # "open" => ledger.custodian # Nobody) =>
              (ledger'.closed # "open" => ledger'.custodian # Nobody)
<1>1. CASE ~Admissible(p)
  BY <1>1 DEF Received, LedgerType
<1>2. CASE Admissible(p) /\ p.phase = "accepted"
  BY <1>2, Principals DEF Received, Admissible, Sound, LedgerType
<1>3. CASE Admissible(p) /\ p.phase # "accepted"
  <2>1. p.phase = "complete"
    BY <1>3 DEF Sound, Proposals
  <2>2. p.for # Nobody
    BY Principals DEF Sound, Proposals
  <2>. QED  BY <1>3, <2>1, <2>2 DEF Received, Admissible, Sound, LedgerType
<1>. QED  BY <1>1, <1>2, <1>3

\* In an obligation that is not open, or has a custodian, an acceptance changes
\* nothing; with neither it makes one.
LEMMA AcceptanceReceived ==
    ASSUME LedgerType, NEW p, Sound(p), p.phase = "accepted", Received(p),
           ledger.closed # "open" => ledger.custodian # Nobody
    PROVE  ledger'.custodian # Nobody
BY Principals DEF Received, Admissible, Sound, LedgerType

\* An obligation is open after its custodian's completion was received only if the
\* completion is not the custodian's.
LEMMA CompletionReceived ==
    ASSUME LedgerType, NEW p, Sound(p), p.phase = "complete", Received(p),
           p.for = ledger.custodian
    PROVE  ledger'.closed # "open"
BY DEF Received, Admissible, Sound, LedgerType, Verdicts

----------------------------------------------------------------------------
(* Type correctness *)

\* What waits in the outbox are completions.
OutboxSound == \A item \in outbox : Sound(item.proposal) /\ item.proposal.phase = "complete"

Typed == TypedTx /\ OutboxSound

LEMMA TypeInit == Init => Typed
<1> SUFFICES ASSUME Init PROVE Typed
  OBVIOUS
<1>1. row \in Rows
  BY Principals DEF Init, Rows
<1>2. row.holder = Nobody /\ row.lease = NoLease
  BY DEF Init
<1>3. {doubted, unwritten} \subseteq BOOLEAN
  BY DEF Init
<1>4. /\ tx \in Posting \cup {NoTx} /\ rec \in Rounds \cup {NoRound}
      /\ outbox = {} /\ finisher = Nobody
      /\ AcceptedByWorkers
  BY DEF Init, AcceptedByWorkers
<1>5. ledger \in [custodian : Workers \cup {Nobody}, closed : Verdicts \cup {"open"}]
  BY DEF Init
<1>6. faults \in 0..MaxFaults /\ rounds \in 0..MaxRounds
  BY Principals DEF Init
<1>. QED  BY <1>1, <1>2, <1>3, <1>4, <1>5, <1>6 DEF Typed, TypedTx, TypeOK, OutboxSound

LEMMA BeginPostTyped ==
    ASSUME Typed, NEW from \in Workers \cup {Owner}, NEW type \in Outcomes \cup {"accepted"},
           type = "accepted" => from \in Workers, BeginPost(from, type)
    PROVE  Typed'
<1>1. tx' \in Posting
  BY DEF BeginPost, Posting, Receipts
<1>. QED  BY <1>1 DEF Typed, TypedTx, TypeOK, AcceptedByWorkers, OutboxSound, BeginPost

\* The steps that end a transaction or leave it where it is.
LEMMA TxTyped ==
    ASSUME TypedTx, \/ tx' = tx
                    \/ tx' = NoTx
                    \/ tx.at = "posting" /\ tx' = [tx EXCEPT !.at = "decided"]
    PROVE  tx' \in Posting \cup {NoTx} /\ AcceptedByWorkers'
<1>1. CASE tx' = tx \/ tx' = NoTx
  BY <1>1 DEF TypedTx, TypeOK, AcceptedByWorkers
<1>2. CASE tx.at = "posting" /\ tx' = [tx EXCEPT !.at = "decided"]
  <2>1. tx \in Posting /\ (tx.receipt.type = "accepted" => tx.receipt.from \in Workers)
    BY <1>2, PostingTx
  <2>2. tx' \in Posting
    BY <1>2, <2>1 DEF Posting
  <2>3. tx'.receipt = tx.receipt
    BY <1>2, <2>1 DEF Posting
  <2>. QED  BY <2>1, <2>2, <2>3 DEF AcceptedByWorkers
<1>. QED  BY <1>1, <1>2

\* The steps that lose items of the outbox or put the completion posted into it.
LEMMA OutboxTyped ==
    ASSUME Typed, \/ outbox' \subseteq outbox
                  \/ \E saved \in BOOLEAN :
                        /\ tx.at = "posting"
                        /\ MayBuffer(ToProposal(tx.receipt))
                        /\ Put(saved)
    PROVE  /\ outbox' \subseteq Waiting
           /\ \A item \in outbox' : MayBuffer(item.proposal)
           /\ OutboxSound'
<1>1. CASE outbox' \subseteq outbox
  BY <1>1 DEF Typed, TypedTx, TypeOK, OutboxSound
<1>2. ASSUME NEW saved \in BOOLEAN, tx.at = "posting",
             MayBuffer(ToProposal(tx.receipt)), Put(saved)
      PROVE  /\ outbox' \subseteq Waiting
             /\ \A item \in outbox' : MayBuffer(item.proposal)
             /\ OutboxSound'
  <2>1. Sound(ToProposal(tx.receipt))
    BY <1>2, TxProposal DEF Typed
  <2>2. \A item \in outbox' : item \in outbox \/ item.proposal = ToProposal(tx.receipt)
    BY <1>2 DEF Put
  <2>3. outbox' \subseteq Waiting
    BY <1>2, <2>1 DEF Put, Waiting, Typed, TypedTx, TypeOK, Sound
  <2>. QED  BY <1>2, <2>1, <2>2, <2>3 DEF Typed, TypedTx, TypeOK, OutboxSound, MayBuffer, Sound
<1>. QED  BY <1>1, <1>2

LEMMA LedgerTyped ==
    ASSUME Typed, \/ UNCHANGED ledger
                  \/ tx.at = "posting" /\ Received(ToProposal(tx.receipt))
                  \/ \E item \in outbox : Received(item.proposal)
    PROVE  /\ LedgerType'
           /\ ledger.custodian # Nobody => ledger'.custodian = ledger.custodian
           /\ ledger.closed # "open" => ledger'.closed = ledger.closed
           /\ (ledger.closed # "open" => ledger.custodian # Nobody) =>
              (ledger'.closed # "open" => ledger'.custodian # Nobody)
<1>1. LedgerType
  BY DEF Typed, TypedTx, TypeOK, LedgerType
<1>2. CASE UNCHANGED ledger
  BY <1>1, <1>2 DEF LedgerType
<1>3. CASE tx.at = "posting" /\ Received(ToProposal(tx.receipt))
  BY <1>1, <1>3, TxProposal, LedgerReceives DEF Typed
<1>4. CASE \E item \in outbox : Received(item.proposal)
  BY <1>1, <1>4, LedgerReceives DEF Typed, OutboxSound
<1>. QED  BY <1>2, <1>3, <1>4

\* What the steps do to each variable.
Actions ==
    \/ \E w \in Workers : \/ LeaseNext(w) \/ Complete(w) \/ FailTerminal(w)
                          \/ FailRetry(w) \/ ListCustody(w)
    \/ CancelTask
    \/ PostAnswered \/ AcceptanceFailed \/ CompletionBuffered \/ CompletionUnwritten
    \/ Commit \/ Abort \/ ExpireLease
    \/ \E item \in outbox : Replay(item) \/ GiveUp(item)
    \/ Restart \/ ListLeases \/ ReleaseStale \/ Settle

LEMMA NextActions == Next <=> Actions
BY DEF Next, Actions, Claim, Report, PostEnds

LEMMA TxStep ==
    ASSUME Typed, Next
    PROVE  tx' \in Posting \cup {NoTx} /\ AcceptedByWorkers'
<1>1. ASSUME NEW w \in Workers, LeaseNext(w) \/ Complete(w) \/ FailTerminal(w)
      PROVE  Typed'
  BY <1>1, BeginPostTyped DEF LeaseNext, Complete, FailTerminal, Outcomes
<1>2. CASE CancelTask
  <2>1. BeginPost(Owner, "canceled")
    BY <1>2 DEF CancelTask
  <2>2. /\ "canceled" \in Outcomes \cup {"accepted"} /\ "canceled" # "accepted"
        /\ Owner \in Workers \cup {Owner}
    BY DEF Outcomes
  <2>3. Typed'
    BY <2>1, <2>2, BeginPostTyped
  <2>. QED  BY <2>3 DEF Typed, TypedTx, TypeOK
<1>3. Typed' => tx' \in Posting \cup {NoTx} /\ AcceptedByWorkers'
  BY DEF Typed, TypedTx, TypeOK
<1>4. CASE \/ \E w \in Workers : FailRetry(w) \/ ListCustody(w)
           \/ PostAnswered \/ AcceptanceFailed \/ CompletionBuffered \/ CompletionUnwritten
           \/ Commit \/ Abort \/ ExpireLease
           \/ \E item \in outbox : Replay(item) \/ GiveUp(item)
           \/ Restart \/ ListLeases \/ ReleaseStale \/ Settle
  <2>1. \/ tx' = tx
        \/ tx' = NoTx
        \/ tx.at = "posting" /\ tx' = [tx EXCEPT !.at = "decided"]
    BY <1>4 DEF FailRetry, ListCustody, PostAnswered, AcceptanceFailed, CompletionBuffered,
                CompletionUnwritten, Commit, Abort, ExpireLease, Replay, GiveUp, Restart,
                ListLeases, ReleaseStale, Settle
  <2>. QED  BY <2>1, TxTyped DEF Typed
<1>. QED  BY <1>1, <1>2, <1>3, <1>4, NextActions DEF Actions

\* ReceiptGate forgets nothing.
LEMMA LedgerStep ==
    ASSUME Typed, Next
    PROVE  /\ LedgerType'
           /\ ledger.custodian # Nobody => ledger'.custodian = ledger.custodian
           /\ ledger.closed # "open" => ledger'.closed = ledger.closed
           /\ (ledger.closed # "open" => ledger.custodian # Nobody) =>
              (ledger'.closed # "open" => ledger'.custodian # Nobody)
<1>1. \/ UNCHANGED ledger
      \/ tx.at = "posting" /\ Received(ToProposal(tx.receipt))
      \/ \E item \in outbox : Received(item.proposal)
  BY NextActions
     DEF Actions, LeaseNext, Complete, FailTerminal, CancelTask, BeginPost, FailRetry,
         ListCustody, PostAnswered, AcceptanceFailed, CompletionBuffered,
         CompletionUnwritten, Commit, Abort, ExpireLease, Replay, GiveUp, Restart,
         ListLeases, ReleaseStale, Settle, Unanswered
<1>. QED  BY <1>1, LedgerTyped

LEMMA OutboxStep ==
    ASSUME Typed, Next
    PROVE  /\ outbox' \subseteq Waiting
           /\ \A item \in outbox' : MayBuffer(item.proposal)
           /\ OutboxSound'
<1>1. \/ outbox' \subseteq outbox
      \/ \E saved \in BOOLEAN : /\ tx.at = "posting"
                                 /\ MayBuffer(ToProposal(tx.receipt))
                                 /\ Put(saved)
  BY NextActions
     DEF Actions, LeaseNext, Complete, FailTerminal, CancelTask, BeginPost, FailRetry,
         ListCustody, PostAnswered, AcceptanceFailed, CompletionBuffered,
         CompletionUnwritten, Commit, Abort, ExpireLease, Replay, GiveUp, Restart,
         ListLeases, ReleaseStale, Settle
<1>. QED  BY <1>1, OutboxTyped

LEMMA FreshLeaseType ==
    ASSUME Typed
    PROVE  FreshLease \in LeaseIds
<1>1. 1 \in LeaseIds /\ 2 \in LeaseIds
  BY DEF LeaseIds
<1>2. rec.lease # 1 \/ rec.lease # 2
  OBVIOUS
<1>3. \E id \in LeaseIds : rec = NoRound \/ rec.lease # id
  BY <1>1, <1>2
<1>. QED  BY <1>3 DEF FreshLease

RowType == row \in Rows /\ (row.holder = Nobody <=> row.lease = NoLease)

LEMMA RowStep ==
    ASSUME Typed, Next
    PROVE  RowType'
<1>1. RowType
  BY DEF Typed, TypedTx, TypeOK, RowType
<1>2. CASE UNCHANGED row
  BY <1>1, <1>2 DEF RowType
<1>3. ASSUME NEW status \in Outcomes \cup {"queued"}, NEW attempt \in 0..MaxAttempts - 1,
             row' = [status |-> status, holder |-> Nobody, lease |-> NoLease,
                     attempt |-> attempt]
      PROVE  RowType'
  BY <1>3 DEF RowType, Rows
<1>4. CASE Commit
  <2>1. tx \in Posting /\ tx.receipt \in Receipts
        /\ (tx.receipt.type = "accepted" => tx.receipt.from \in Workers)
        /\ (tx.receipt.type # "accepted" => tx.receipt.type \in Outcomes)
    BY <1>4, PostingTx DEF Commit, Typed
  <2>2. CASE tx.receipt.type = "accepted"
    <3>1. row' = [status |-> "held", holder |-> tx.receipt.from, lease |-> FreshLease,
                  attempt |-> row.attempt]
      BY <1>1, <1>4, <2>2 DEF Commit, RowType, Rows
    <3>2. FreshLease \in LeaseIds /\ FreshLease # NoLease
      BY FreshLeaseType DEF LeaseIds, NoLease
    <3>. QED  BY <1>1, <2>1, <2>2, <3>1, <3>2, Principals DEF RowType, Rows
  <2>3. CASE tx.receipt.type # "accepted"
    <3>1. row' = [status |-> tx.receipt.type, holder |-> Nobody, lease |-> NoLease,
                  attempt |-> row.attempt]
      BY <1>1, <1>4, <2>3 DEF Commit, RowType, Rows
    <3>. QED  BY <1>1, <1>3, <2>1, <2>3, <3>1 DEF RowType, Rows
  <2>. QED  BY <2>2, <2>3
<1>5. ASSUME NEW w \in Workers, FailRetry(w)
      PROVE  RowType'
  <2>1. row.attempt + 1 \in 0..MaxAttempts - 1
    BY <1>1, <1>5, Principals DEF FailRetry, MayRetry, RowType, Rows
  <2>. QED  BY <1>3, <1>5, <2>1 DEF FailRetry
<1>6. CASE ExpireLease \/ ReleaseStale
  <2>1. row' = row \/ row' = [status |-> "queued", holder |-> Nobody, lease |-> NoLease,
                              attempt |-> row.attempt]
    BY <1>1, <1>6 DEF ExpireLease, ReleaseStale, RowType, Rows
  <2>. QED  BY <1>1, <1>2, <1>3, <2>1 DEF RowType, Rows
<1>7. CASE Settle
  <2>1. row' = [status |-> "queued", holder |-> row.holder, lease |-> row.lease,
                attempt |-> row.attempt]
    BY <1>1, <1>7 DEF Settle, RowType, Rows
  <2>. QED  BY <1>1, <2>1 DEF RowType, Rows
<1>8. \/ UNCHANGED row
      \/ Commit \/ (\E w \in Workers : FailRetry(w)) \/ ExpireLease \/ ReleaseStale \/ Settle
  BY NextActions
     DEF Actions, LeaseNext, Complete, FailTerminal, CancelTask, BeginPost, ListCustody,
         PostAnswered, AcceptanceFailed, CompletionBuffered, CompletionUnwritten, Abort,
         Replay, GiveUp, Restart, ListLeases
<1>. QED  BY <1>2, <1>4, <1>5, <1>6, <1>7, <1>8

RestType ==
    /\ rec \in Rounds \cup {NoRound}
    /\ finisher \in Workers \cup {Owner, Nobody}
    /\ {doubted, unwritten} \subseteq BOOLEAN
    /\ faults \in 0..MaxFaults
    /\ rounds \in 0..MaxRounds

LEMMA RestStep ==
    ASSUME Typed, Next
    PROVE  RestType'
<1>1. RestType
  BY DEF Typed, TypedTx, TypeOK, RestType
<1>2. (UNCHANGED faults \/ Faulty) => faults' \in 0..MaxFaults
  BY <1>1, Principals DEF RestType, Faulty
<1>3. UNCHANGED faults \/ Faulty
  BY NextActions
     DEF Actions, LeaseNext, Complete, FailTerminal, CancelTask, BeginPost, FailRetry,
         ListCustody, PostAnswered, AcceptanceFailed, CompletionBuffered,
         CompletionUnwritten, Commit, Abort, ExpireLease, Replay, GiveUp, Restart,
         ListLeases, ReleaseStale, Settle
<1>4. rounds' \in 0..MaxRounds
  <2>1. ASSUME NEW w \in Workers, ListCustody(w)
        PROVE  rounds' \in 0..MaxRounds
    BY <1>1, <2>1, Principals DEF ListCustody, RestType
  <2>2. UNCHANGED rounds \/ \E w \in Workers : ListCustody(w)
    BY NextActions
       DEF Actions, LeaseNext, Complete, FailTerminal, CancelTask, BeginPost, FailRetry,
           PostAnswered, AcceptanceFailed, CompletionBuffered,
           CompletionUnwritten, Commit, Abort, ExpireLease, Replay, GiveUp, Restart,
           ListLeases, ReleaseStale, Settle
  <2>. QED  BY <1>1, <2>1, <2>2 DEF RestType
<1>5. rec' \in Rounds \cup {NoRound}
  <2>1. ASSUME NEW w \in Workers, ListCustody(w)
        PROVE  rec' \in Rounds
    <3>1. (ledger.custodian = w /\ ledger.closed = "open") \in BOOLEAN
      OBVIOUS
    <3>. QED  BY <2>1, <3>1 DEF ListCustody, Rounds
  <2>2. CASE ListLeases
    <3>1. rec \in Rounds
      BY <1>1, <2>2 DEF ListLeases, RestType, NoRound
    <3>2. row.lease \in LeaseIds \cup {NoLease}
      BY DEF Typed, TypedTx, TypeOK, Rows
    <3>. QED  BY <2>2, <3>1, <3>2 DEF ListLeases, Rounds
  <2>3. CASE ReleaseStale
    <3>1. rec \in Rounds
      BY <1>1, <2>3 DEF ReleaseStale, RestType, NoRound
    <3>. QED  BY <2>3, <3>1 DEF ReleaseStale, Rounds
  <2>4. \/ UNCHANGED rec \/ rec' = NoRound
        \/ (\E w \in Workers : ListCustody(w)) \/ ListLeases \/ ReleaseStale
    BY NextActions
       DEF Actions, LeaseNext, Complete, FailTerminal, CancelTask, BeginPost, FailRetry,
           PostAnswered, AcceptanceFailed, CompletionBuffered,
           CompletionUnwritten, Commit, Abort, ExpireLease, Replay, GiveUp, Restart, Settle
  <2>. QED  BY <1>1, <2>1, <2>2, <2>3, <2>4 DEF RestType
<1>6. finisher' \in Workers \cup {Owner, Nobody}
  <2>1. CASE Commit
    BY <1>1, <2>1, PostingTx DEF Commit, RestType, Receipts, Typed
  <2>2. UNCHANGED finisher \/ finisher' = Nobody \/ Commit
    BY NextActions
       DEF Actions, LeaseNext, Complete, FailTerminal, CancelTask, BeginPost, FailRetry,
           ListCustody, PostAnswered, AcceptanceFailed, CompletionBuffered,
           CompletionUnwritten, Abort, ExpireLease, Replay, GiveUp, Restart,
           ListLeases, ReleaseStale, Settle
  <2>. QED  BY <1>1, <2>1, <2>2 DEF RestType
<1>7. doubted' \in BOOLEAN /\ unwritten' \in BOOLEAN
  <2>1. /\ UNCHANGED unwritten \/ unwritten' = TRUE
        /\ \/ UNCHANGED doubted
           \/ doubted' = TRUE
           \/ doubted' = (doubted \/ tx.receipt.type # "accepted")
           \/ doubted' = (doubted \/ tx # NoTx)
           \/ doubted' = (doubted \/ Terminal)
    BY NextActions
       DEF Actions, LeaseNext, Complete, FailTerminal, CancelTask, BeginPost, FailRetry,
           ListCustody, PostAnswered, AcceptanceFailed, CompletionBuffered,
           CompletionUnwritten, Commit, Abort, ExpireLease, Replay, GiveUp, Restart,
           ListLeases, ReleaseStale, Settle
  <2>2. doubted \in BOOLEAN /\ unwritten \in BOOLEAN
    BY <1>1 DEF RestType
  <2>. QED  BY <2>1, <2>2 DEF Terminal
<1>8. {doubted', unwritten'} \subseteq BOOLEAN
  BY <1>7
<1>. QED  BY <1>2, <1>3, <1>4, <1>5, <1>6, <1>8 DEF RestType

LEMMA TypeStep == Typed /\ [Next]_vars => Typed'
<1>1. ASSUME Typed, Next
      PROVE  Typed'
  BY <1>1, TxStep, LedgerStep, OutboxStep, RowStep, RestStep
     DEF Typed, TypedTx, TypeOK, RowType, RestType, LedgerType
<1>2. ASSUME Typed, UNCHANGED vars
      PROVE  Typed'
  BY <1>2 DEF Typed, TypedTx, TypeOK, AcceptedByWorkers, OutboxSound, vars
<1>. QED  BY <1>1, <1>2

LEMMA TypedCorrect == Spec => []Typed
<1>. QED  BY TypeInit, TypeStep, PTL DEF Spec

\* Every reachable state is well-typed: the only thing that ever waits in the outbox
\* are completions, and a task has a holder exactly while it has a lease row.
THEOREM TypeCorrect == Spec => []TypeOK
<1>1. Typed => TypeOK
  BY DEF Typed, TypedTx
<1>. QED  BY <1>1, TypedCorrect, PTL

----------------------------------------------------------------------------
(* Custodians                                                               *)
(*                                                                          *)
(* HeldIsAccepted is not inductive: it is the claim that is about to commit *)
(* that needs a custodian.  NoForgottenClosure needs to know in addition    *)
(* that whoever reports had been a holder, so that the custodian was chosen *)
(* before the report and cannot become its sender afterwards.               *)

InTx(types) == tx # NoTx /\ tx.receipt.type \in types

CustodianInv ==
    /\ ledger.closed # "open" => ledger.custodian # Nobody
    /\ tx.at = "decided" /\ InTx({"accepted"}) => ledger.custodian # Nobody
    /\ row.holder # Nobody => ledger.custodian # Nobody
    /\ InTx(Outcomes) /\ tx.receipt.from \in Workers => ledger.custodian # Nobody
    /\ finisher \in Workers => ledger.custodian # Nobody

\* A report that the custodian made, and that took effect or is about to.
ClosureInv ==
    /\ tx.at = "decided" /\ InTx(Outcomes) /\ tx.receipt.from = ledger.custodian =>
           unwritten \/ ledger.closed # "open"
    /\ finisher # Nobody /\ finisher = ledger.custodian =>
           unwritten \/ ledger.closed # "open"

LEMMA CustodianInit == Init => CustodianInv /\ ClosureInv
BY Principals DEF Init, CustodianInv, ClosureInv, InTx

\* The ledger as CustodianInv sees it after a step.
LEMMA CustodianStays ==
    ASSUME Typed, Next, CustodianInv
    PROVE  /\ ledger.custodian # Nobody => ledger'.custodian = ledger.custodian
           /\ ledger'.custodian \in Workers \cup {Nobody}
           /\ ledger.closed # "open" => ledger'.closed # "open"
           /\ ledger'.closed # "open" => ledger'.custodian # Nobody
           /\ ledger'.custodian # Owner
BY LedgerStep, Principals DEF CustodianInv, LedgerType

\* Steps that end a transaction without a trace, or that are not of one.
LEMMA CustodianKept ==
    ASSUME Typed, Next, CustodianInv, ClosureInv,
           tx' = NoTx \/ tx' = tx,
           row'.holder = Nobody \/ row'.holder = row.holder,
           finisher' = finisher \/ finisher' = Nobody,
           unwritten' = unwritten
    PROVE  CustodianInv' /\ ClosureInv'
<1>1. CustodianInv'
  <2>1. CASE tx' = NoTx
    BY <2>1, CustodianStays, Principals DEF CustodianInv, InTx
  <2>2. CASE tx' = tx
    BY <2>2, CustodianStays, Principals DEF CustodianInv, InTx
  <2>. QED  BY <2>1, <2>2
<1>2. finisher' # Nobody /\ finisher' = ledger'.custodian =>
          unwritten' \/ ledger'.closed # "open"
  <2>1. finisher \in Workers \cup {Owner, Nobody}
    BY DEF Typed, TypedTx, TypeOK
  <2>. QED  BY <2>1, CustodianStays DEF CustodianInv, ClosureInv
<1>3. tx'.at = "decided" /\ InTx(Outcomes)' /\ tx'.receipt.from = ledger'.custodian =>
          unwritten' \/ ledger'.closed # "open"
  <2>1. CASE tx' = NoTx
    BY <2>1 DEF InTx
  <2>2. CASE tx' = tx /\ tx.at = "decided" /\ InTx(Outcomes)
    <3>1. tx.receipt.from \in Workers \cup {Owner}
      BY <2>2, PostingTx DEF Typed, Receipts
    <3>. QED  BY <2>2, <3>1, CustodianStays DEF CustodianInv, ClosureInv
  <2>. QED  BY <2>1, <2>2 DEF InTx
<1>. QED  BY <1>1, <1>2, <1>3 DEF ClosureInv

\* Whoever posts a report holds the task.
LEMMA PostBegins ==
    ASSUME Typed, Next, CustodianInv, ClosureInv,
           NEW from \in Workers \cup {Owner}, NEW type \in Outcomes \cup {"accepted"},
           BeginPost(from, type),
           type \in Outcomes /\ from \in Workers => row.holder = from
    PROVE  CustodianInv' /\ ClosureInv'
<1>1. /\ tx'.at = "posting" /\ tx'.receipt = [from |-> from, type |-> type]
      /\ UNCHANGED <<row, ledger, finisher, unwritten>>
  BY DEF BeginPost
<1>. QED  BY <1>1, Principals DEF CustodianInv, ClosureInv, InTx

\* The answer, or what is taken for one.
LEMMA PostDecided ==
    ASSUME Typed, Next, CustodianInv, ClosureInv, tx.at = "posting",
           tx' = [tx EXCEPT !.at = "decided"],
           UNCHANGED <<row, finisher>>,
           \/ Received(ToProposal(tx.receipt)) /\ unwritten' = unwritten
           \/ unwritten' = TRUE /\ MayBuffer(ToProposal(tx.receipt))
    PROVE  CustodianInv' /\ ClosureInv'
<1> DEFINE p == ToProposal(tx.receipt)
<1>1. /\ tx \in Posting /\ tx # NoTx /\ tx.receipt \in Receipts /\ LedgerType
      /\ Sound(p) /\ p.for = tx.receipt.from
      /\ p.phase = IF tx.receipt.type = "accepted" THEN "accepted" ELSE "complete"
      /\ finisher \in Workers \cup {Owner, Nobody}
      /\ tx.receipt.from \in Workers \cup {Owner}
  BY PostingTx, Proposal, TxProposal DEF Typed, TypedTx, TypeOK, LedgerType, Receipts
<1>2. tx'.receipt = tx.receipt /\ tx' # NoTx
  BY <1>1 DEF Posting, NoTx
<1>3. tx.receipt.type = "accepted" => ledger'.custodian # Nobody
  BY <1>1, AcceptanceReceived DEF CustodianInv, MayBuffer
<1>4. tx.receipt.from = ledger'.custodian /\ tx.receipt.type \in Outcomes =>
          unwritten' \/ ledger'.closed # "open"
  <2>1. CASE unwritten' = TRUE
    BY <2>1
  <2>2. CASE Received(p) /\ tx.receipt.from = ledger'.custodian /\ tx.receipt.type \in Outcomes
    <3>1. tx.receipt.from = ledger.custodian
      BY <1>1, <1>2, <2>2, CustodianStays DEF CustodianInv, InTx
    <3>2. p.phase = "complete"
      BY <1>1, <2>2 DEF Outcomes
    <3>. QED  BY <1>1, <2>2, <3>1, <3>2, CompletionReceived
  <2>. QED  BY <2>1, <2>2
<1>5. CustodianInv'
  BY <1>1, <1>2, <1>3, CustodianStays DEF CustodianInv, InTx
<1>6. finisher # Nobody /\ finisher = ledger'.custodian => unwritten' \/ ledger'.closed # "open"
  BY <1>1, CustodianStays DEF CustodianInv, ClosureInv
<1>. QED  BY <1>2, <1>4, <1>5, <1>6 DEF ClosureInv, InTx

LEMMA Committed ==
    ASSUME Typed, Next, CustodianInv, ClosureInv, Commit
    PROVE  CustodianInv' /\ ClosureInv'
<1>1. /\ tx # NoTx /\ tx.receipt \in Receipts
      /\ (tx.receipt.type # "accepted" => tx.receipt.type \in Outcomes)
      /\ tx' = NoTx /\ UNCHANGED <<ledger, unwritten>>
  BY PostingTx DEF Commit, Typed
<1>2. CASE tx.receipt.type = "accepted"
  <2>1. ledger.custodian # Nobody
    BY <1>1, <1>2 DEF Commit, CustodianInv, InTx
  <2>2. finisher' = finisher
    BY <1>2 DEF Commit
  <2>. QED  BY <1>1, <2>1, <2>2 DEF CustodianInv, ClosureInv, InTx
<1>3. CASE tx.receipt.type # "accepted"
  <2>1. row'.holder = Nobody /\ finisher' = tx.receipt.from
    <3>1. row \in Rows
      BY DEF Typed, TypedTx, TypeOK
    <3>. QED  BY <1>3, <3>1 DEF Commit, Rows
  <2>2. InTx(Outcomes)
    BY <1>1, <1>3 DEF InTx
  <2>3. tx.at = "decided"
    BY DEF Commit
  <2>4. CustodianInv'
    BY <1>1, <2>1, <2>2 DEF CustodianInv, InTx
  <2>5. ClosureInv'
    BY <1>1, <2>1, <2>2, <2>3 DEF ClosureInv, InTx
  <2>. QED  BY <2>4, <2>5
<1>. QED  BY <1>2, <1>3

LEMMA CustodianStep ==
    Typed /\ CustodianInv /\ ClosureInv /\ [Next]_vars => CustodianInv' /\ ClosureInv'
<1> SUFFICES ASSUME Typed, CustodianInv, ClosureInv, [Next]_vars
             PROVE  CustodianInv' /\ ClosureInv'
  OBVIOUS
<1>1. CASE UNCHANGED vars
  BY <1>1 DEF vars, CustodianInv, ClosureInv, InTx
<1>2. ASSUME Next
      PROVE  CustodianInv' /\ ClosureInv'
  <2>1. ASSUME NEW w \in Workers, LeaseNext(w)
        PROVE  CustodianInv' /\ ClosureInv'
    BY <1>2, <2>1, PostBegins DEF LeaseNext, Outcomes
  <2>2. ASSUME NEW w \in Workers, Complete(w)
        PROVE  CustodianInv' /\ ClosureInv'
    BY <1>2, <2>2, PostBegins DEF Complete, Outcomes
  <2>3. ASSUME NEW w \in Workers, FailTerminal(w)
        PROVE  CustodianInv' /\ ClosureInv'
    BY <1>2, <2>3, PostBegins DEF FailTerminal, Outcomes
  <2>4. CASE CancelTask
    <3>1. /\ "canceled" \in Outcomes \cup {"accepted"} /\ Owner \in Workers \cup {Owner}
          /\ BeginPost(Owner, "canceled") /\ Owner \notin Workers
      BY <2>4, Principals DEF CancelTask, Outcomes
    <3>. QED  BY <1>2, <3>1, PostBegins
  <2>5. CASE PostAnswered \/ CompletionUnwritten
    BY <1>2, <2>5, PostDecided DEF PostAnswered, CompletionUnwritten
  <2>6. CASE Commit
    BY <1>2, <2>6, Committed
  <2>7. CASE \/ \E w \in Workers : FailRetry(w) \/ ListCustody(w)
             \/ AcceptanceFailed \/ CompletionBuffered \/ Abort \/ ExpireLease
             \/ \E item \in outbox : Replay(item) \/ GiveUp(item)
             \/ Restart \/ ListLeases \/ ReleaseStale \/ Settle
    <3>1. row \in Rows
      BY DEF Typed, TypedTx, TypeOK
    <3>2. /\ tx' = NoTx \/ tx' = tx
          /\ finisher' = finisher \/ finisher' = Nobody
          /\ unwritten' = unwritten
      BY <2>7 DEF FailRetry, ListCustody, AcceptanceFailed, CompletionBuffered, Abort,
                  ExpireLease, Replay, GiveUp, Restart, ListLeases, ReleaseStale, Settle
    <3>3. row'.holder = Nobody \/ row'.holder = row.holder
      <4>1. CASE \E w \in Workers : ListCustody(w)
        BY <4>1 DEF ListCustody
      <4>2. CASE AcceptanceFailed \/ CompletionBuffered \/ Abort
        BY <4>2 DEF AcceptanceFailed, CompletionBuffered, Abort
      <4>3. CASE (\E item \in outbox : Replay(item) \/ GiveUp(item)) \/ Restart \/ ListLeases
        BY <4>3 DEF Replay, GiveUp, Restart, ListLeases
      <4>4. CASE (\E w \in Workers : FailRetry(w)) \/ ExpireLease \/ ReleaseStale
        <5>1. ASSUME NEW w \in Workers, FailRetry(w)
              PROVE  row'.holder = Nobody
          BY <5>1 DEF FailRetry
        <5>2. CASE ExpireLease
          BY <5>2, <3>1 DEF ExpireLease, Rows
        <5>3. CASE ReleaseStale
          BY <5>3, <3>1 DEF ReleaseStale, Rows
        <5>. QED  BY <4>4, <5>1, <5>2, <5>3
      <4>5. CASE Settle
        BY <4>5, <3>1 DEF Settle, Rows
      <4>. QED  BY <2>7, <4>1, <4>2, <4>3, <4>4, <4>5
    <3>. QED  BY <1>2, <3>2, <3>3, CustodianKept
  <2>. QED  BY <1>2, <2>1, <2>2, <2>3, <2>4, <2>5, <2>6, <2>7, NextActions DEF Actions
<1>. QED  BY <1>1, <1>2

LEMMA CustodianCorrect == Spec => [](CustodianInv /\ ClosureInv)
<1>. QED  BY CustodianInit, CustodianStep, TypedCorrect, PTL DEF Spec

\* No lease without a custodian: a claim whose post failed, or that was cut off,
\* leaves none.
THEOREM HeldCorrect == Spec => []HeldIsAccepted
<1>1. CustodianInv => HeldIsAccepted
  BY DEF CustodianInv, HeldIsAccepted
<1>. QED  BY <1>1, CustodianCorrect, PTL

\* No report takes effect on the word of the outbox.
THEOREM ClosureCorrect == Spec => []NoForgottenClosure
<1>1. ClosureInv => NoForgottenClosure
  BY DEF ClosureInv, NoForgottenClosure
<1>. QED  BY <1>1, CustodianCorrect, PTL

----------------------------------------------------------------------------
(* Outcomes                                                                 *)
(*                                                                          *)
(* As long as nothing is doubted, only the transaction that posts a         *)
(* completion closes the obligation.  It holds the row until it commits     *)
(* what it has posted, and a terminal task is nobody's to report again.     *)

AgreeInv ==
    /\ Terminal => row.holder = Nobody /\ tx = NoTx
    /\ ~doubted => outbox = {}
    /\ ~doubted /\ ledger.closed # "open" =>
           \/ tx = NoTx /\ Terminal /\ ledger.closed = Verdict[row.status]
           \/ /\ tx.at = "decided"
              /\ InTx(Outcomes)
              /\ ledger.closed = Verdict[tx.receipt.type]

LEMMA AgreeInit == Init => AgreeInv
BY DEF Init, AgreeInv, Terminal, Outcomes

LEMMA AgreePosts ==
    ASSUME Typed, AgreeInv,
           NEW from \in Workers \cup {Owner}, NEW type \in Outcomes \cup {"accepted"},
           BeginPost(from, type), ~Terminal
    PROVE  AgreeInv'
<1>1. tx = NoTx /\ UNCHANGED <<row, ledger, outbox, doubted>>
  BY DEF BeginPost
<1>. QED  BY <1>1 DEF AgreeInv, Terminal, InTx, NoTx

\* Steps of the row while nobody posts: they change no terminal task.
LEMMA AgreeUnposted ==
    ASSUME Typed, AgreeInv, tx = NoTx, tx' = NoTx, ~Terminal, ~Terminal',
           UNCHANGED <<ledger, outbox, doubted>>
    PROVE  AgreeInv'
BY DEF AgreeInv, Terminal, InTx

\* Steps after which the answer to a completion is in doubt.
LEMMA AgreeDoubted ==
    ASSUME AgreeInv, doubted' = TRUE, Terminal' => row'.holder = Nobody /\ tx' = NoTx
    PROVE  AgreeInv'
BY DEF AgreeInv

LEMMA AgreeAnswered ==
    ASSUME Typed, AgreeInv, PostAnswered
    PROVE  AgreeInv'
<1> DEFINE p == ToProposal(tx.receipt)
<1>1. /\ tx \in Posting /\ tx # NoTx /\ tx.receipt \in Receipts /\ LedgerType
      /\ Sound(p)
      /\ p.phase = IF tx.receipt.type = "accepted" THEN "accepted" ELSE "complete"
      /\ tx.receipt.type # "accepted" => tx.receipt.type \in Outcomes
  BY PostingTx, Proposal, TxProposal
     DEF PostAnswered, Typed, TypedTx, TypeOK, LedgerType, Receipts
<1>2. tx'.receipt = tx.receipt /\ tx' # NoTx /\ tx'.at = "decided"
  BY <1>1 DEF PostAnswered, Posting, NoTx
<1>3. UNCHANGED <<row, outbox, doubted>> /\ tx.at = "posting"
  BY DEF PostAnswered
<1>4. ASSUME ~doubted, ledger'.closed # "open"
      PROVE  InTx(Outcomes)' /\ ledger'.closed = Verdict[tx'.receipt.type]
  <2>1. ledger.closed = "open"
    BY <1>1, <1>3, <1>4 DEF AgreeInv
  <2>2. Received(p) /\ Admissible(p) /\ p.phase # "accepted" /\ ledger'.closed = p.status
    BY <1>1, <1>4, <2>1 DEF PostAnswered, Received, LedgerType
  <2>3. tx.receipt.type \in Outcomes /\ p.status = Verdict[tx.receipt.type]
    BY <1>1, <2>2 DEF ToProposal
  <2>. QED  BY <1>2, <2>2, <2>3 DEF InTx
<1>5. ~Terminal /\ ~Terminal'
  BY <1>1, <1>3 DEF AgreeInv, Terminal
<1>6. ~doubted' => outbox' = {}
  BY <1>3 DEF AgreeInv
<1>. QED  BY <1>2, <1>3, <1>4, <1>5, <1>6 DEF AgreeInv

\* What fails an acceptance closes nothing.
LEMMA AgreeUnaccepted ==
    ASSUME Typed, AgreeInv, AcceptanceFailed
    PROVE  AgreeInv'
<1> DEFINE p == ToProposal(tx.receipt)
<1>1. tx \in Posting /\ tx # NoTx /\ Sound(p) /\ LedgerType
  BY PostingTx, TxProposal
     DEF AcceptanceFailed, Typed, TypedTx, TypeOK, LedgerType
<1>2. p.phase = "accepted"
  BY <1>1 DEF AcceptanceFailed, MayBuffer, Sound, Proposals
<1>3. ledger'.closed = ledger.closed
  BY <1>1, <1>2 DEF AcceptanceFailed, Unanswered, Received, LedgerType
<1>4. tx.at = "posting" /\ UNCHANGED <<row, outbox, doubted>>
  BY DEF AcceptanceFailed
<1>. QED  BY <1>1, <1>3, <1>4 DEF AgreeInv, Terminal, NoTx

LEMMA AgreeCommitted ==
    ASSUME Typed, AgreeInv, Commit
    PROVE  AgreeInv'
<1>1. /\ tx # NoTx /\ tx.receipt \in Receipts /\ row \in Rows
      /\ (tx.receipt.type # "accepted" => tx.receipt.type \in Outcomes)
      /\ tx' = NoTx /\ UNCHANGED <<ledger, outbox, doubted>>
  BY PostingTx DEF Commit, Typed, TypedTx, TypeOK
<1>2. CASE tx.receipt.type = "accepted"
  <2>1. row'.status = "held"
    BY <1>1, <1>2 DEF Commit, Rows
  <2>2. ~Terminal' /\ ~InTx(Outcomes)
    BY <1>2, <2>1 DEF Terminal, Outcomes, InTx
  <2>. QED  BY <1>1, <2>2 DEF AgreeInv
<1>3. CASE tx.receipt.type # "accepted"
  <2>1. row'.status = tx.receipt.type /\ row'.holder = Nobody
    BY <1>1, <1>3 DEF Commit, Rows
  <2>. QED  BY <1>1, <1>3, <2>1 DEF AgreeInv, Terminal
<1>. QED  BY <1>2, <1>3

\* The lease a call of reconcile_worker goes for is a lease.
ListedInv == rec.at = "listed" => rec.lease # NoLease

LEMMA ListedInit == Init => ListedInv
BY DEF Init, ListedInv, NoRound

LEMMA ListedStep == Typed /\ ListedInv /\ [Next]_vars => ListedInv'
<1> SUFFICES ASSUME Typed, ListedInv, [Next]_vars
             PROVE  ListedInv'
  OBVIOUS
<1>1. CASE rec' = rec \/ rec' = NoRound
  BY <1>1 DEF ListedInv, NoRound
<1>2. CASE \E w \in Workers : ListCustody(w)
  BY <1>2 DEF ListCustody, ListedInv
<1>3. CASE ListLeases
  <2>1. rec \in Rounds /\ (row.holder = Nobody <=> row.lease = NoLease)
    BY <1>3 DEF ListLeases, Typed, TypedTx, TypeOK, NoRound
  <2>2. rec.worker \in Workers
    BY <2>1 DEF Rounds
  <2>. QED  BY <1>1, <1>3, <2>1, <2>2, Principals DEF ListLeases, ListedInv
<1>4. CASE ReleaseStale /\ rec' = [rec EXCEPT !.at = "settling"]
  <2>1. rec \in Rounds
    BY <1>4 DEF ReleaseStale, Typed, TypedTx, TypeOK, NoRound
  <2>. QED  BY <1>4, <2>1 DEF ListedInv, Rounds
<1>5. CASE UNCHANGED vars
  BY <1>1, <1>5 DEF vars
<1>6. Next => \/ rec' = rec \/ rec' = NoRound
              \/ \E w \in Workers : ListCustody(w)
              \/ ListLeases
              \/ ReleaseStale /\ rec' = [rec EXCEPT !.at = "settling"]
  BY NextActions
     DEF Actions, LeaseNext, Complete, FailTerminal, CancelTask, BeginPost, FailRetry,
         PostAnswered, AcceptanceFailed, CompletionBuffered, CompletionUnwritten, Commit,
         Abort, ExpireLease, Replay, GiveUp, Restart, ReleaseStale, Settle
<1>. QED  BY <1>1, <1>2, <1>3, <1>4, <1>5, <1>6

LEMMA AgreeReleased ==
    ASSUME Typed, AgreeInv, ListedInv, ReleaseStale
    PROVE  AgreeInv'
<1>1. CASE row.lease # rec.lease
  BY <1>1 DEF ReleaseStale, AgreeInv, Terminal, InTx
<1>2. CASE row.lease = rec.lease
  <2>1. ~Terminal
    BY <1>2 DEF ReleaseStale, ListedInv, AgreeInv, Typed, TypedTx, TypeOK
  <2>2. row'.status = "queued" /\ tx = NoTx /\ tx' = NoTx
        /\ UNCHANGED <<ledger, outbox, doubted>>
    BY <1>2 DEF ReleaseStale, Typed, TypedTx, TypeOK, Rows
  <2>3. ~Terminal'
    BY <2>2 DEF Terminal, Outcomes
  <2>. QED  BY <2>1, <2>2, <2>3, AgreeUnposted
<1>. QED  BY <1>1, <1>2

LEMMA AgreeSettled ==
    ASSUME Typed, AgreeInv, Settle
    PROVE  AgreeInv'
<1>1. row'.status = "queued" /\ tx = NoTx /\ tx' = NoTx /\ UNCHANGED <<ledger, outbox>>
  BY DEF Settle, Typed, TypedTx, TypeOK, Rows
<1>2. ~Terminal'
  BY <1>1 DEF Terminal, Outcomes
<1>3. doubted \in BOOLEAN
  BY DEF Typed, TypedTx, TypeOK
<1>4. CASE Terminal \/ doubted
  <2>1. doubted' = TRUE
    BY <1>3, <1>4 DEF Settle
  <2>. QED  BY <1>2, <2>1, AgreeDoubted
<1>5. CASE ~Terminal /\ ~doubted
  <2>1. doubted' = doubted
    BY <1>3, <1>5 DEF Settle
  <2>. QED  BY <1>1, <1>2, <1>5, <2>1, AgreeUnposted
<1>. QED  BY <1>4, <1>5

LEMMA AgreeAborted ==
    ASSUME Typed, AgreeInv, Abort
    PROVE  AgreeInv'
<1>1. /\ tx # NoTx /\ tx' = NoTx /\ UNCHANGED <<row, ledger, outbox>>
      /\ doubted' = (doubted \/ tx.receipt.type # "accepted")
      /\ doubted \in BOOLEAN
  BY PostingTx DEF Abort, Typed, TypedTx, TypeOK
<1>2. CASE tx.receipt.type # "accepted"
  BY <1>1, <1>2, AgreeDoubted DEF AgreeInv, Terminal
<1>3. CASE tx.receipt.type = "accepted"
  <2>1. ~InTx(Outcomes) /\ doubted' = doubted
    BY <1>1, <1>3 DEF InTx, Outcomes
  <2>. QED  BY <1>1, <2>1 DEF AgreeInv, Terminal
<1>. QED  BY <1>2, <1>3

LEMMA AgreeRestarted ==
    ASSUME Typed, AgreeInv, Restart
    PROVE  AgreeInv'
<1>1. /\ doubted' = (doubted \/ tx # NoTx) /\ doubted \in BOOLEAN
      /\ UNCHANGED row /\ tx' = NoTx /\ outbox' \subseteq outbox
  BY DEF Restart, Typed, TypedTx, TypeOK
<1>2. CASE tx # NoTx
  BY <1>1, <1>2, AgreeDoubted DEF AgreeInv, Terminal
<1>3. CASE tx = NoTx
  <2>1. ledger' = ledger /\ doubted' = doubted
    BY <1>1, <1>3 DEF Restart, NoTx
  <2>. QED  BY <1>1, <1>3, <2>1 DEF AgreeInv, Terminal, InTx
<1>. QED  BY <1>2, <1>3

LEMMA AgreeStep == Typed /\ ListedInv /\ AgreeInv /\ [Next]_vars => AgreeInv'
<1> SUFFICES ASSUME Typed, ListedInv, AgreeInv, [Next]_vars
             PROVE  AgreeInv'
  OBVIOUS
<1>1. CASE UNCHANGED vars
  BY <1>1 DEF vars, AgreeInv, Terminal, InTx
<1>2. row \in Rows
  BY DEF Typed, TypedTx, TypeOK
<1>3. ASSUME NEW w \in Workers, LeaseNext(w)
      PROVE  AgreeInv'
  BY <1>3, AgreePosts DEF LeaseNext, Terminal, Outcomes
<1>4. ASSUME NEW w \in Workers, Complete(w)
      PROVE  AgreeInv'
  BY <1>4, AgreePosts DEF Complete, Terminal, Outcomes
<1>5. ASSUME NEW w \in Workers, FailTerminal(w)
      PROVE  AgreeInv'
  <2>1. ~Terminal
    BY <1>5, Principals DEF FailTerminal, AgreeInv
  <2>. QED  BY <1>5, <2>1, AgreePosts DEF FailTerminal, Outcomes
<1>6. CASE CancelTask
  <2>1. /\ "canceled" \in Outcomes \cup {"accepted"} /\ Owner \in Workers \cup {Owner}
        /\ BeginPost(Owner, "canceled") /\ ~Terminal
    BY <1>6 DEF CancelTask, Outcomes
  <2>. QED  BY <2>1, AgreePosts
<1>7. CASE CompletionBuffered \/ CompletionUnwritten
  <2>1. doubted' = TRUE /\ UNCHANGED row /\ tx # NoTx
    BY <1>7, PostingTx DEF CompletionBuffered, CompletionUnwritten, Typed
  <2>2. ~Terminal'
    BY <2>1 DEF AgreeInv, Terminal
  <2>. QED  BY <2>1, <2>2, AgreeDoubted
<1>8. ASSUME NEW w \in Workers, FailRetry(w)
      PROVE  AgreeInv'
  <2>1. ~Terminal /\ row'.status = "queued"
    BY <1>8, Principals DEF FailRetry, AgreeInv
  <2>2. ~Terminal'
    BY <2>1 DEF Terminal, Outcomes
  <2>. QED  BY <1>8, <2>1, <2>2, AgreeUnposted DEF FailRetry
<1>9. CASE ExpireLease
  <2>1. ~Terminal /\ row'.status = "queued"
    BY <1>2, <1>9 DEF ExpireLease, Terminal, Outcomes, Rows
  <2>2. ~Terminal'
    BY <2>1 DEF Terminal, Outcomes
  <2>. QED  BY <1>9, <2>1, <2>2, AgreeUnposted DEF ExpireLease
<1>10. ASSUME NEW item \in outbox, Replay(item) \/ GiveUp(item)
       PROVE  AgreeInv'
  BY <1>10 DEF Replay, GiveUp, AgreeInv, Terminal, InTx
<1>11. CASE ListLeases \/ \E w \in Workers : ListCustody(w)
  BY <1>11 DEF ListLeases, ListCustody, AgreeInv, Terminal, InTx
<1>12. CASE \/ PostAnswered \/ AcceptanceFailed \/ Commit \/ Abort \/ Restart
            \/ ReleaseStale \/ Settle
  BY <1>12, AgreeAnswered, AgreeUnaccepted, AgreeCommitted, AgreeAborted, AgreeRestarted,
     AgreeReleased, AgreeSettled
<1>. QED  BY <1>1, <1>3, <1>4, <1>5, <1>6, <1>7, <1>8, <1>9, <1>10, <1>11, <1>12,
             NextActions DEF Actions

\* Database and ReceiptGate tell the same outcome unless a completion's answer was not
\* waited for, or reconcile_worker reopened the task.
THEOREM OutcomesCorrect == Spec => []OutcomesAgree
<1>1. AgreeInv => OutcomesAgree
  BY DEF AgreeInv, OutcomesAgree, Terminal, InTx, NoTx
<1>. QED  BY <1>1, AgreeInit, AgreeStep, ListedInit, ListedStep, TypedCorrect, PTL DEF Spec
===============================================================================
