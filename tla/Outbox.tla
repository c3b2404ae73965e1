-------------------------------- MODULE Outbox --------------------------------
(***************************************************************************)
(* ReceiptGateClient (integrations/memorygate_client.py): posting receipts *)
(* to ReceiptGate, the buffer of those that could not be posted, its copy  *)
(* on disk, and the worker that replays it.                                *)
(*                                                                         *)
(* The code between two awaits of a post is one step: whoever holds the    *)
(* buffer's lock awaits nothing.  The circuit breaker is reduced to turning*)
(* a call away or not, ReceiptGate to what it answers.                     *)
(***************************************************************************)
EXTENDS Naturals, Sequences, FiniteSets, SequencesExt

CONSTANTS
    Receipts,       \* each is emitted at most once
    Acceptances,    \* those of phase "accepted"
    Objectionable,  \* those ReceiptGate refuses
    BufferSize,     \* receiptgate_emission_buffer_size
    MaxRetries,     \* receiptgate_emission_max_retries
    BatchLimit,     \* limit of replay_buffered_receipts
    MaxFaults,      \* bound: failed writes of the buffer file
    MaxRestarts     \* bound: restarts of the process

ASSUME OutboxAssumption ==
    /\ IsFiniteSet(Receipts)
    /\ Acceptances \subseteq Receipts
    /\ Objectionable \subseteq Receipts
    /\ BufferSize \in Nat \ {0}
    /\ BatchLimit \in Nat \ {0}
    /\ {MaxRetries, MaxFaults, MaxRestarts} \subseteq Nat

VARIABLES
    running,   \* the client exists (get_receiptgate_client has been called)
    buffer,    \* _buffered_receipts
    disk,      \* the buffer file
    callers,   \* where the call of emit_receipt of each receipt is
    batch,     \* ids of due_items not yet replayed, empty between two replays
    posting,   \* the replay worker awaits the answer for the head of batch
    accepted,  \* receipts in ReceiptGate
    dropped,   \* ids of the items given up (_dropped_count and an error logged)
    unsure,    \* receipts that may be posted again: an answer was lost, the process
               \* died, or a write failed
    faults,
    restarts

vars == <<running, buffer, disk, callers, batch, posting, accepted,
          dropped, unsure, faults, restarts>>

\* A fallback that cannot write its item buffers the receipt a second time.
BufferIds == [receipt : Receipts, copy : {1, 2}]
Items     == [id : BufferIds, retries : 0..MaxRetries, due : BOOLEAN]
Phases    == {"new", "posting", "answered", "buffered", "failed"}

TypeOK ==
    /\ running \in BOOLEAN
    /\ \A s \in {buffer, disk} : s \in Seq(Items) /\ Len(s) <= BufferSize
    /\ callers \in [Receipts -> Phases]
    /\ batch \in Seq(BufferIds)
    /\ posting \in BOOLEAN
    /\ posting => batch # <<>>
    /\ accepted \subseteq Receipts \ Objectionable
    /\ dropped \subseteq BufferIds
    /\ unsure \subseteq Receipts \ Acceptances
    /\ faults \in 0..MaxFaults
    /\ restarts \in 0..MaxRestarts

Init ==
    /\ running = FALSE
    /\ buffer = <<>>
    /\ disk = <<>>
    /\ callers = [r \in Receipts |-> "new"]
    /\ batch = <<>>
    /\ posting = FALSE
    /\ accepted = {}
    /\ dropped = {}
    /\ unsure = {}
    /\ faults = 0
    /\ restarts = 0

Held(items) == {items[i].id.receipt : i \in DOMAIN items}

----------------------------------------------------------------------------
(* The buffer and its file *)

Enqueue(items, id) ==
    Append(IF Len(items) >= BufferSize THEN Tail(items) ELSE items,
           [id |-> id, retries |-> 0, due |-> TRUE])

Evicted(items) == IF Len(items) >= BufferSize THEN {Head(items).id} ELSE {}

\* _persist_buffer_locked: the file is replaced as a whole, or the write fails and
\* raises, with the buffer already changed.
Save(failedBefore, saved) ==
    LET failed == failedBefore + (IF saved THEN 0 ELSE 1) IN
    /\ faults + failed <= MaxFaults
    /\ faults' = faults + failed
    /\ disk' = IF saved THEN buffer' ELSE disk

Doubt(receipts) ==
    unsure' = unsure \cup receipts
                     \cup {r \in Receipts : (r \in Held(buffer')) # (r \in Held(disk'))}

\* _buffer_receipt.
BufferReceipt(r, saved, doubtful) ==
    /\ buffer' = Enqueue(buffer, [receipt |-> r, copy |-> 1])
    /\ dropped' = dropped \cup Evicted(buffer)
    /\ Save(0, saved)
    /\ Doubt(doubtful)
    /\ callers' = [callers EXCEPT ![r] = IF saved THEN "buffered" ELSE "failed"]

\* An error of the fallback is caught by emit_receipt as one of the post is: the
\* receipt, in the buffer but not on disk, is buffered again.
BufferAgain(r) ==
    \E saved \in BOOLEAN :
        LET once == Enqueue(buffer, [receipt |-> r, copy |-> 1]) IN
        /\ buffer' = Enqueue(once, [receipt |-> r, copy |-> 2])
        /\ dropped' = dropped \cup Evicted(buffer) \cup Evicted(once)
        /\ Save(1, saved)
        /\ Doubt({r})
        /\ callers' = [callers EXCEPT ![r] = IF saved THEN "buffered" ELSE "failed"]

\* ReceiptUnbufferable: the transition fails with the post.
Raise(r) ==
    /\ callers' = [callers EXCEPT ![r] = "failed"]
    /\ UNCHANGED <<buffer, disk, dropped, unsure, faults>>

Places(id) == {i \in DOMAIN buffer : buffer[i].id = id}

RemoveUnsaved(id) ==    \* mutant: the file is not rewritten
    IF Places(id) = {}
    THEN UNCHANGED <<buffer, disk, unsure, faults>>
    ELSE /\ \E i \in Places(id) : buffer' = RemoveAt(buffer, i)
         /\ UNCHANGED <<disk, unsure, faults>>

\* _remove_buffer_item: nothing to do if the item was evicted meanwhile.  An error
\* of the write is caught by the replay, whose _schedule_retry then finds no item.
RemoveBufferItem(id) ==
    IF Places(id) = {}
    THEN UNCHANGED <<buffer, disk, unsure, faults>>
    ELSE /\ \E i \in Places(id) : buffer' = RemoveAt(buffer, i)
         /\ \E saved \in BOOLEAN : Save(0, saved)
         /\ Doubt({})

IsSpentLate(item) == item.retries > MaxRetries    \* mutant: off by one
IsSpent(item)     == item.retries >= MaxRetries

DelayedUncounted(item) == [item EXCEPT !.due = FALSE]    \* mutant: retry_count kept
Delayed(item)          == [item EXCEPT !.retries = @ + 1, !.due = FALSE]

\* _schedule_retry: waits, or gives up after max_retries.  An error of the write
\* ends the replay, which otherwise goes on with rest.
ScheduleRetry(id, doubtful, rest) ==
    IF Places(id) = {}
    THEN /\ unsure' = unsure \cup doubtful
         /\ batch' = rest
         /\ UNCHANGED <<buffer, disk, dropped, faults>>
    ELSE \E i \in Places(id), saved \in BOOLEAN :
         /\ \/ /\ IsSpent(buffer[i])
               /\ buffer' = RemoveAt(buffer, i)
               /\ dropped' = dropped \cup {id}
            \/ /\ ~IsSpent(buffer[i])
               /\ buffer' = [buffer EXCEPT ![i] = Delayed(@)]
               /\ UNCHANGED dropped
         /\ Save(0, saved)
         /\ Doubt(doubtful)
         /\ batch' = IF saved THEN rest ELSE <<>>

----------------------------------------------------------------------------
(* ReceiptGate: _emit_to_receiptgate and the answer *)

\* A receipt it already has, it may also refuse (OBLIGATION_ALREADY_TERMINATED).
Accepts(r) == r \notin Objectionable /\ accepted' = accepted \cup {r}
Refuses(r) == r \in Objectionable \cup accepted /\ UNCHANGED accepted

\* The post fails, or the answer is lost: the client cannot tell them apart.
Fails(r) == UNCHANGED accepted
Loses(r) == r \notin Objectionable /\ accepted' = accepted \cup {r}

----------------------------------------------------------------------------
(* emit_receipt *)

\* The breaker lets the post through.
Post(r) ==
    /\ running
    /\ callers[r] = "new"
    /\ callers' = [callers EXCEPT ![r] = "posting"]
    /\ UNCHANGED <<running, buffer, disk, batch, posting, accepted,
                   dropped, unsure, faults, restarts>>

FallbackToBufferAll(r) ==    \* mutant: the phase is not looked at
    /\ running
    /\ callers[r] = "new"
    /\ BufferReceipt(r, TRUE, {}) \/ BufferAgain(r)
    /\ UNCHANGED <<running, batch, posting, accepted, restarts>>

\* The breaker turns it away.
FallbackToBuffer(r) ==
    /\ running
    /\ callers[r] = "new"
    /\ IF r \in Acceptances
       THEN Raise(r)
       ELSE BufferReceipt(r, TRUE, {}) \/ BufferAgain(r)
    /\ UNCHANGED <<running, batch, posting, accepted, restarts>>

PostAnswered(r) ==
    /\ callers[r] = "posting"
    /\ Accepts(r) \/ Refuses(r)
    /\ callers' = [callers EXCEPT ![r] = "answered"]
    /\ UNCHANGED <<running, buffer, disk, batch, posting, dropped, unsure,
                   faults, restarts>>

PostFailed(r) ==
    /\ callers[r] = "posting"
    /\ \E doubtful \in {{}, {r}} :
          /\ IF doubtful = {} THEN Fails(r) ELSE Loses(r)
          /\ IF r \in Acceptances
             THEN Raise(r)
             ELSE \E saved \in BOOLEAN : BufferReceipt(r, saved, doubtful)
    /\ UNCHANGED <<running, batch, posting, restarts>>

----------------------------------------------------------------------------
(* replay_buffered_receipts, called for ever by _replay_loop *)

DuePlaces == {i \in DOMAIN buffer : buffer[i].due}

\* The buffer is in the order of queued_at.
StartReplay ==
    /\ running
    /\ batch = <<>>
    /\ DuePlaces # {}
    /\ \E places \in SetToSeqs(DuePlaces) :
          /\ \A i, j \in DOMAIN places : i < j => places[i] < places[j]
          /\ batch' = [i \in 1..(IF Len(places) < BatchLimit THEN Len(places) ELSE BatchLimit)
                          |-> buffer[places[i]].id]
    /\ UNCHANGED <<running, buffer, disk, callers, posting, accepted,
                   dropped, unsure, faults, restarts>>

ReplayPostRemoving ==    \* mutant: taken out of the buffer before it is posted
    /\ batch # <<>>
    /\ ~posting
    /\ posting' = TRUE
    /\ RemoveBufferItem(Head(batch))
    /\ UNCHANGED <<running, callers, batch, accepted, dropped, restarts>>

\* Each receipt of the batch is posted, also one that was evicted meanwhile.
ReplayPost ==
    /\ batch # <<>>
    /\ ~posting
    /\ posting' = TRUE
    /\ UNCHANGED <<running, buffer, disk, callers, batch, accepted,
                   dropped, unsure, faults, restarts>>

\* CircuitBreakerOpen ends the replay; it counts as a retry.
ReplayBlocked ==
    /\ batch # <<>>
    /\ ~posting
    /\ ScheduleRetry(Head(batch), {}, <<>>)
    /\ UNCHANGED <<running, callers, posting, accepted, restarts>>

ReplayAccepted ==
    /\ posting
    /\ Accepts(Head(batch).receipt)
    /\ RemoveBufferItem(Head(batch))
    /\ batch' = Tail(batch)
    /\ posting' = FALSE
    /\ UNCHANGED <<running, callers, dropped, restarts>>

\* A refusal is handled like any other error.
ReplayFailed ==
    /\ posting
    /\ LET r == Head(batch).receipt IN
       \E doubtful \in {{}, {r}} :
          /\ IF doubtful = {} THEN Fails(r) \/ Refuses(r) ELSE Loses(r)
          /\ ScheduleRetry(Head(batch), doubtful, Tail(batch))
    /\ posting' = FALSE
    /\ UNCHANGED <<running, callers, restarts>>

\* next_retry_at of an item passes.
FallDue(i) ==
    /\ running
    /\ i \in DOMAIN buffer
    /\ ~buffer[i].due
    /\ buffer' = [buffer EXCEPT ![i].due = TRUE]
    /\ UNCHANGED <<running, disk, callers, batch, posting, accepted,
                   dropped, unsure, faults, restarts>>

----------------------------------------------------------------------------
(* The process *)

\* The first use of the client after a start makes it, loads the file and starts
\* the worker.  next_retry_at is on file: of an item retried before, it may be past.
GetClient ==
    /\ ~running
    /\ running' = TRUE
    /\ buffer' = [i \in DOMAIN disk |-> [disk[i] EXCEPT !.due = disk[i].retries = 0]]
    /\ UNCHANGED <<disk, callers, batch, posting, accepted, dropped,
                   unsure, faults, restarts>>

\* A crash, or a shutdown that does not wait: close cancels the replay after 2 s.
\* The posts in flight may reach ReceiptGate or not.
InFlight ==
    {r \in Receipts : callers[r] = "posting"} \cup
    (IF posting THEN {Head(batch).receipt} ELSE {})

Restart ==
    /\ running
    /\ restarts < MaxRestarts
    /\ restarts' = restarts + 1
    /\ running' = FALSE
    /\ buffer' = <<>>
    /\ batch' = <<>>
    /\ posting' = FALSE
    /\ callers' = [r \in Receipts |->
                      IF callers[r] = "posting" THEN "failed" ELSE callers[r]]
    /\ \E arrived \in SUBSET (InFlight \ Objectionable) : accepted' = accepted \cup arrived
    /\ unsure' = unsure \cup (InFlight \ Acceptances)
    /\ UNCHANGED <<disk, dropped, faults>>

Emission == \E r \in Receipts :
    Post(r) \/ FallbackToBuffer(r) \/ PostAnswered(r) \/ PostFailed(r)
Replay   == StartReplay \/ ReplayPost \/ ReplayBlocked \/ ReplayAccepted \/ ReplayFailed
Next     == Emission \/ Replay \/ (\E i \in 1..BufferSize : FallDue(i)) \/ GetClient \/ Restart

\* The loop goes round, posts have a timeout, and time passes.
Fairness ==
    /\ WF_vars(Replay)
    /\ \A i \in 1..BufferSize : WF_vars(FallDue(i))

Spec == Init /\ [][Next]_vars /\ Fairness

----------------------------------------------------------------------------
(* Properties *)

\* A receipt whose emitter was told "buffered" (and rolled its transaction back on
\* that word) is not lost in silence: at every moment, a crash included, it is on
\* disk, in ReceiptGate, or was given up with an error.
BufferedIsKept ==
    \A r \in Receipts :
        callers[r] = "buffered" =>
            r \in Held(disk) \cup accepted \cup {id.receipt : id \in dropped}

\* Nothing ReceiptGate has is posted again, unless an answer was lost, the process
\* died in between, or the buffer file could not be written.
Posted(r) ==
    \/ callers[r] = "new" /\ callers'[r] = "posting"
    \/ ~posting /\ posting' /\ Head(batch).receipt = r
NoNeedlessRepeat ==
    [][\A r \in accepted \ unsure : ~Posted(r)]_vars

\* Whatever ReceiptGate and the breaker do, nothing stays in the buffer for ever: it
\* is accepted or given up.  (After a restart, once something uses the client.)
Drains == []<>running => <>[](buffer = <<>>)

\* The client keeps the promise of module Delivery: of each receipt, what its emitter
\* is told and where it ends up go together, whatever the buffer, the file, the
\* replay and a restart do.  In particular an acceptance is settled for good when
\* its emitter knows, and nothing that was given up is posted after all.
Waits(r) ==
    \/ r \in Held(buffer) \cup Held(disk)
    \/ \E i \in DOMAIN batch : batch[i].receipt = r

Fate(r) ==
    IF r \in accepted THEN "accepted"
    ELSE IF callers[r] \in {"new", "posting"} THEN callers[r]
    ELSE IF Waits(r) THEN "waiting" ELSE "closed"

Word(r) == IF callers[r] \in {"new", "posting"} THEN "nothing" ELSE callers[r]

Promise == INSTANCE Delivery WITH
    fate <- [r \in Receipts |-> Fate(r)],
    told <- [r \in Receipts |-> Word(r)],
    reported <- {id.receipt : id \in dropped}
ImplementsDelivery == Promise!DeliverySpec
=============================================================================
