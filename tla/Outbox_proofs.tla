----------------------------- MODULE Outbox_proofs -----------------------------
(***************************************************************************)
(* What TLAPS proves of Outbox, for any receipts, buffer size, number of   *)
(* retries, failed writes and restarts.                                    *)
(***************************************************************************)
EXTENDS Outbox, FiniteSetTheorems, SequenceTheorems, TLAPS

LEMMA Sizes ==
    /\ BufferSize \in Nat /\ BufferSize >= 1
    /\ MaxRetries \in Nat
BY OutboxAssumption

----------------------------------------------------------------------------
(* The buffer *)

Bounded(items) == items \in Seq(Items) /\ Len(items) <= BufferSize

Ids(items) == {items[i].id : i \in DOMAIN items}

LEMMA NewItem ==
    ASSUME NEW id \in BufferIds
    PROVE  [id |-> id, retries |-> 0, due |-> TRUE] \in Items
BY Sizes DEF Items

\* Whatever was in the buffer is in it after an emission, or was evicted.
LEMMA Enqueued ==
    ASSUME NEW items, Bounded(items), NEW id \in BufferIds
    PROVE  /\ Bounded(Enqueue(items, id))
           /\ id \in Ids(Enqueue(items, id))
           /\ Ids(items) \subseteq Ids(Enqueue(items, id)) \cup Evicted(items)
<1> DEFINE new  == [id |-> id, retries |-> 0, due |-> TRUE]
           rest == IF Len(items) >= BufferSize THEN Tail(items) ELSE items
<1>1. new \in Items /\ new.id = id
  BY NewItem
<1>2. items \in Seq(Items) /\ Len(items) \in Nat /\ Len(items) <= BufferSize
  BY DEF Bounded
<1>3. /\ rest \in Seq(Items) /\ Len(rest) < BufferSize
      /\ \A i \in DOMAIN items :
            (\E j \in DOMAIN rest : rest[j] = items[i]) \/ items[i].id \in Evicted(items)
  <2>1. CASE Len(items) >= BufferSize
    <3>1. items # <<>>
      BY <1>2, <2>1, Sizes
    <3>2. /\ Tail(items) \in Seq(Items) /\ Len(Tail(items)) = Len(items) - 1
          /\ \A j \in 1..Len(Tail(items)) : Tail(items)[j] = items[j + 1]
      BY <1>2, <3>1, HeadTailProperties
    <3>3. DOMAIN items = 1..Len(items) /\ DOMAIN Tail(items) = 1..Len(items) - 1
      BY <1>2, <3>2
    <3>4. ASSUME NEW i \in DOMAIN items, i # 1
          PROVE  \E j \in DOMAIN Tail(items) : Tail(items)[j] = items[i]
      <4>1. i - 1 \in 1..Len(items) - 1 /\ (i - 1) + 1 = i
        BY <1>2, <3>3, <3>4
      <4>. QED  BY <3>2, <3>3, <4>1
    <3>5. Evicted(items) = {items[1].id}
      BY <2>1 DEF Evicted
    <3>. QED  BY <1>2, <2>1, <3>2, <3>3, <3>4, <3>5, Sizes
  <2>2. CASE ~(Len(items) >= BufferSize)
    BY <1>2, <2>2, Sizes
  <2>. QED  BY <2>1, <2>2
<1> HIDE DEF rest, new
<1>4. /\ Append(rest, new) \in Seq(Items)
      /\ Len(Append(rest, new)) = Len(rest) + 1
      /\ \A j \in 1..Len(rest) : Append(rest, new)[j] = rest[j]
      /\ Append(rest, new)[Len(rest) + 1] = new
  BY <1>1, <1>3, AppendProperties
<1>5. /\ DOMAIN rest = 1..Len(rest) /\ Len(rest) \in Nat
      /\ DOMAIN Append(rest, new) = 1..Len(rest) + 1
  BY <1>3, <1>4
<1>6. Enqueue(items, id) = Append(rest, new)
  BY DEF Enqueue, rest, new
<1>7. Bounded(Append(rest, new))
  BY <1>3, <1>4, <1>5, Sizes DEF Bounded
<1>8. id \in Ids(Append(rest, new))
  <2>1. Len(rest) + 1 \in DOMAIN Append(rest, new)
    BY <1>5
  <2>. QED  BY <1>1, <1>4, <2>1 DEF Ids
<1>9. \A j \in DOMAIN rest : j \in DOMAIN Append(rest, new) /\ Append(rest, new)[j] = rest[j]
  BY <1>4, <1>5
<1>10. Ids(items) \subseteq Ids(Append(rest, new)) \cup Evicted(items)
  BY <1>3, <1>9 DEF Ids
<1>. QED  BY <1>6, <1>7, <1>8, <1>10

LEMMA Removed ==
    ASSUME NEW items, Bounded(items), NEW i \in DOMAIN items
    PROVE  /\ Bounded(RemoveAt(items, i))
           /\ Ids(items) \subseteq Ids(RemoveAt(items, i)) \cup {items[i].id}
<1> DEFINE front == SubSeq(items, 1, i - 1)
           back  == SubSeq(items, i + 1, Len(items))
<1>1. /\ items \in Seq(Items) /\ Len(items) \in Nat /\ Len(items) <= BufferSize
      /\ DOMAIN items = 1..Len(items) /\ i \in 1..Len(items)
  BY DEF Bounded
<1>2. /\ front \in Seq(Items) /\ Len(front) = i - 1
      /\ \A j \in 1..i - 1 : front[j] = items[j]
  <2>1. \A j \in 1..i - 1 : j \in 1..Len(items)
    BY <1>1
  <2>. QED  BY <1>1, <2>1, SubSeqProperties
<1>3. /\ back \in Seq(Items) /\ Len(back) = Len(items) - i
      /\ \A j \in 1..Len(items) - i : back[j] = items[i + j]
  <2>1. \A j \in i + 1..Len(items) : j \in 1..Len(items)
    BY <1>1
  <2>. QED  BY <1>1, <2>1, SubSeqProperties
<1> HIDE DEF front, back
<1> DEFINE all == front \o back
<1>4. /\ all \in Seq(Items)
      /\ Len(all) = Len(items) - 1
      /\ \A j \in 1..Len(items) - 1 :
            all[j] = IF j <= i - 1 THEN front[j] ELSE back[j - (i - 1)]
  <2>1. Len(front) + Len(back) = Len(items) - 1
    BY <1>1, <1>2, <1>3
  <2>2. /\ front \o back \in Seq(Items)
        /\ Len(front \o back) = Len(front) + Len(back)
        /\ \A j \in 1..Len(front) + Len(back) :
              (front \o back)[j] = IF j <= Len(front) THEN front[j] ELSE back[j - Len(front)]
    BY <1>2, <1>3, ConcatProperties
  <2>. QED  BY <1>2, <2>1, <2>2 DEF all
<1> HIDE DEF all
<1>5. DOMAIN all = 1..Len(items) - 1
  BY <1>1, <1>4
<1>6. ASSUME NEW k \in DOMAIN items, k # i
      PROVE  items[k].id \in Ids(all)
  <2>1. CASE k < i
    <3>1. k \in 1..Len(items) - 1 /\ k \in 1..i - 1 /\ k <= i - 1
      BY <1>1, <2>1
    <3>. QED  BY <1>2, <1>4, <1>5, <3>1 DEF Ids
  <2>2. CASE k > i
    <3>1. /\ k - 1 \in 1..Len(items) - 1 /\ ~(k - 1 <= i - 1)
          /\ (k - 1) - (i - 1) = k - i /\ k - i \in 1..Len(items) - i /\ i + (k - i) = k
      BY <1>1, <2>2
    <3>. QED  BY <1>3, <1>4, <1>5, <3>1 DEF Ids
  <2>. QED  BY <1>1, <1>6, <2>1, <2>2
<1>7. RemoveAt(items, i) = all
  BY DEF RemoveAt, all, front, back
<1>8. Bounded(all)
  BY <1>1, <1>4, Sizes DEF Bounded
<1>. QED  BY <1>6, <1>7, <1>8 DEF Ids

\* An item that is only rescheduled stays where it is.
LEMMA Rescheduled ==
    ASSUME NEW items, Bounded(items), NEW i \in DOMAIN items, NEW new \in Items,
           new.id = items[i].id
    PROVE  /\ Bounded([items EXCEPT ![i] = new])
           /\ Ids([items EXCEPT ![i] = new]) = Ids(items)
<1>1. items \in Seq(Items) /\ Len(items) <= BufferSize /\ i \in 1..Len(items)
  BY DEF Bounded
<1>2. [items EXCEPT ![i] = new] \in Seq(Items) /\ Len([items EXCEPT ![i] = new]) = Len(items)
  BY <1>1
<1>3. /\ DOMAIN [items EXCEPT ![i] = new] = DOMAIN items
      /\ \A j \in DOMAIN items : [items EXCEPT ![i] = new][j].id = items[j].id
  OBVIOUS
<1>. QED  BY <1>1, <1>2, <1>3 DEF Bounded, Ids

----------------------------------------------------------------------------
(* What every step does to the buffer *)

BufferTyped == Bounded(buffer) /\ Bounded(disk)

\* What was in the buffer is still in it, or is accounted for.
Accounted ==
    \A id \in Ids(buffer) :
        id \in Ids(buffer') \cup dropped' \/ id.receipt \in accepted'

\* The file is as it was, or the new buffer.
Filed == disk' = disk \/ disk' = buffer'

\* Nothing is taken back, and only what is in the file is said to be buffered.
Honest ==
    /\ accepted \subseteq accepted'
    /\ dropped \subseteq dropped'
    /\ \A r \in Receipts :
          callers'[r] = "buffered" =>
              callers[r] = "buffered" \/ (r \in Held(buffer') /\ disk' = buffer')

BufferStep == Bounded(buffer') /\ Accounted /\ Filed /\ Honest

\* The client is not used before it exists.
InUse ==
    /\ \A r \in Receipts : callers[r] = "posting" => running
    /\ posting => running
    /\ batch # <<>> => running

CallersType == callers \in [Receipts -> Phases]

LEMMA HeldIds ==
    ASSUME NEW items, NEW id \in Ids(items)
    PROVE  id.receipt \in Held(items)
BY DEF Held, Ids

LEMMA IdsHeld ==
    ASSUME NEW items, NEW r \in Held(items)
    PROVE  \E id \in Ids(items) : id.receipt = r
BY DEF Held, Ids

LEMMA SaveFiles ==
    ASSUME NEW n \in 0..1, NEW saved \in BOOLEAN, Save(n, saved)
    PROVE  Filed /\ (saved => disk' = buffer')
BY DEF Save, Filed

LEMMA FirstId ==
    ASSUME NEW r \in Receipts, NEW c \in {1, 2}
    PROVE  [receipt |-> r, copy |-> c] \in BufferIds
BY DEF BufferIds

LEMMA Buffering ==
    ASSUME BufferTyped, CallersType, NEW r \in Receipts, NEW saved \in BOOLEAN,
           NEW doubtful, BufferReceipt(r, saved, doubtful), accepted \subseteq accepted'
    PROVE  BufferStep
<1> DEFINE id == [receipt |-> r, copy |-> 1]
<1>1. id \in BufferIds /\ id.receipt = r
  BY FirstId
<1>2. buffer' = Enqueue(buffer, id) /\ dropped' = dropped \cup Evicted(buffer)
  BY DEF BufferReceipt
<1>3. /\ Bounded(buffer') /\ id \in Ids(buffer')
      /\ Ids(buffer) \subseteq Ids(buffer') \cup Evicted(buffer)
  BY <1>1, <1>2, Enqueued DEF BufferTyped
<1>4. Filed /\ (saved => disk' = buffer')
  BY SaveFiles DEF BufferReceipt
<1>5. r \in Held(buffer')
  BY <1>1, <1>3, HeldIds
<1>6. \A q \in Receipts : callers'[q] = "buffered" => callers[q] = "buffered" \/ (q = r /\ saved)
  BY DEF BufferReceipt, CallersType
<1>. QED  BY <1>2, <1>3, <1>4, <1>5, <1>6 DEF BufferStep, Accounted, Honest

LEMMA BufferingAgain ==
    ASSUME BufferTyped, CallersType, NEW r \in Receipts, BufferAgain(r), UNCHANGED accepted
    PROVE  BufferStep
<1> DEFINE id   == [receipt |-> r, copy |-> 1]
           id2  == [receipt |-> r, copy |-> 2]
           once == Enqueue(buffer, id)
<1>1. id \in BufferIds /\ id2 \in BufferIds /\ id2.receipt = r
  BY FirstId
<1>2. PICK saved \in BOOLEAN :
        /\ buffer' = Enqueue(once, id2)
        /\ dropped' = dropped \cup Evicted(buffer) \cup Evicted(once)
        /\ Save(1, saved)
        /\ callers' = [callers EXCEPT ![r] = IF saved THEN "buffered" ELSE "failed"]
  BY DEF BufferAgain
<1>3. Bounded(once) /\ Ids(buffer) \subseteq Ids(once) \cup Evicted(buffer)
  BY <1>1, Enqueued DEF BufferTyped
<1> HIDE DEF once, id, id2
<1>4. /\ Bounded(buffer') /\ id2 \in Ids(buffer')
      /\ Ids(once) \subseteq Ids(buffer') \cup Evicted(once)
  BY <1>1, <1>2, <1>3, Enqueued
<1>5. Filed /\ (saved => disk' = buffer')
  BY <1>2, SaveFiles
<1>6. r \in Held(buffer')
  BY <1>1, <1>4, HeldIds
<1>7. \A q \in Receipts : callers'[q] = "buffered" => callers[q] = "buffered" \/ (q = r /\ saved)
  BY <1>2 DEF CallersType
<1>. QED  BY <1>2, <1>3, <1>4, <1>5, <1>6, <1>7 DEF BufferStep, Accounted, Honest

\* Steps that leave the buffer and what was promised alone.
LEMMA Unbuffered ==
    ASSUME BufferTyped, UNCHANGED <<buffer, disk, dropped>>, accepted \subseteq accepted',
           \A r \in Receipts : callers'[r] = "buffered" => callers[r] = "buffered"
    PROVE  BufferStep
BY DEF BufferStep, BufferTyped, Accounted, Filed, Honest

LEMMA Removing ==
    ASSUME BufferTyped, NEW id, RemoveBufferItem(id), id.receipt \in accepted',
           accepted \subseteq accepted', UNCHANGED <<callers, dropped>>
    PROVE  BufferStep
<1>1. CASE Places(id) = {}
  BY <1>1, Unbuffered DEF RemoveBufferItem
<1>2. CASE Places(id) # {}
  <2>1. PICK i \in Places(id) : buffer' = RemoveAt(buffer, i)
    BY <1>2 DEF RemoveBufferItem
  <2>2. PICK saved \in BOOLEAN : Save(0, saved)
    BY <1>2 DEF RemoveBufferItem
  <2>3. i \in DOMAIN buffer /\ buffer[i].id = id
    BY DEF Places
  <2>4. Bounded(buffer') /\ Ids(buffer) \subseteq Ids(buffer') \cup {id}
    BY <2>1, <2>3, Removed DEF BufferTyped
  <2>5. Filed
    BY <2>2, SaveFiles
  <2>. QED  BY <2>4, <2>5 DEF BufferStep, Accounted, Honest
<1>. QED  BY <1>1, <1>2

LEMMA DelayedItem ==
    ASSUME NEW item \in Items, ~IsSpent(item)
    PROVE  Delayed(item) \in Items /\ Delayed(item).id = item.id
<1>1. item.retries + 1 \in 0..MaxRetries /\ item.id \in BufferIds
  BY Sizes DEF IsSpent, Items
<1>2. PICK counted : counted = [item EXCEPT !.retries = item.retries + 1]
  OBVIOUS
<1>3. counted \in Items /\ counted.id = item.id
  BY <1>1, <1>2 DEF Items
<1>4. Delayed(item) = [counted EXCEPT !.due = FALSE]
  BY <1>2, Zenon DEF Delayed
<1>. QED  BY <1>3, <1>4 DEF Items

LEMMA Scheduling ==
    ASSUME BufferTyped, NEW id, NEW doubtful, NEW rest, ScheduleRetry(id, doubtful, rest),
           accepted \subseteq accepted', UNCHANGED callers
    PROVE  BufferStep
<1>1. CASE Places(id) = {}
  BY <1>1, Unbuffered DEF ScheduleRetry
<1>2. CASE Places(id) # {}
  <2>1. PICK i \in Places(id), saved \in BOOLEAN :
           /\ \/ /\ IsSpent(buffer[i])
                 /\ buffer' = RemoveAt(buffer, i)
                 /\ dropped' = dropped \cup {id}
              \/ /\ ~IsSpent(buffer[i])
                 /\ buffer' = [buffer EXCEPT ![i] = Delayed(@)]
                 /\ UNCHANGED dropped
           /\ Save(0, saved)
    BY <1>2 DEF ScheduleRetry
  <2>2. i \in DOMAIN buffer /\ buffer[i].id = id /\ buffer[i] \in Items
    BY DEF Places, BufferTyped, Bounded
  <2>3. Filed
    BY <2>1, SaveFiles
  <2>4. CASE IsSpent(buffer[i])
    <3>1. Bounded(buffer') /\ Ids(buffer) \subseteq Ids(buffer') \cup {id}
      BY <2>1, <2>2, <2>4, Removed DEF BufferTyped
    <3>. QED  BY <2>1, <2>3, <2>4, <3>1 DEF BufferStep, Accounted, Honest
  <2>5. CASE ~IsSpent(buffer[i])
    <3>1. Delayed(buffer[i]) \in Items /\ Delayed(buffer[i]).id = buffer[i].id
      BY <2>2, <2>5, DelayedItem
    <3>2. Bounded(buffer') /\ Ids(buffer') = Ids(buffer)
      BY <2>1, <2>2, <2>5, <3>1, Rescheduled DEF BufferTyped
    <3>. QED  BY <2>1, <2>3, <2>5, <3>2 DEF BufferStep, Accounted, Honest
  <2>. QED  BY <2>4, <2>5
<1>. QED  BY <1>1, <1>2

----------------------------------------------------------------------------
(* The invariant                                                            *)
(*                                                                          *)
(* BufferedIsKept speaks of the file only.  But an eviction takes its item  *)
(* from the buffer, and the next write makes the buffer the file: what was  *)
(* promised has to be in both, while there is a buffer.                     *)

Tracked(r, items) == r \in Held(items) \cup accepted \cup {id.receipt : id \in dropped}

KeptInv ==
    \A r \in Receipts :
        callers[r] = "buffered" => Tracked(r, disk) /\ (running => Tracked(r, buffer))

Inv == BufferTyped /\ CallersType /\ InUse /\ KeptInv

LEMMA InvInit == Init => Inv
<1> SUFFICES ASSUME Init PROVE Inv
  OBVIOUS
<1>1. Bounded(<<>>)
  BY Sizes DEF Bounded
<1>2. BufferTyped /\ CallersType
  BY <1>1 DEF Init, BufferTyped, CallersType, Phases
<1>. QED  BY <1>2 DEF Init, Inv, InUse, KeptInv

\* What a step of the buffer does to a promise.
LEMMA KeptStep ==
    ASSUME KeptInv, BufferStep, running
    PROVE  KeptInv'
<1> SUFFICES ASSUME NEW r \in Receipts, callers'[r] = "buffered"
             PROVE  Tracked(r, disk)' /\ Tracked(r, buffer)'
  BY DEF KeptInv
<1>1. /\ accepted \subseteq accepted' /\ dropped \subseteq dropped'
      /\ disk' = disk \/ disk' = buffer'
      /\ callers[r] = "buffered" \/ (r \in Held(buffer') /\ disk' = buffer')
  BY DEF BufferStep, Honest, Filed
<1>2. CASE callers[r] # "buffered"
  BY <1>1, <1>2 DEF Tracked
<1>3. CASE callers[r] = "buffered"
  <2>1. Tracked(r, disk) /\ Tracked(r, buffer)
    BY <1>3 DEF KeptInv
  <2>2. Tracked(r, buffer)'
    <3>1. CASE r \in Held(buffer)
      <4>1. PICK id \in Ids(buffer) : id.receipt = r
        BY <3>1, IdsHeld
      <4>2. id \in Ids(buffer') \/ id \in dropped' \/ id.receipt \in accepted'
        BY DEF BufferStep, Accounted
      <4>3. id \in Ids(buffer') => r \in Held(buffer')
        BY <4>1, HeldIds
      <4>. QED  BY <4>1, <4>2, <4>3 DEF Tracked
    <3>2. CASE r \notin Held(buffer)
      BY <1>1, <2>1, <3>2 DEF Tracked
    <3>. QED  BY <3>1, <3>2
  <2>3. disk' = disk => Tracked(r, disk)'
    BY <1>1, <2>1 DEF Tracked
  <2>4. disk' = buffer' => Tracked(r, disk)'
    BY <2>2 DEF Tracked
  <2>. QED  BY <1>1, <2>2, <2>3, <2>4
<1>. QED  BY <1>2, <1>3

\* A step of a client in use that leaves it in use.
LEMMA InvStep ==
    ASSUME Inv, BufferStep, running, running', Filed, CallersType'
    PROVE  Inv'
<1>1. KeptInv'
  BY KeptStep DEF Inv
<1>2. BufferTyped'
  BY DEF Inv, BufferTyped, BufferStep, Filed
<1>. QED  BY <1>1, <1>2 DEF Inv, InUse

LEMMA Emitting ==
    ASSUME Inv, NEW r \in Receipts,
           Post(r) \/ FallbackToBuffer(r) \/ PostAnswered(r) \/ PostFailed(r)
    PROVE  Inv'
<1>1. /\ running /\ running' /\ accepted \subseteq accepted'
  <2>1. CASE Post(r)
    BY <2>1 DEF Post
  <2>2. CASE FallbackToBuffer(r)
    BY <2>2 DEF FallbackToBuffer
  <2>3. CASE PostAnswered(r)
    BY <2>3 DEF PostAnswered, Accepts, Refuses, Inv, InUse
  <2>4. CASE PostFailed(r)
    BY <2>4 DEF PostFailed, Fails, Loses, Inv, InUse
  <2>. QED  BY <2>1, <2>2, <2>3, <2>4
<1>2. BufferTyped /\ CallersType
  BY DEF Inv
<1>3. /\ CallersType'
      /\ \/ BufferStep
         \/ /\ UNCHANGED <<buffer, disk, dropped>>
            /\ \A q \in Receipts : callers'[q] = "buffered" => callers[q] = "buffered"
  <2>1. CASE Post(r) \/ PostAnswered(r)
    BY <1>2, <2>1 DEF Post, PostAnswered, CallersType, Phases
  <2>2. CASE Raise(r)
    BY <1>2, <2>2 DEF Raise, CallersType, Phases
  <2>3. ASSUME NEW saved \in BOOLEAN, NEW doubtful, BufferReceipt(r, saved, doubtful)
        PROVE  CallersType' /\ BufferStep
    <3>1. BufferStep
      BY <1>1, <1>2, <2>3, Buffering
    <3>2. CallersType'
      BY <1>2, <2>3 DEF BufferReceipt, CallersType, Phases
    <3>. QED  BY <3>1, <3>2
  <2>4. ASSUME BufferAgain(r), UNCHANGED accepted
        PROVE  CallersType' /\ BufferStep
    <3>1. BufferStep
      BY <1>2, <2>4, BufferingAgain
    <3>2. CallersType'
      BY <1>2, <2>4 DEF BufferAgain, CallersType, Phases
    <3>. QED  BY <3>1, <3>2
  <2>5. CASE FallbackToBuffer(r)
    <3>1. UNCHANGED accepted /\ (Raise(r) \/ BufferReceipt(r, TRUE, {}) \/ BufferAgain(r))
      BY <2>5 DEF FallbackToBuffer
    <3>. QED  BY <2>2, <2>3, <2>4, <3>1
  <2>6. CASE PostFailed(r)
    <3>1. Raise(r) \/ \E saved \in BOOLEAN, doubtful \in {{}, {r}} :
                         BufferReceipt(r, saved, doubtful)
      BY <2>6 DEF PostFailed
    <3>. QED  BY <2>2, <2>3, <3>1
  <2>. QED  BY <2>1, <2>5, <2>6
<1>4. BufferStep
  BY <1>1, <1>2, <1>3, Unbuffered
<1>5. Filed
  BY <1>4 DEF BufferStep
<1>. QED  BY <1>1, <1>3, <1>4, <1>5, InvStep

LEMMA Replaying ==
    ASSUME Inv, Replay
    PROVE  Inv'
<1>1. running /\ running' /\ accepted \subseteq accepted' /\ UNCHANGED callers
  <2>1. CASE StartReplay
    BY <2>1 DEF StartReplay
  <2>2. CASE ReplayPost
    BY <2>2 DEF ReplayPost, Inv, InUse
  <2>3. CASE ReplayBlocked
    BY <2>3 DEF ReplayBlocked, Inv, InUse
  <2>4. CASE ReplayAccepted
    BY <2>4 DEF ReplayAccepted, Accepts, Inv, InUse
  <2>5. CASE ReplayFailed
    BY <2>5 DEF ReplayFailed, Fails, Loses, Refuses, Inv, InUse
  <2>. QED  BY <2>1, <2>2, <2>3, <2>4, <2>5 DEF Replay
<1>2. BufferTyped /\ CallersType /\ CallersType'
  BY <1>1 DEF Inv, CallersType
<1>3. BufferStep
  <2>1. CASE StartReplay \/ ReplayPost
    BY <1>1, <1>2, <2>1, Unbuffered DEF StartReplay, ReplayPost
  <2>2. CASE ReplayBlocked
    BY <1>1, <1>2, <2>2, Scheduling DEF ReplayBlocked
  <2>3. CASE ReplayAccepted
    <3>1. RemoveBufferItem(Head(batch)) /\ Head(batch).receipt \in accepted' /\ UNCHANGED dropped
      BY <2>3 DEF ReplayAccepted, Accepts
    <3>. QED  BY <1>1, <1>2, <3>1, Removing
  <2>4. CASE ReplayFailed
    <3>1. PICK doubtful : ScheduleRetry(Head(batch), doubtful, Tail(batch))
      BY <2>4 DEF ReplayFailed
    <3>. QED  BY <1>1, <1>2, <3>1, Scheduling
  <2>. QED  BY <2>1, <2>2, <2>3, <2>4 DEF Replay
<1>4. Filed
  BY <1>3 DEF BufferStep
<1>. QED  BY <1>1, <1>2, <1>3, <1>4, InvStep

LEMMA Due ==
    ASSUME Inv, NEW i \in 1..BufferSize, FallDue(i)
    PROVE  Inv'
<1>1. /\ running /\ running' /\ i \in DOMAIN buffer
      /\ UNCHANGED <<disk, callers, dropped, accepted>>
      /\ buffer' = [buffer EXCEPT ![i].due = TRUE]
  BY DEF FallDue
<1>2. PICK new : new = [buffer[i] EXCEPT !.due = TRUE]
  OBVIOUS
<1>3. buffer[i] \in Items /\ BufferTyped /\ CallersType
  BY <1>1 DEF Inv, BufferTyped, Bounded
<1>4. new \in Items /\ new.id = buffer[i].id
  BY <1>2, <1>3 DEF Items
<1>5. buffer' = [buffer EXCEPT ![i] = new]
  BY <1>1, <1>2
<1>6. Bounded(buffer') /\ Ids(buffer') = Ids(buffer)
  <2>1. /\ Bounded([buffer EXCEPT ![i] = new])
        /\ Ids([buffer EXCEPT ![i] = new]) = Ids(buffer)
    BY <1>1, <1>3, <1>4, Rescheduled DEF BufferTyped
  <2>. QED  BY <1>5, <2>1
<1>7. BufferStep /\ Filed
  BY <1>1, <1>6 DEF BufferStep, Accounted, Filed, Honest
<1>8. CallersType'
  BY <1>1, <1>3 DEF CallersType
<1>. QED  BY <1>1, <1>7, <1>8, InvStep

\* What is loaded is what was in the file.
LEMMA Loading ==
    ASSUME Inv, GetClient
    PROVE  Inv'
<1>1. /\ UNCHANGED <<disk, callers, batch, posting, accepted, dropped>> /\ running'
      /\ buffer' = [i \in DOMAIN disk |-> [disk[i] EXCEPT !.due = disk[i].retries = 0]]
  BY DEF GetClient
<1>2. Bounded(disk) /\ CallersType
  BY DEF Inv, BufferTyped
<1>3. \A i \in DOMAIN disk :
         /\ [disk[i] EXCEPT !.due = disk[i].retries = 0] \in Items
         /\ [disk[i] EXCEPT !.due = disk[i].retries = 0].id = disk[i].id
  <2> SUFFICES ASSUME NEW i \in DOMAIN disk
               PROVE  /\ [disk[i] EXCEPT !.due = disk[i].retries = 0] \in Items
                      /\ [disk[i] EXCEPT !.due = disk[i].retries = 0].id = disk[i].id
    OBVIOUS
  <2>1. disk[i] \in Items /\ (disk[i].retries = 0) \in BOOLEAN
    BY <1>2 DEF Bounded
  <2>. QED  BY <2>1 DEF Items
<1>4. /\ DOMAIN buffer' = DOMAIN disk
      /\ \A i \in DOMAIN disk : buffer'[i] \in Items /\ buffer'[i].id = disk[i].id
  BY <1>1, <1>3
<1>5. disk \in Seq(Items) /\ DOMAIN disk = 1..Len(disk) /\ Len(disk) \in Nat
  BY <1>2 DEF Bounded
<1>6. buffer' \in Seq(Items) /\ Len(buffer') = Len(disk)
  BY <1>1, <1>4, <1>5, IsASeq
<1>7. BufferTyped'
  BY <1>1, <1>2, <1>6 DEF BufferTyped, Bounded
<1>8. Held(buffer') = Held(disk)
  BY <1>4 DEF Held
<1>9. KeptInv'
  BY <1>1, <1>8 DEF Inv, KeptInv, Tracked
<1>. QED  BY <1>1, <1>2, <1>7, <1>9 DEF Inv, InUse, CallersType

LEMMA Restarting ==
    ASSUME Inv, Restart
    PROVE  Inv'
<1>1. /\ ~running' /\ ~posting' /\ batch' = <<>> /\ buffer' = <<>>
      /\ UNCHANGED <<disk, dropped>> /\ accepted \subseteq accepted'
      /\ callers' = [r \in Receipts |->
                        IF callers[r] = "posting" THEN "failed" ELSE callers[r]]
  BY DEF Restart
<1>2. BufferTyped'
  BY <1>1, Sizes DEF Inv, BufferTyped, Bounded
<1>3. CallersType'
  BY <1>1 DEF Inv, CallersType, Phases
<1>4. \A r \in Receipts : callers'[r] # "posting" /\ (callers'[r] = "buffered" => callers[r] = "buffered")
  BY <1>1
<1>5. KeptInv'
  BY <1>1, <1>4 DEF Inv, KeptInv, Tracked
<1>. QED  BY <1>1, <1>2, <1>3, <1>4, <1>5 DEF Inv, InUse

LEMMA InvNext == Inv /\ [Next]_vars => Inv'
<1>1. ASSUME Inv, UNCHANGED vars
      PROVE  Inv'
  BY <1>1 DEF vars, Inv, BufferTyped, CallersType, InUse, KeptInv, Tracked
<1>2. ASSUME Inv, Next
      PROVE  Inv'
  BY <1>2, Emitting, Replaying, Due, Loading, Restarting DEF Next, Emission
<1>. QED  BY <1>1, <1>2

\* Of a receipt whose emitter was told that it is buffered, the client loses nothing
\* in silence, for any size of the buffer, also if writes fail and it is restarted.
THEOREM KeptCorrect == Spec => []BufferedIsKept
<1>1. Inv => BufferedIsKept
  BY DEF Inv, KeptInv, Tracked, BufferedIsKept
<1>. QED  BY <1>1, InvInit, InvNext, PTL DEF Spec

BufferBounded ==
    \A items \in {buffer, disk} :
        /\ Len(items) <= BufferSize
        /\ \A i \in DOMAIN items : items[i].retries <= MaxRetries

\* The buffer and its file stay within receiptgate_emission_buffer_size, and no item in
\* them has been retried more than max_retries times.
THEOREM BoundedCorrect == Spec => []BufferBounded
<1>1. Inv => BufferBounded
  <2>1. ASSUME NEW items, Bounded(items)
        PROVE  Len(items) <= BufferSize /\ \A i \in DOMAIN items : items[i].retries <= MaxRetries
    <3>1. Len(items) <= BufferSize /\ \A i \in DOMAIN items : items[i] \in Items
      BY <2>1 DEF Bounded
    <3>. QED  BY <3>1, Sizes DEF Items
  <2>. QED  BY <2>1 DEF Inv, BufferTyped, BufferBounded
<1>. QED  BY <1>1, InvInit, InvNext, PTL DEF Spec

----------------------------------------------------------------------------
(* Ids                                                                      *)
(*                                                                          *)
(* NoNeedlessRepeat and the promise of Delivery are about what a step does  *)
(* not bring back, so the other direction is needed: where the ids in the   *)
(* buffer, in its file and in the batch come from, and that each is there   *)
(* once.                                                                    *)

Distinct(items) == \A i, j \in DOMAIN items : items[i].id = items[j].id => i = j

LEMMA EnqueuedPlaces ==
    ASSUME NEW items, Bounded(items), NEW id \in BufferIds
    PROVE  LET new == Enqueue(items, id) IN
           \E k \in 0..1, n \in Nat :
              /\ DOMAIN items = 1..n + k /\ DOMAIN new = 1..n + 1
              /\ \A j \in 1..n : new[j] = items[j + k]
              /\ new[n + 1].id = id
<1> DEFINE item == [id |-> id, retries |-> 0, due |-> TRUE]
           rest == IF Len(items) >= BufferSize THEN Tail(items) ELSE items
<1>1. item \in Items /\ item.id = id
  BY NewItem
<1>2. items \in Seq(Items) /\ Len(items) \in Nat /\ DOMAIN items = 1..Len(items)
  BY DEF Bounded
<1>3. \E k \in 0..1 : /\ rest \in Seq(Items) /\ Len(items) = Len(rest) + k
                      /\ \A j \in 1..Len(rest) : rest[j] = items[j + k]
  <2>1. CASE Len(items) >= BufferSize
    <3>1. items # <<>>
      BY <1>2, <2>1, Sizes
    <3>2. /\ Tail(items) \in Seq(Items) /\ Len(Tail(items)) = Len(items) - 1
          /\ \A j \in 1..Len(Tail(items)) : Tail(items)[j] = items[j + 1]
      BY <1>2, <3>1, HeadTailProperties
    <3>3. rest = Tail(items) /\ Len(items) = Len(Tail(items)) + 1
      BY <1>2, <2>1, <3>2
    <3> HIDE DEF rest
    <3>. WITNESS 1 \in 0..1
    <3>. QED  BY <3>2, <3>3
  <2>2. CASE ~(Len(items) >= BufferSize)
    <3>1. rest = items /\ Len(items) = Len(items) + 0 /\ \A j \in 1..Len(items) : j + 0 = j
      BY <1>2, <2>2
    <3> HIDE DEF rest
    <3>. WITNESS 0 \in 0..1
    <3>. QED  BY <1>2, <3>1
  <2>. QED  BY <2>1, <2>2
<1> HIDE DEF rest, item
<1>4. PICK k \in 0..1 : /\ rest \in Seq(Items) /\ Len(items) = Len(rest) + k
                       /\ \A j \in 1..Len(rest) : rest[j] = items[j + k]
  BY <1>3
<1>5. /\ Append(rest, item) \in Seq(Items)
      /\ Len(Append(rest, item)) = Len(rest) + 1
      /\ \A j \in 1..Len(rest) : Append(rest, item)[j] = rest[j]
      /\ Append(rest, item)[Len(rest) + 1] = item
  BY <1>1, <1>4, AppendProperties
<1>6. Len(rest) \in Nat /\ DOMAIN Append(rest, item) = 1..Len(rest) + 1
  BY <1>4, <1>5
<1>7. Enqueue(items, id) = Append(rest, item)
  BY DEF Enqueue, rest, item
<1>. QED  BY <1>1, <1>2, <1>4, <1>5, <1>6, <1>7

LEMMA EnqueuedIds ==
    ASSUME NEW items, Bounded(items), Distinct(items), NEW id \in BufferIds, id \notin Ids(items)
    PROVE  /\ Ids(Enqueue(items, id)) \subseteq Ids(items) \cup {id}
           /\ Distinct(Enqueue(items, id))
<1> DEFINE new == Enqueue(items, id)
<1>1. PICK k \in 0..1, n \in Nat :
         /\ DOMAIN items = 1..n + k /\ DOMAIN new = 1..n + 1
         /\ \A j \in 1..n : new[j] = items[j + k]
         /\ new[n + 1].id = id
  BY EnqueuedPlaces
<1> HIDE DEF new
<1>2. \A j \in 1..n : j + k \in DOMAIN items /\ new[j] = items[j + k] /\ new[j].id # id
  <2>1. \A j \in 1..n : j + k \in DOMAIN items
    BY <1>1
  <2>. QED  BY <1>1, <2>1 DEF Ids
<1>3. \A j \in DOMAIN new : j = n + 1 \/ j \in 1..n
  BY <1>1
<1>4. Ids(new) \subseteq Ids(items) \cup {id}
  BY <1>1, <1>2, <1>3 DEF Ids
<1>5. Distinct(new)
  <2> SUFFICES ASSUME NEW i \in DOMAIN new, NEW j \in DOMAIN new, new[i].id = new[j].id
               PROVE  i = j
    BY DEF Distinct
  <2>1. CASE i \in 1..n /\ j \in 1..n
    <3>1. i + k = j + k
      BY <1>2, <2>1 DEF Distinct
    <3>. QED  BY <2>1, <3>1
  <2>. QED  BY <1>1, <1>2, <1>3, <2>1
<1>. QED  BY <1>4, <1>5 DEF new

LEMMA RemovedPlaces ==
    ASSUME NEW items, Bounded(items), NEW i \in DOMAIN items
    PROVE  /\ DOMAIN RemoveAt(items, i) = 1..Len(items) - 1
           /\ \A j \in 1..Len(items) - 1 :
                 RemoveAt(items, i)[j] = items[IF j < i THEN j ELSE j + 1]
<1> DEFINE front == SubSeq(items, 1, i - 1)
           back  == SubSeq(items, i + 1, Len(items))
<1>1. /\ items \in Seq(Items) /\ Len(items) \in Nat
      /\ DOMAIN items = 1..Len(items) /\ i \in 1..Len(items)
  BY DEF Bounded
<1>2. /\ front \in Seq(Items) /\ Len(front) = i - 1
      /\ \A j \in 1..i - 1 : front[j] = items[j]
  <2>1. \A j \in 1..i - 1 : j \in 1..Len(items)
    BY <1>1
  <2>. QED  BY <1>1, <2>1, SubSeqProperties
<1>3. /\ back \in Seq(Items) /\ Len(back) = Len(items) - i
      /\ \A j \in 1..Len(items) - i : back[j] = items[i + j]
  <2>1. \A j \in i + 1..Len(items) : j \in 1..Len(items)
    BY <1>1
  <2>. QED  BY <1>1, <2>1, SubSeqProperties
<1> HIDE DEF front, back
<1>4. /\ front \o back \in Seq(Items)
      /\ Len(front \o back) = Len(front) + Len(back)
      /\ \A j \in 1..Len(front) + Len(back) :
            (front \o back)[j] = IF j <= Len(front) THEN front[j] ELSE back[j - Len(front)]
  BY <1>2, <1>3, ConcatProperties
<1>5. Len(front) + Len(back) = Len(items) - 1
  BY <1>1, <1>2, <1>3
<1>6. DOMAIN (front \o back) = 1..Len(items) - 1
  BY <1>4, <1>5
<1>7. ASSUME NEW j \in 1..Len(items) - 1
      PROVE  (front \o back)[j] = items[IF j < i THEN j ELSE j + 1]
  <2>1. (front \o back)[j] = IF j <= i - 1 THEN front[j] ELSE back[j - (i - 1)]
    BY <1>2, <1>4, <1>5
  <2>2. CASE j < i
    <3>1. j <= i - 1 /\ j \in 1..i - 1
      BY <1>1, <2>2
    <3>. QED  BY <1>2, <2>1, <2>2, <3>1
  <2>3. CASE ~(j < i)
    <3>1. /\ ~(j <= i - 1) /\ j - (i - 1) \in 1..Len(items) - i
          /\ i + (j - (i - 1)) = j + 1
      BY <1>1, <2>3
    <3>. QED  BY <1>3, <2>1, <2>3, <3>1
  <2>. QED  BY <2>2, <2>3
<1>8. RemoveAt(items, i) = front \o back
  BY DEF RemoveAt, front, back
<1>. QED  BY <1>6, <1>7, <1>8

LEMMA RemovedIds ==
    ASSUME NEW items, Bounded(items), Distinct(items), NEW i \in DOMAIN items
    PROVE  /\ Ids(RemoveAt(items, i)) \subseteq Ids(items) \ {items[i].id}
           /\ Distinct(RemoveAt(items, i))
<1> DEFINE new   == RemoveAt(items, i)
           at(j) == IF j < i THEN j ELSE j + 1
<1>1. Len(items) \in Nat /\ DOMAIN items = 1..Len(items) /\ i \in 1..Len(items)
  BY DEF Bounded
<1>2. DOMAIN new = 1..Len(items) - 1 /\ \A j \in 1..Len(items) - 1 : new[j] = items[at(j)]
  BY RemovedPlaces
<1>3. /\ \A j \in 1..Len(items) - 1 : at(j) \in DOMAIN items /\ at(j) # i
      /\ \A j, k \in 1..Len(items) - 1 : at(j) = at(k) => j = k
  BY <1>1
<1> HIDE DEF new, at
<1>4. Ids(new) \subseteq Ids(items) \ {items[i].id}
  BY <1>2, <1>3 DEF Ids, Distinct
<1>5. Distinct(new)
  BY <1>2, <1>3 DEF Distinct
<1>. QED  BY <1>4, <1>5 DEF new

\* Items that change in everything but their ids.
LEMMA SameIds ==
    ASSUME NEW items, NEW new, DOMAIN new = DOMAIN items,
           \A i \in DOMAIN items : new[i].id = items[i].id
    PROVE  /\ Ids(new) = Ids(items)
           /\ Distinct(items) => Distinct(new)
BY DEF Ids, Distinct

----------------------------------------------------------------------------
(* The invariant of the ids                                                 *)
(*                                                                          *)
(* A receipt that waits anywhere has left its emitter, is not an acceptance,*)
(* and waits as a second copy, or with ReceiptGate having it, only if it is *)
(* unsure.  While the client runs, the buffer and its file agree on every   *)
(* receipt that is not.                                                     *)

Queued     == {batch[i] : i \in DOMAIN batch}
Everywhere == Ids(buffer) \cup Ids(disk) \cup Queued

Fresh(r) == callers[r] \in {"new", "posting"}

BatchInv == batch \in Seq(BufferIds) /\ \A i, j \in DOMAIN batch : batch[i] = batch[j] => i = j

IdInv(id) ==
    /\ id.receipt \notin Acceptances
    /\ ~Fresh(id.receipt)
    /\ id.copy = 2 => id.receipt \in unsure
    /\ id.receipt \in accepted => id.receipt \in unsure

Synced == \A r \in Receipts \ unsure : r \in Held(buffer) <=> r \in Held(disk)

OrderInv ==
    /\ Distinct(buffer) /\ Distinct(disk) /\ BatchInv
    /\ \A id \in Everywhere : IdInv(id)
    /\ \A r \in accepted : ~Fresh(r)
    /\ running => Synced

LEMMA IdsTyped == ASSUME NEW items, Bounded(items) PROVE Ids(items) \subseteq BufferIds
<1>1. \A i \in DOMAIN items : items[i] \in Items
  BY DEF Bounded
<1>. QED  BY <1>1 DEF Ids, Items

LEMMA EverywhereTyped ==
    ASSUME BufferTyped, BatchInv
    PROVE  /\ Everywhere \subseteq BufferIds
           /\ \A id \in Everywhere : id.receipt \in Receipts /\ id.copy \in {1, 2}
           /\ \A id \in Everywhere : id = [receipt |-> id.receipt, copy |-> id.copy]
<1>1. Queued \subseteq BufferIds
  BY DEF BatchInv, Queued
<1>2. Everywhere \subseteq BufferIds
  BY <1>1, IdsTyped DEF BufferTyped, Everywhere
<1>. QED  BY <1>2 DEF BufferIds

LEMMA OrderInit == Init => OrderInv
<1> SUFFICES ASSUME Init PROVE OrderInv
  OBVIOUS
<1>1. Everywhere = {}
  BY DEF Init, Everywhere, Ids, Queued
<1>. QED  BY <1>1 DEF Init, OrderInv, Distinct, BatchInv

\* What a step tells the emitter of r, if anything.
Tells(r) ==
    \/ callers[r] = "new" /\ callers'[r] = "posting"
    \/ callers[r] = "posting" /\ callers'[r] = "answered"
    \/ callers'[r] = "buffered" /\ r \in Held(buffer')
    \/ callers'[r] = "failed"

\* The ids a step brings in: of a receipt its emitter hands over with it.
Enters(id) ==
    /\ Fresh(id.receipt) /\ callers'[id.receipt] \in {"buffered", "failed"}
    /\ id.receipt \notin Acceptances
    /\ id.copy = 2 => id.receipt \in unsure'
    /\ id.receipt \in accepted' => id.receipt \in unsure'

\* How ReceiptGate comes to have r: from its emitter, or from the batch, and then r does
\* not wait any more, or is unsure.
Arrives(r) ==
    \/ callers[r] = "posting" /\ callers'[r] # "posting"
    \/ /\ \E id \in Everywhere : id.receipt = r
       /\ r \in unsure' \/ \A id \in Everywhere' : id.receipt # r

Flow ==
    /\ accepted \subseteq accepted' /\ unsure \subseteq unsure'
    /\ Distinct(buffer') /\ Distinct(disk') /\ BatchInv'
    /\ \A id \in Everywhere' : id \in Everywhere \/ Enters(id)
    /\ \A r \in Receipts : callers'[r] # callers[r] => Fresh(r) /\ Tells(r)
    /\ \A r \in accepted' \ accepted : Arrives(r)
    /\ running' => Synced'

LEMMA OrderStep ==
    ASSUME BufferTyped, BufferTyped', accepted' \subseteq Receipts, OrderInv, Flow
    PROVE  OrderInv'
<1>1. \A id \in Everywhere : id.receipt \in Receipts /\ IdInv(id)
  BY EverywhereTyped DEF OrderInv
<1>2. \A id \in Everywhere' : id.receipt \in Receipts
  <2>1. Ids(buffer') \subseteq BufferIds /\ Ids(disk') \subseteq BufferIds
    BY IdsTyped DEF BufferTyped
  <2>2. Queued' \subseteq BufferIds
    BY DEF Flow, BatchInv, Queued
  <2>. QED  BY <2>1, <2>2 DEF Everywhere, BufferIds, Ids
<1>3. ASSUME NEW r \in Receipts, ~Fresh(r)
      PROVE  ~Fresh(r)'
  BY <1>3 DEF Flow, Fresh
<1>4. ASSUME NEW id \in Everywhere'
      PROVE  IdInv(id)'
  <2>1. CASE id \in Everywhere
    <3>1. /\ id.receipt \notin Acceptances /\ ~Fresh(id.receipt)
          /\ id.copy = 2 => id.receipt \in unsure
          /\ id.receipt \in accepted => id.receipt \in unsure
      BY <1>1, <2>1 DEF IdInv
    <3>2. ~Fresh(id.receipt)'
      BY <1>1, <1>3, <2>1, <3>1
    <3>3. unsure \subseteq unsure'
      BY DEF Flow
    <3>4. id.receipt \in accepted' \ accepted => id.receipt \in unsure'
      <4> SUFFICES ASSUME id.receipt \in accepted' \ accepted PROVE id.receipt \in unsure'
        OBVIOUS
      <4>1. Arrives(id.receipt)
        BY DEF Flow
      <4>. QED  BY <3>1, <4>1 DEF Arrives, Fresh
    <3>. QED  BY <3>1, <3>2, <3>3, <3>4 DEF IdInv
  <2>2. CASE Enters(id)
    BY <2>2 DEF Enters, IdInv, Fresh
  <2>. QED  BY <2>1, <2>2 DEF Flow
<1>5. ASSUME NEW r \in accepted'
      PROVE  ~Fresh(r)'
  <2>1. CASE r \in accepted
    BY <1>3, <1>5, <2>1 DEF OrderInv
  <2>2. CASE r \notin accepted
    <3>1. Arrives(r)
      BY <2>2 DEF Flow
    <3>2. CASE callers[r] = "posting" /\ callers'[r] # "posting"
      BY <3>2 DEF Flow, Tells, Fresh
    <3>3. CASE \E id \in Everywhere : id.receipt = r
      BY <1>1, <1>3, <3>3 DEF IdInv
    <3>. QED  BY <3>1, <3>2, <3>3 DEF Arrives
  <2>. QED  BY <2>1, <2>2
<1>. QED  BY <1>4, <1>5 DEF Flow, OrderInv

----------------------------------------------------------------------------
(* The steps *)

LEMMA Doubting ==
    ASSUME NEW receipts, Doubt(receipts)
    PROVE  Synced' /\ unsure \subseteq unsure' /\ receipts \subseteq unsure'
BY DEF Doubt, Synced

LEMMA FiledIds ==
    ASSUME Filed, Distinct(disk), Distinct(buffer')
    PROVE  Distinct(disk') /\ Ids(disk') \subseteq Ids(disk) \cup Ids(buffer')
BY DEF Filed

LEMMA HeadOfBatch ==
    ASSUME BatchInv, batch # <<>>
    PROVE  /\ Head(batch) \in Queued /\ Head(batch) \in BufferIds
           /\ Head(batch).receipt \in Receipts
<1>1. batch \in Seq(BufferIds) /\ Head(batch) = batch[1] /\ 1 \in DOMAIN batch
  BY DEF BatchInv
<1>2. Head(batch) \in BufferIds
  BY <1>1, HeadTailProperties
<1>. QED  BY <1>1, <1>2 DEF Queued, BufferIds

\* The batch is kept, goes on to its next item, or is over.
LEMMA BatchMoves ==
    ASSUME BatchInv, batch' \in {batch, <<>>} \/ (batch # <<>> /\ batch' = Tail(batch))
    PROVE  BatchInv' /\ Queued' \subseteq Queued
<1>1. CASE batch' = batch
  BY <1>1 DEF BatchInv, Queued
<1>2. CASE batch' = <<>>
  BY <1>2 DEF BatchInv, Queued
<1>3. CASE batch # <<>> /\ batch' = Tail(batch)
  <2>1. /\ batch' \in Seq(BufferIds) /\ Len(batch) \in Nat /\ DOMAIN batch = 1..Len(batch)
        /\ DOMAIN batch' = 1..Len(batch) - 1
        /\ \A i \in 1..Len(batch) - 1 : batch'[i] = batch[i + 1]
    BY <1>3, HeadTailProperties DEF BatchInv
  <2>2. \A i \in DOMAIN batch' : i + 1 \in DOMAIN batch /\ batch'[i] = batch[i + 1]
    BY <2>1
  <2>3. ASSUME NEW i \in DOMAIN batch', NEW j \in DOMAIN batch', batch'[i] = batch'[j]
        PROVE  i = j
    <3>1. i + 1 = j + 1
      BY <2>2, <2>3 DEF BatchInv
    <3>. QED  BY <2>1, <3>1
  <2>. QED  BY <2>1, <2>2, <2>3 DEF BatchInv, Queued
<1>. QED  BY <1>1, <1>2, <1>3

LEMMA HeadIsGone ==
    ASSUME BatchInv, batch # <<>>, batch' = Tail(batch)
    PROVE  Head(batch) \notin Queued'
<1>1. /\ Len(batch) \in Nat /\ DOMAIN batch = 1..Len(batch)
      /\ DOMAIN batch' = 1..Len(batch) - 1
      /\ \A i \in 1..Len(batch) - 1 : batch'[i] = batch[i + 1]
      /\ Head(batch) = batch[1] /\ 1 \in DOMAIN batch
  BY HeadTailProperties DEF BatchInv
<1>2. \A i \in DOMAIN batch' : i + 1 \in DOMAIN batch /\ i + 1 # 1 /\ batch'[i] = batch[i + 1]
  BY <1>1
<1>. QED  BY <1>1, <1>2 DEF BatchInv, Queued

\* What has not left its emitter waits nowhere.
LEMMA FreshWaitsNowhere ==
    ASSUME OrderInv, NEW r \in Receipts, Fresh(r)
    PROVE  r \notin accepted /\ \A id \in Everywhere : id.receipt # r
BY DEF OrderInv, IdInv

\* A post, or its answer, that leaves the buffer alone.
LEMMA UnbufferedFlow ==
    ASSUME OrderInv, UNCHANGED <<buffer, disk, batch, unsure, running>>,
           accepted \subseteq accepted',
           \A r \in Receipts : callers'[r] # callers[r] => Fresh(r) /\ Tells(r),
           \A r \in accepted' \ accepted : Arrives(r)
    PROVE  Flow
<1>1. Everywhere' = Everywhere /\ BatchInv'
  BY DEF Everywhere, Queued, OrderInv, BatchInv
<1>2. running' => Synced'
  BY DEF OrderInv, Synced
<1>. QED  BY <1>1, <1>2 DEF Flow, OrderInv

\* What emit_receipt puts into the buffer is new there.
LEMMA EnterFlow ==
    ASSUME OrderInv, NEW r \in Receipts, Fresh(r), r \notin Acceptances, CallersType,
           NEW word \in {"buffered", "failed"}, callers' = [callers EXCEPT ![r] = word],
           \A id \in Ids(buffer') \ Ids(buffer) :
              id.receipt = r /\ (id.copy = 2 => r \in unsure'),
           r \in Held(buffer'),
           Distinct(buffer'), Filed, Synced', unsure \subseteq unsure', UNCHANGED batch,
           \/ UNCHANGED accepted
           \/ /\ accepted' \in {accepted, accepted \cup {r}}
              /\ callers[r] = "posting" /\ (r \in accepted' => r \in unsure')
    PROVE  Flow
<1>1. r \notin accepted /\ \A id \in Everywhere : id.receipt # r
  BY FreshWaitsNowhere
<1>2. Distinct(disk') /\ Ids(disk') \subseteq Ids(disk) \cup Ids(buffer')
  BY FiledIds DEF OrderInv
<1>3. BatchInv' /\ Queued' = Queued
  BY DEF OrderInv, BatchInv, Queued
<1>4. callers'[r] = word /\ \A q \in Receipts : q # r => callers'[q] = callers[q]
  BY DEF CallersType
<1>5. r \in accepted' => r \in unsure'
  BY <1>1
<1>6. ASSUME NEW id \in Everywhere'
      PROVE  id \in Everywhere \/ Enters(id)
  <2>1. id \in Everywhere \/ id \in Ids(buffer') \ Ids(buffer)
    BY <1>2, <1>3, <1>6 DEF Everywhere
  <2>. QED  BY <1>4, <1>5, <2>1 DEF Enters
<1>7. \A q \in Receipts : callers'[q] # callers[q] => Fresh(q) /\ Tells(q)
  BY <1>4 DEF Tells
<1>8. accepted \subseteq accepted' /\ \A q \in accepted' \ accepted : Arrives(q)
  BY <1>4 DEF Arrives
<1>. QED  BY <1>2, <1>3, <1>6, <1>7, <1>8 DEF Flow

LEMMA FirstIdFresh ==
    ASSUME OrderInv, NEW r \in Receipts, Fresh(r), NEW c \in {1, 2}
    PROVE  /\ [receipt |-> r, copy |-> c] \in BufferIds
           /\ [receipt |-> r, copy |-> c] \notin Ids(buffer)
BY FirstId, FreshWaitsNowhere DEF Everywhere

LEMMA BufferFlow ==
    ASSUME BufferTyped, CallersType, OrderInv, NEW r \in Receipts, Fresh(r), r \notin Acceptances,
           NEW saved \in BOOLEAN, NEW doubtful, BufferReceipt(r, saved, doubtful), UNCHANGED batch,
           \/ UNCHANGED accepted
           \/ accepted' = accepted \cup {r} /\ callers[r] = "posting" /\ r \in doubtful
    PROVE  Flow
<1> DEFINE id == [receipt |-> r, copy |-> 1]
<1>1. id \in BufferIds /\ id \notin Ids(buffer) /\ id.receipt = r /\ id.copy = 1
  BY FirstIdFresh
<1>2. buffer' = Enqueue(buffer, id) /\ Distinct(buffer) /\ Bounded(buffer)
  BY DEF BufferReceipt, OrderInv, BufferTyped
<1>3. id \in Ids(buffer') /\ Ids(buffer') \subseteq Ids(buffer) \cup {id} /\ Distinct(buffer')
  BY <1>1, <1>2, Enqueued, EnqueuedIds
<1>4. r \in Held(buffer')
  BY <1>1, <1>3, HeldIds
<1>5. Filed
  BY SaveFiles DEF BufferReceipt
<1>6. Synced' /\ unsure \subseteq unsure' /\ doubtful \subseteq unsure'
  BY Doubting DEF BufferReceipt
<1>7. PICK word \in {"buffered", "failed"} : callers' = [callers EXCEPT ![r] = word]
  BY DEF BufferReceipt
<1>8. \A i \in Ids(buffer') \ Ids(buffer) : i.receipt = r /\ (i.copy = 2 => r \in unsure')
  BY <1>1, <1>3
<1>9. \/ UNCHANGED accepted
      \/ /\ accepted' \in {accepted, accepted \cup {r}}
         /\ callers[r] = "posting" /\ (r \in accepted' => r \in unsure')
  BY <1>6
<1> HIDE DEF id
<1>. QED  BY <1>3, <1>4, <1>5, <1>6, <1>7, <1>8, <1>9, EnterFlow, Zenon

LEMMA BufferAgainFlow ==
    ASSUME BufferTyped, CallersType, OrderInv, NEW r \in Receipts, Fresh(r), r \notin Acceptances,
           BufferAgain(r), UNCHANGED <<batch, accepted>>
    PROVE  Flow
<1> DEFINE id   == [receipt |-> r, copy |-> 1]
           id2  == [receipt |-> r, copy |-> 2]
           once == Enqueue(buffer, id)
<1>1. /\ id \in BufferIds /\ id \notin Ids(buffer) /\ id.receipt = r
      /\ id2 \in BufferIds /\ id2 \notin Ids(buffer) /\ id2.receipt = r /\ id2 # id
  BY FirstIdFresh
<1>2. PICK saved \in BOOLEAN :
        /\ buffer' = Enqueue(once, id2)
        /\ Save(1, saved)
        /\ Doubt({r})
        /\ callers' = [callers EXCEPT ![r] = IF saved THEN "buffered" ELSE "failed"]
  BY DEF BufferAgain
<1> HIDE DEF id, id2
<1>3. Bounded(once) /\ Distinct(once) /\ Ids(once) \subseteq Ids(buffer) \cup {id}
  BY <1>1, Enqueued, EnqueuedIds DEF BufferTyped, OrderInv
<1>4. id2 \notin Ids(once)
  BY <1>1, <1>3
<1> HIDE DEF once
<1>5. id2 \in Ids(buffer') /\ Ids(buffer') \subseteq Ids(once) \cup {id2} /\ Distinct(buffer')
  BY <1>1, <1>2, <1>3, <1>4, Enqueued, EnqueuedIds
<1>6. r \in Held(buffer') /\ Ids(buffer') \subseteq Ids(buffer) \cup {id, id2}
  BY <1>1, <1>3, <1>5, HeldIds
<1>7. Filed
  BY <1>2, SaveFiles
<1>8. Synced' /\ unsure \subseteq unsure' /\ r \in unsure'
  BY <1>2, Doubting
<1>9. PICK word \in {"buffered", "failed"} : callers' = [callers EXCEPT ![r] = word]
  BY <1>2
<1>10. \A i \in Ids(buffer') \ Ids(buffer) : i.receipt = r /\ (i.copy = 2 => r \in unsure')
  BY <1>1, <1>6, <1>8
<1>. QED  BY <1>5, <1>6, <1>7, <1>8, <1>9, <1>10, EnterFlow, Zenon

LEMMA EmissionFlow ==
    ASSUME Inv, OrderInv, NEW r \in Receipts,
           Post(r) \/ FallbackToBuffer(r) \/ PostAnswered(r) \/ PostFailed(r)
    PROVE  Flow
<1>1. BufferTyped /\ CallersType
  BY DEF Inv
<1>2. CASE Post(r)
  <2>1. \A q \in Receipts : callers'[q] # callers[q] => Fresh(q) /\ Tells(q)
    BY <1>1, <1>2 DEF Post, CallersType, Fresh, Tells
  <2>. QED  BY <1>2, <2>1, UnbufferedFlow DEF Post
<1>3. ASSUME Raise(r), Fresh(r), UNCHANGED <<batch, running>>,
             accepted' \in {accepted, accepted \cup {r}},
             r \in accepted' \ accepted => callers[r] = "posting"
      PROVE  Flow
  <2>1. callers'[r] = "failed" /\ \A q \in Receipts : q # r => callers'[q] = callers[q]
    BY <1>1, <1>3 DEF Raise, CallersType
  <2>2. \A q \in Receipts : callers'[q] # callers[q] => Fresh(q) /\ Tells(q)
    BY <1>3, <2>1 DEF Tells
  <2>3. \A q \in accepted' \ accepted : Arrives(q)
    BY <1>3, <2>1 DEF Arrives
  <2>. QED  BY <1>3, <2>2, <2>3, UnbufferedFlow DEF Raise
<1>4. CASE FallbackToBuffer(r)
  <2>1. UNCHANGED <<running, batch, accepted>> /\ Fresh(r)
    BY <1>4 DEF FallbackToBuffer, Fresh
  <2>2. CASE r \in Acceptances
    BY <1>3, <1>4, <2>1, <2>2 DEF FallbackToBuffer
  <2>3. CASE r \notin Acceptances
    <3>1. BufferReceipt(r, TRUE, {}) \/ BufferAgain(r)
      BY <1>4, <2>3 DEF FallbackToBuffer
    <3>. QED  BY <1>1, <2>1, <2>3, <3>1, BufferFlow, BufferAgainFlow
  <2>. QED  BY <2>2, <2>3
<1>5. CASE PostAnswered(r)
  <2>1. callers'[r] = "answered" /\ \A q \in Receipts : q # r => callers'[q] = callers[q]
    BY <1>1, <1>5 DEF PostAnswered, CallersType
  <2>2. callers[r] = "posting" /\ accepted' \in {accepted, accepted \cup {r}}
    BY <1>5 DEF PostAnswered, Accepts, Refuses
  <2>3. \A q \in Receipts : callers'[q] # callers[q] => Fresh(q) /\ Tells(q)
    BY <2>1, <2>2 DEF Tells, Fresh
  <2>4. \A q \in accepted' \ accepted : Arrives(q)
    BY <2>1, <2>2 DEF Arrives
  <2>. QED  BY <1>5, <2>2, <2>3, <2>4, UnbufferedFlow DEF PostAnswered
<1>6. CASE PostFailed(r)
  <2>1. PICK doubtful \in {{}, {r}} :
           /\ IF doubtful = {} THEN Fails(r) ELSE Loses(r)
           /\ IF r \in Acceptances
              THEN Raise(r)
              ELSE \E saved \in BOOLEAN : BufferReceipt(r, saved, doubtful)
    BY <1>6 DEF PostFailed
  <2>2. UNCHANGED <<running, batch>> /\ callers[r] = "posting" /\ Fresh(r)
    BY <1>6 DEF PostFailed, Fresh
  <2>3. \/ UNCHANGED accepted
        \/ accepted' = accepted \cup {r} /\ r \in doubtful
    BY <2>1 DEF Fails, Loses
  <2>4. CASE r \in Acceptances
    BY <1>3, <2>1, <2>2, <2>3, <2>4
  <2>5. CASE r \notin Acceptances
    <3>1. PICK saved \in BOOLEAN : BufferReceipt(r, saved, doubtful)
      BY <2>1, <2>5
    <3>. QED  BY <1>1, <2>2, <2>3, <2>5, <3>1, BufferFlow
  <2>. QED  BY <2>4, <2>5
<1>. QED  BY <1>2, <1>4, <1>5, <1>6

\* What a step that only takes from the buffer, or reorders it, does.
Thins ==
    /\ Ids(buffer') \subseteq Ids(buffer) /\ Distinct(buffer')
    /\ Filed
    /\ unsure \subseteq unsure' /\ Synced'

LEMMA ThinFlow ==
    ASSUME OrderInv, Thins, UNCHANGED callers, BatchInv',
           Queued' \subseteq Queued \cup Ids(buffer),
           accepted \subseteq accepted', \A r \in accepted' \ accepted : Arrives(r)
    PROVE  Flow
<1>1. Distinct(disk') /\ Ids(disk') \subseteq Ids(disk) \cup Ids(buffer')
  BY FiledIds DEF OrderInv, Thins
<1>2. Everywhere' \subseteq Everywhere
  BY <1>1 DEF Everywhere, Thins
<1>. QED  BY <1>1, <1>2 DEF Flow, Thins

LEMMA SameBuffer ==
    ASSUME OrderInv, running, UNCHANGED <<buffer, disk>>, unsure \subseteq unsure'
    PROVE  Thins
BY DEF Thins, OrderInv, Filed, Synced

LEMMA RemovalThins ==
    ASSUME BufferTyped, OrderInv, running, NEW id, RemoveBufferItem(id)
    PROVE  Thins /\ id \notin Ids(buffer')
<1>1. CASE Places(id) = {}
  <2>1. id \notin Ids(buffer) /\ UNCHANGED <<buffer, disk, unsure>>
    BY <1>1 DEF RemoveBufferItem, Places, Ids
  <2>. QED  BY <2>1, SameBuffer
<1>2. CASE Places(id) # {}
  <2>1. PICK i \in Places(id) : buffer' = RemoveAt(buffer, i)
    BY <1>2 DEF RemoveBufferItem
  <2>2. PICK saved \in BOOLEAN : Save(0, saved)
    BY <1>2 DEF RemoveBufferItem
  <2>3. Doubt({})
    BY <1>2 DEF RemoveBufferItem
  <2>4. i \in DOMAIN buffer /\ buffer[i].id = id
    BY DEF Places
  <2>5. Ids(buffer') \subseteq Ids(buffer) \ {id} /\ Distinct(buffer')
    BY <2>1, <2>4, RemovedIds DEF BufferTyped, OrderInv
  <2>6. Filed /\ unsure \subseteq unsure' /\ Synced'
    BY <2>2, <2>3, SaveFiles, Doubting
  <2>. QED  BY <2>5, <2>6 DEF Thins
<1>. QED  BY <1>1, <1>2

LEMMA ScheduleThins ==
    ASSUME BufferTyped, OrderInv, running, NEW id, NEW doubtful, NEW rest,
           ScheduleRetry(id, doubtful, rest)
    PROVE  Thins /\ doubtful \subseteq unsure' /\ batch' \in {rest, <<>>}
<1>1. CASE Places(id) = {}
  BY <1>1, SameBuffer DEF ScheduleRetry
<1>2. CASE Places(id) # {}
  <2>1. PICK i \in Places(id), saved \in BOOLEAN :
           /\ \/ /\ IsSpent(buffer[i])
                 /\ buffer' = RemoveAt(buffer, i)
                 /\ dropped' = dropped \cup {id}
              \/ /\ ~IsSpent(buffer[i])
                 /\ buffer' = [buffer EXCEPT ![i] = Delayed(@)]
                 /\ UNCHANGED dropped
           /\ Save(0, saved)
           /\ Doubt(doubtful)
           /\ batch' = IF saved THEN rest ELSE <<>>
    BY <1>2 DEF ScheduleRetry
  <2>2. i \in DOMAIN buffer /\ buffer[i] \in Items /\ Distinct(buffer)
    BY DEF Places, BufferTyped, Bounded, OrderInv
  <2>3. Filed /\ unsure \subseteq unsure' /\ doubtful \subseteq unsure' /\ Synced'
    BY <2>1, SaveFiles, Doubting
  <2>4. Ids(buffer') \subseteq Ids(buffer) /\ Distinct(buffer')
    <3>1. CASE IsSpent(buffer[i])
      BY <2>1, <2>2, <3>1, RemovedIds DEF BufferTyped
    <3>2. CASE ~IsSpent(buffer[i])
      <4>1. Delayed(buffer[i]).id = buffer[i].id
        BY <2>2, <3>2, DelayedItem
      <4>2. buffer' = [buffer EXCEPT ![i] = Delayed(buffer[i])]
        BY <2>1, <3>2
      <4>3. DOMAIN buffer' = DOMAIN buffer /\ \A j \in DOMAIN buffer : buffer'[j].id = buffer[j].id
        BY <4>1, <4>2
      <4>. QED  BY <2>2, <4>3, SameIds
    <3>. QED  BY <3>1, <3>2
  <2>. QED  BY <2>1, <2>3, <2>4 DEF Thins
<1>. QED  BY <1>1, <1>2

\* A receipt that ReceiptGate accepts from the replay is then nowhere else, or unsure: its
\* only other place can be the file, and that the removal rewrites.
LEMMA AcceptedArrives ==
    ASSUME BufferTyped, OrderInv, batch # <<>>, batch' = Tail(batch),
           Thins, Head(batch) \notin Ids(buffer')
    PROVE  Arrives(Head(batch).receipt)
<1> DEFINE r == Head(batch).receipt
<1>1. Head(batch) \in Queued /\ Head(batch) \in Everywhere /\ r \in Receipts
  BY HeadOfBatch DEF OrderInv, Everywhere
<1>2. Head(batch) \notin Queued' /\ Queued' \subseteq Queued
  BY HeadIsGone, BatchMoves DEF OrderInv
<1>3. /\ Ids(buffer') \subseteq Everywhere /\ Everywhere' \subseteq Everywhere
      /\ unsure \subseteq unsure' /\ Synced'
  <2>1. Ids(disk') \subseteq Ids(disk) \cup Ids(buffer')
    BY FiledIds DEF Thins, OrderInv
  <2>. QED  BY <1>2, <2>1 DEF Thins, Everywhere
<1>4. ASSUME r \notin unsure', NEW id \in Everywhere, id.receipt = r
      PROVE  id = Head(batch)
  <2>1. IdInv(id) /\ IdInv(Head(batch))
    BY <1>1 DEF OrderInv
  <2>2. id.copy # 2 /\ Head(batch).copy # 2
    BY <1>3, <1>4, <2>1 DEF IdInv
  <2>3. /\ id.copy \in {1, 2} /\ Head(batch).copy \in {1, 2}
        /\ id = [receipt |-> id.receipt, copy |-> id.copy]
        /\ Head(batch) = [receipt |-> Head(batch).receipt, copy |-> Head(batch).copy]
    BY <1>1, EverywhereTyped DEF OrderInv
  <2>. QED  BY <1>4, <2>2, <2>3
<1>5. ASSUME r \notin unsure', NEW id \in Everywhere', id.receipt = r
      PROVE  FALSE
  <2>1. id = Head(batch)
    BY <1>3, <1>4, <1>5
  <2>2. id \in Ids(disk')
    BY <1>2, <1>5, <2>1 DEF Everywhere
  <2>3. r \in Held(buffer')
    BY <1>1, <1>3, <1>5, <2>2, HeldIds DEF Synced
  <2>4. PICK other \in Ids(buffer') : other.receipt = r
    BY <2>3, IdsHeld
  <2>5. other = Head(batch)
    BY <1>3, <1>4, <1>5, <2>4
  <2>. QED  BY <2>4, <2>5
<1>. QED  BY <1>1, <1>5 DEF Arrives

LEMMA BatchOfDue ==
    ASSUME BufferTyped, OrderInv, StartReplay
    PROVE  BatchInv' /\ Queued' \subseteq Ids(buffer)
<1> DEFINE size == Cardinality(DuePlaces)
<1>1. PICK places \in SetToSeqs(DuePlaces) :
         batch' = [i \in 1..(IF Len(places) < BatchLimit THEN Len(places) ELSE BatchLimit)
                     |-> buffer[places[i]].id]
  BY DEF StartReplay
<1>2. size \in Nat
  <2>1. IsFiniteSet(DOMAIN buffer)
    <3>1. DOMAIN buffer = 1..Len(buffer) /\ Len(buffer) \in Nat
      BY DEF BufferTyped, Bounded
    <3>. QED  BY <3>1, FS_Interval
  <2>. QED  BY <2>1, FS_Subset, FS_CardinalityType DEF DuePlaces
<1>3. places \in [1..size -> DuePlaces] /\ \A i, j \in 1..size : i # j => places[i] # places[j]
  BY DEF SetToSeqs
<1> HIDE DEF size
<1>4. places \in Seq(DuePlaces) /\ Len(places) = size
  BY <1>2, <1>3
<1> DEFINE n == IF size < BatchLimit THEN size ELSE BatchLimit
<1>5. n \in Nat /\ \A i \in 1..n : i \in 1..size
  BY <1>2, OutboxAssumption
<1>6. batch' = [i \in 1..n |-> buffer[places[i]].id]
  BY <1>1, <1>4
<1> HIDE DEF n
<1>7. \A i \in 1..n : places[i] \in DOMAIN buffer /\ buffer[places[i]].id \in BufferIds
  <2>1. \A i \in 1..n : places[i] \in DOMAIN buffer
    BY <1>3, <1>5 DEF DuePlaces
  <2>2. Ids(buffer) \subseteq BufferIds
    BY IdsTyped DEF BufferTyped
  <2>. QED  BY <2>1, <2>2 DEF Ids
<1>8. batch' \in Seq(BufferIds) /\ DOMAIN batch' = 1..n
  BY <1>5, <1>6, <1>7
<1>9. \A i, j \in 1..n : batch'[i] = batch'[j] => i = j
  BY <1>3, <1>5, <1>6, <1>7 DEF OrderInv, Distinct
<1>. QED  BY <1>6, <1>7, <1>8, <1>9 DEF BatchInv, Queued, Ids

\* Only an item of the batch is being posted.
PostedInv == posting => batch # <<>>

LEMMA ReplayFlow ==
    ASSUME Inv, OrderInv, PostedInv, Replay
    PROVE  Flow
<1>1. BufferTyped /\ BatchInv /\ (posting \/ batch # <<>> => running)
  BY DEF Inv, InUse, OrderInv
<1>2. CASE StartReplay
  <2>1. running /\ UNCHANGED <<buffer, disk, callers, accepted, unsure>>
    BY <1>2 DEF StartReplay
  <2>2. BatchInv' /\ Queued' \subseteq Ids(buffer)
    BY <1>1, <1>2, BatchOfDue
  <2>. QED  BY <2>1, <2>2, SameBuffer, ThinFlow
<1>3. CASE ReplayPost
  <2>1. running /\ UNCHANGED <<buffer, disk, callers, batch, accepted, unsure>>
    BY <1>1, <1>3 DEF ReplayPost
  <2>2. BatchInv' /\ Queued' \subseteq Queued
    BY <1>1, <2>1, BatchMoves
  <2>. QED  BY <2>1, <2>2, SameBuffer, ThinFlow
<1>4. CASE ReplayBlocked
  <2>1. running /\ ScheduleRetry(Head(batch), {}, <<>>) /\ UNCHANGED <<callers, accepted>>
    BY <1>1, <1>4 DEF ReplayBlocked
  <2>2. Thins /\ batch' = <<>>
    BY <1>1, <2>1, ScheduleThins
  <2>3. BatchInv' /\ Queued' \subseteq Queued
    BY <1>1, <2>2, BatchMoves
  <2>. QED  BY <2>1, <2>2, <2>3, ThinFlow
<1>5. CASE ReplayAccepted
  <2>1. /\ posting /\ running /\ RemoveBufferItem(Head(batch)) /\ UNCHANGED callers
        /\ batch' = Tail(batch) /\ accepted' = accepted \cup {Head(batch).receipt}
    BY <1>1, <1>5 DEF ReplayAccepted, Accepts
  <2>2. Thins /\ Head(batch) \notin Ids(buffer')
    BY <1>1, <2>1, RemovalThins
  <2>3. batch # <<>>
    BY <2>1 DEF PostedInv
  <2>4. BatchInv' /\ Queued' \subseteq Queued
    BY <1>1, <2>1, <2>3, BatchMoves
  <2>5. Arrives(Head(batch).receipt)
    BY <1>1, <2>1, <2>2, <2>3, AcceptedArrives
  <2>. QED  BY <2>1, <2>2, <2>4, <2>5, ThinFlow
<1>6. CASE ReplayFailed
  <2> DEFINE r == Head(batch).receipt
  <2>1. PICK doubtful \in {{}, {r}} :
           /\ IF doubtful = {} THEN Fails(r) \/ Refuses(r) ELSE Loses(r)
           /\ ScheduleRetry(Head(batch), doubtful, Tail(batch))
    BY <1>6 DEF ReplayFailed
  <2>2. posting /\ running /\ UNCHANGED callers
    BY <1>1, <1>6 DEF ReplayFailed
  <2>3. Thins /\ doubtful \subseteq unsure' /\ batch' \in {Tail(batch), <<>>}
    BY <1>1, <2>1, <2>2, ScheduleThins
  <2>4. batch # <<>>
    BY <2>2 DEF PostedInv
  <2>5. BatchInv' /\ Queued' \subseteq Queued
    BY <1>1, <2>3, <2>4, BatchMoves
  <2>6. UNCHANGED accepted \/ (accepted' = accepted \cup {r} /\ r \in unsure')
    BY <2>1, <2>3 DEF Fails, Refuses, Loses
  <2>7. Head(batch) \in Everywhere
    BY <1>1, <2>4, HeadOfBatch DEF Everywhere
  <2>8. accepted \subseteq accepted' /\ \A q \in accepted' \ accepted : Arrives(q)
    BY <2>6, <2>7 DEF Arrives
  <2>. QED  BY <2>2, <2>3, <2>5, <2>8, ThinFlow
<1>. QED  BY <1>2, <1>3, <1>4, <1>5, <1>6 DEF Replay

LEMMA DueFlow ==
    ASSUME Inv, OrderInv, NEW i \in 1..BufferSize, FallDue(i)
    PROVE  Flow
<1>1. /\ running /\ UNCHANGED <<disk, callers, batch, accepted, unsure>>
      /\ buffer' = [buffer EXCEPT ![i].due = TRUE]
  BY DEF FallDue
<1>2. DOMAIN buffer' = DOMAIN buffer /\ \A j \in DOMAIN buffer : buffer'[j].id = buffer[j].id
  <2>1. DOMAIN buffer' = DOMAIN buffer
    BY <1>1
  <2>2. ASSUME NEW j \in DOMAIN buffer
        PROVE  buffer'[j].id = buffer[j].id
    <3>1. buffer[j] \in Items
      BY DEF Inv, BufferTyped, Bounded
    <3>. QED  BY <1>1, <2>2, <3>1 DEF Items
  <2>. QED  BY <2>1, <2>2
<1>3. Ids(buffer') = Ids(buffer) /\ Distinct(buffer') /\ Held(buffer') = Held(buffer)
  BY <1>2, SameIds DEF OrderInv, Held
<1>4. Thins
  BY <1>1, <1>3 DEF Thins, OrderInv, Filed, Synced
<1>5. BatchInv' /\ Queued' = Queued
  BY <1>1 DEF OrderInv, BatchInv, Queued
<1>. QED  BY <1>1, <1>4, <1>5, ThinFlow

LEMMA LoadFlow ==
    ASSUME Inv, OrderInv, GetClient
    PROVE  Flow
<1>1. /\ UNCHANGED <<disk, callers, batch, accepted, unsure>>
      /\ buffer' = [i \in DOMAIN disk |-> [disk[i] EXCEPT !.due = disk[i].retries = 0]]
  BY DEF GetClient
<1>2. DOMAIN buffer' = DOMAIN disk /\ \A j \in DOMAIN disk : buffer'[j].id = disk[j].id
  <2>1. DOMAIN buffer' = DOMAIN disk
    BY <1>1
  <2>2. ASSUME NEW j \in DOMAIN disk
        PROVE  buffer'[j].id = disk[j].id
    <3>1. disk[j] \in Items
      BY DEF Inv, BufferTyped, Bounded
    <3>. QED  BY <1>1, <2>2, <3>1 DEF Items
  <2>. QED  BY <2>1, <2>2
<1>3. Ids(buffer') = Ids(disk) /\ Distinct(buffer') /\ Held(buffer') = Held(disk)
  BY <1>2, SameIds DEF OrderInv, Held
<1>4. Synced' /\ Distinct(disk')
  BY <1>1, <1>3 DEF OrderInv, Synced
<1>5. BatchInv' /\ Queued' = Queued
  BY <1>1 DEF OrderInv, BatchInv, Queued
<1>6. Everywhere' \subseteq Everywhere
  BY <1>1, <1>3, <1>5 DEF Everywhere
<1>. QED  BY <1>1, <1>3, <1>4, <1>5, <1>6 DEF Flow

LEMMA RestartFlow ==
    ASSUME Inv, OrderInv, PostedInv, Restart
    PROVE  Flow
<1>1. /\ ~running' /\ buffer' = <<>> /\ batch' = <<>> /\ UNCHANGED disk
      /\ callers' = [r \in Receipts |->
                        IF callers[r] = "posting" THEN "failed" ELSE callers[r]]
      /\ unsure' = unsure \cup (InFlight \ Acceptances)
      /\ accepted \subseteq accepted' /\ accepted' \subseteq accepted \cup InFlight
  BY DEF Restart
<1>2. BatchInv' /\ Distinct(buffer') /\ Distinct(disk')
  BY <1>1 DEF BatchInv, Distinct, OrderInv
<1>3. Everywhere' \subseteq Everywhere
  BY <1>1 DEF Everywhere, Ids, Queued
<1>4. \A r \in Receipts : callers'[r] # callers[r] => Fresh(r) /\ Tells(r)
  BY <1>1 DEF Fresh, Tells
<1>5. ASSUME NEW r \in accepted' \ accepted
      PROVE  Arrives(r)
  <2>1. CASE r \in Receipts /\ callers[r] = "posting"
    BY <1>1, <2>1 DEF Arrives
  <2>2. CASE posting /\ r = Head(batch).receipt
    <3>1. Head(batch) \in Everywhere
      BY <2>2, HeadOfBatch DEF OrderInv, PostedInv, Everywhere
    <3>2. r \in InFlight
      BY <2>2 DEF InFlight
    <3>3. r \in unsure'
      BY <1>1, <2>2, <3>1, <3>2 DEF OrderInv, IdInv
    <3>. QED  BY <2>2, <3>1, <3>3 DEF Arrives
  <2>. QED  BY <1>1, <1>5, <2>1, <2>2 DEF InFlight
<1>. QED  BY <1>1, <1>2, <1>3, <1>4, <1>5 DEF Flow

LEMMA NextFlow == ASSUME Inv, OrderInv, PostedInv, Next PROVE Flow
BY EmissionFlow, ReplayFlow, DueFlow, LoadFlow, RestartFlow DEF Next, Emission

----------------------------------------------------------------------------
(* Types *)

RestTyped ==
    /\ running \in BOOLEAN /\ posting \in BOOLEAN /\ PostedInv
    /\ accepted \subseteq Receipts \ Objectionable
    /\ dropped \subseteq BufferIds
    /\ unsure \subseteq Receipts \ Acceptances
    /\ faults \in 0..MaxFaults
    /\ restarts \in 0..MaxRestarts

LEMMA Bounds == MaxFaults \in Nat /\ MaxRestarts \in Nat
BY OutboxAssumption

LEMMA RestInit == Init => RestTyped
<1> SUFFICES ASSUME Init PROVE RestTyped
  OBVIOUS
<1>1. faults \in 0..MaxFaults /\ restarts \in 0..MaxRestarts
  BY Bounds DEF Init
<1>. QED  BY <1>1 DEF Init, RestTyped, PostedInv

LEMMA SaveCounts ==
    ASSUME RestTyped, NEW n \in 0..1, NEW saved \in BOOLEAN, Save(n, saved)
    PROVE  faults' \in 0..MaxFaults
<1>1. n + (IF saved THEN 0 ELSE 1) \in Nat
  OBVIOUS
<1>. QED  BY <1>1, Bounds DEF Save, RestTyped

LEMMA EvictedTyped ==
    ASSUME NEW items, Bounded(items)
    PROVE  Evicted(items) \subseteq BufferIds
<1>1. CASE Len(items) >= BufferSize
  <2>1. items \in Seq(Items) /\ items # <<>>
    BY <1>1, Sizes DEF Bounded
  <2>2. Head(items) \in Items
    BY <2>1, HeadTailProperties
  <2>. QED  BY <2>2 DEF Evicted, Items
<1>2. CASE ~(Len(items) >= BufferSize)
  BY <1>2 DEF Evicted
<1>. QED  BY <1>1, <1>2

\* What is unsure without a doubt of its own waits somewhere, and is no acceptance.
LEMMA DoubtTyped ==
    ASSUME RestTyped, BufferTyped', OrderInv', NEW receipts,
           receipts \subseteq Receipts \ Acceptances, Doubt(receipts)
    PROVE  unsure' \subseteq Receipts \ Acceptances
<1>1. ASSUME NEW r \in Held(buffer') \cup Held(disk')
      PROVE  r \notin Acceptances
  <2>1. \E id \in Ids(buffer') \cup Ids(disk') : id.receipt = r
    BY <1>1, IdsHeld
  <2>. QED  BY <2>1 DEF OrderInv, Everywhere, IdInv
<1>. QED  BY <1>1 DEF Doubt, RestTyped

LEMMA InFlightTyped ==
    ASSUME OrderInv, PostedInv
    PROVE  InFlight \subseteq Receipts /\ (posting => Head(batch).receipt \in Receipts \ Acceptances)
<1>1. posting => Head(batch).receipt \in Receipts \ Acceptances
  <2> SUFFICES ASSUME posting PROVE Head(batch).receipt \in Receipts \ Acceptances
    OBVIOUS
  <2>1. Head(batch) \in Everywhere /\ Head(batch).receipt \in Receipts
    BY HeadOfBatch DEF OrderInv, PostedInv, Everywhere
  <2>. QED  BY <2>1 DEF OrderInv, IdInv
<1>. QED  BY <1>1 DEF InFlight

LEMMA AcceptedTyped ==
    ASSUME OrderInv, RestTyped, Next
    PROVE  accepted' \subseteq Receipts \ Objectionable
<1>1. ASSUME NEW r \in Receipts,
             Accepts(r) \/ Refuses(r) \/ Fails(r) \/ Loses(r)
      PROVE  accepted' \subseteq Receipts \ Objectionable
  BY <1>1 DEF Accepts, Refuses, Fails, Loses, RestTyped
<1>2. posting => Head(batch).receipt \in Receipts
  BY InFlightTyped DEF RestTyped
<1>3. CASE UNCHANGED accepted
  BY <1>3 DEF RestTyped
<1>4. CASE Emission
  <2>1. PICK r \in Receipts :
           Post(r) \/ FallbackToBuffer(r) \/ PostAnswered(r) \/ PostFailed(r)
    BY <1>4 DEF Emission
  <2>2. UNCHANGED accepted \/ Accepts(r) \/ Refuses(r) \/ Fails(r) \/ Loses(r)
    BY <2>1 DEF Post, FallbackToBuffer, PostAnswered, PostFailed
  <2>. QED  BY <1>1, <1>3, <2>2
<1>5. CASE Replay
  <2>1. CASE StartReplay \/ ReplayPost \/ ReplayBlocked
    BY <1>3, <2>1 DEF StartReplay, ReplayPost, ReplayBlocked
  <2>2. CASE ReplayAccepted
    BY <1>1, <1>2, <2>2 DEF ReplayAccepted
  <2>3. CASE ReplayFailed
    BY <1>1, <1>2, <2>3 DEF ReplayFailed
  <2>. QED  BY <1>5, <2>1, <2>2, <2>3 DEF Replay
<1>6. CASE Restart
  BY <1>6, InFlightTyped DEF Restart, RestTyped
<1>. QED  BY <1>3, <1>4, <1>5, <1>6 DEF Next, FallDue, GetClient

LEMMA RestNext ==
    ASSUME Inv, Inv', OrderInv, OrderInv', RestTyped, Next
    PROVE  RestTyped'
<1>1. BufferTyped /\ BufferTyped' /\ (posting => running) /\ (batch # <<>> => running)
  BY DEF Inv, InUse
<1>2. accepted' \subseteq Receipts \ Objectionable
  BY AcceptedTyped
<1> DEFINE Counted ==
             /\ dropped' \subseteq BufferIds
             /\ unsure' \subseteq Receipts \ Acceptances
             /\ faults' \in 0..MaxFaults
<1>3. ASSUME UNCHANGED <<dropped, unsure, faults>>
      PROVE  Counted
  BY <1>3 DEF RestTyped
<1>4. ASSUME NEW saved \in BOOLEAN, Save(0, saved), UNCHANGED dropped,
             NEW receipts, receipts \subseteq Receipts \ Acceptances, Doubt(receipts)
      PROVE  Counted
  BY <1>1, <1>4, SaveCounts, DoubtTyped DEF RestTyped
<1>5. ASSUME NEW r \in Receipts \ Acceptances, NEW saved \in BOOLEAN,
             NEW doubtful \in {{}, {r}}, BufferReceipt(r, saved, doubtful)
      PROVE  Counted
  <2>1. faults' \in 0..MaxFaults
    BY <1>5, SaveCounts DEF BufferReceipt
  <2>2. unsure' \subseteq Receipts \ Acceptances
    BY <1>1, <1>5, DoubtTyped DEF BufferReceipt
  <2>3. dropped' \subseteq BufferIds
    BY <1>1, <1>5, EvictedTyped DEF BufferReceipt, BufferTyped, RestTyped
  <2>. QED  BY <2>1, <2>2, <2>3
<1>6. ASSUME NEW r \in Receipts \ Acceptances, BufferAgain(r)
      PROVE  Counted
  <2> DEFINE id   == [receipt |-> r, copy |-> 1]
             once == Enqueue(buffer, id)
  <2>1. PICK saved \in BOOLEAN :
           /\ dropped' = dropped \cup Evicted(buffer) \cup Evicted(once)
           /\ Save(1, saved) /\ Doubt({r})
    BY <1>6 DEF BufferAgain
  <2>2. faults' \in 0..MaxFaults
    BY <2>1, SaveCounts
  <2>3. unsure' \subseteq Receipts \ Acceptances
    BY <1>1, <2>1, DoubtTyped
  <2>4. Bounded(once)
    BY <1>1, FirstId, Enqueued DEF BufferTyped
  <2> HIDE DEF once
  <2>5. dropped' \subseteq BufferIds
    BY <1>1, <2>1, <2>4, EvictedTyped DEF BufferTyped, RestTyped
  <2>. QED  BY <2>2, <2>3, <2>5
<1>7. ASSUME NEW id \in BufferIds, NEW doubtful, doubtful \subseteq Receipts \ Acceptances,
             NEW rest, ScheduleRetry(id, doubtful, rest)
      PROVE  Counted
  <2>1. CASE Places(id) = {}
    BY <1>7, <2>1 DEF ScheduleRetry, RestTyped
  <2>2. CASE Places(id) # {}
    <3>1. PICK saved \in BOOLEAN :
             Save(0, saved) /\ Doubt(doubtful) /\ dropped' \in {dropped, dropped \cup {id}}
      BY <1>7, <2>2 DEF ScheduleRetry
    <3>2. faults' \in 0..MaxFaults
      BY <3>1, SaveCounts
    <3>3. unsure' \subseteq Receipts \ Acceptances
      BY <1>1, <1>7, <3>1, DoubtTyped
    <3>. QED  BY <3>1, <3>2, <3>3 DEF RestTyped
  <2>. QED  BY <2>1, <2>2
<1>8. batch # <<>> => Head(batch) \in BufferIds /\ Head(batch).receipt \in Receipts \ Acceptances
  <2> SUFFICES ASSUME batch # <<>>
               PROVE  Head(batch) \in BufferIds /\ Head(batch).receipt \in Receipts \ Acceptances
    OBVIOUS
  <2>1. Head(batch) \in Queued /\ Head(batch) \in BufferIds /\ Head(batch).receipt \in Receipts
    BY HeadOfBatch DEF OrderInv
  <2>. QED  BY <2>1 DEF OrderInv, IdInv, Everywhere
<1> HIDE DEF Counted
<1>9. CASE Emission
  <2>1. PICK r \in Receipts :
           Post(r) \/ FallbackToBuffer(r) \/ PostAnswered(r) \/ PostFailed(r)
    BY <1>9 DEF Emission
  <2>2. UNCHANGED <<running, batch, posting, restarts>>
    BY <2>1 DEF Post, FallbackToBuffer, PostAnswered, PostFailed
  <2>3. ASSUME Raise(r) \/ Post(r) \/ PostAnswered(r)
        PROVE  Counted
    BY <1>3, <2>3 DEF Raise, Post, PostAnswered
  <2>4. ASSUME FallbackToBuffer(r)
        PROVE  Counted
    BY <1>5, <1>6, <2>3, <2>4 DEF FallbackToBuffer
  <2>5. ASSUME PostFailed(r)
        PROVE  Counted
    BY <1>5, <2>3, <2>5 DEF PostFailed
  <2>6. Counted
    BY <2>1, <2>3, <2>4, <2>5
  <2>. QED  BY <1>2, <2>2, <2>6 DEF RestTyped, PostedInv, Counted
<1>10. CASE Replay
  <2>1. running \in BOOLEAN /\ PostedInv
    BY DEF RestTyped
  <2>2. UNCHANGED <<running, restarts>> /\ PostedInv' /\ posting' \in BOOLEAN
    <3>1. CASE StartReplay
      BY <2>1, <3>1 DEF StartReplay, PostedInv, RestTyped
    <3>2. CASE ReplayPost
      BY <3>2 DEF ReplayPost, PostedInv
    <3>3. CASE ReplayBlocked
      BY <3>3 DEF ReplayBlocked, PostedInv, RestTyped
    <3>4. CASE ReplayAccepted \/ ReplayFailed
      BY <3>4 DEF ReplayAccepted, ReplayFailed, PostedInv
    <3>. QED  BY <1>10, <3>1, <3>2, <3>3, <3>4 DEF Replay
  <2>3. Counted
    <3>1. CASE StartReplay \/ ReplayPost
      BY <1>3, <3>1 DEF StartReplay, ReplayPost
    <3>2. CASE ReplayBlocked
      BY <1>7, <1>8, <3>2 DEF ReplayBlocked
    <3>3. CASE ReplayAccepted
      <4>1. CASE Places(Head(batch)) = {}
        BY <1>3, <3>3, <4>1 DEF ReplayAccepted, RemoveBufferItem
      <4>2. CASE Places(Head(batch)) # {}
        BY <1>4, <3>3, <4>2 DEF ReplayAccepted, RemoveBufferItem
      <4>. QED  BY <4>1, <4>2
    <3>4. CASE ReplayFailed
      <4>1. PICK doubtful \in {{}, {Head(batch).receipt}} :
               ScheduleRetry(Head(batch), doubtful, Tail(batch))
        BY <3>4 DEF ReplayFailed
      <4>2. batch # <<>>
        BY <2>1, <3>4 DEF ReplayFailed, PostedInv
      <4>. QED  BY <1>7, <1>8, <4>1, <4>2
    <3>. QED  BY <1>10, <3>1, <3>2, <3>3, <3>4 DEF Replay
  <2>. QED  BY <1>2, <2>2, <2>3 DEF RestTyped, Counted
<1>11. ASSUME NEW i \in 1..BufferSize, FallDue(i)
       PROVE  RestTyped'
  BY <1>2, <1>11 DEF FallDue, RestTyped, PostedInv
<1>12. CASE GetClient
  BY <1>2, <1>12 DEF GetClient, RestTyped, PostedInv
<1>13. CASE Restart
  <2>1. restarts' \in 0..MaxRestarts
    BY <1>13, Bounds DEF Restart, RestTyped
  <2>2. unsure' \subseteq Receipts \ Acceptances
    BY <1>13, InFlightTyped DEF Restart, RestTyped
  <2>. QED  BY <1>2, <1>13, <2>1, <2>2 DEF Restart, RestTyped, PostedInv
<1>. QED  BY <1>9, <1>10, <1>11, <1>12, <1>13 DEF Next

----------------------------------------------------------------------------
(* Together *)

FullInv == Inv /\ OrderInv /\ RestTyped

LEMMA FullInit == Init => FullInv
BY InvInit, OrderInit, RestInit DEF FullInv

\* A step that changes something keeps the invariant, and is a step of the flow.
LEMMA FullStep ==
    ASSUME FullInv, Next
    PROVE  FullInv' /\ Flow
<1>1. Inv /\ Inv' /\ OrderInv /\ RestTyped /\ PostedInv
  BY InvNext DEF FullInv, RestTyped
<1>2. Flow
  BY <1>1, NextFlow
<1>3. OrderInv'
  <2>1. accepted' \subseteq Receipts
    BY <1>1, AcceptedTyped
  <2>. QED  BY <1>1, <1>2, <2>1, OrderStep DEF Inv
<1>. QED  BY <1>1, <1>2, <1>3, RestNext DEF FullInv

LEMMA FullNext == FullInv /\ [Next]_vars => FullInv'
<1>1. ASSUME FullInv, UNCHANGED vars
      PROVE  FullInv'
  <2>1. Inv'
    BY <1>1, InvNext DEF FullInv
  <2>2. UNCHANGED <<running, buffer, disk, callers, batch, posting, accepted,
                    dropped, unsure, faults, restarts>>
    BY <1>1 DEF vars
  <2>3. Everywhere' = Everywhere
    BY <2>2 DEF Everywhere, Queued
  <2>4. OrderInv'
    BY <1>1, <2>2, <2>3 DEF FullInv, OrderInv, BatchInv, IdInv, Fresh, Synced
  <2>5. RestTyped'
    BY <1>1, <2>2 DEF FullInv, RestTyped, PostedInv
  <2>. QED  BY <2>1, <2>4, <2>5 DEF FullInv
<1>. QED  BY <1>1, FullStep

LEMMA FullAlways == Spec => []FullInv
BY FullInit, FullNext, PTL DEF Spec

\* The state of ReceiptGateClient is what it should be: the buffer and its file hold items
\* within their limits, the worker posts only what it has in its batch, no acceptance is
\* ever unsure, ReceiptGate has nothing it refuses.
THEOREM TypeCorrect == Spec => []TypeOK
<1>1. FullInv => TypeOK
  <2> SUFFICES ASSUME FullInv PROVE TypeOK
    OBVIOUS
  <2>1. Bounded(buffer) /\ Bounded(disk) /\ CallersType /\ batch \in Seq(BufferIds)
    BY DEF FullInv, Inv, BufferTyped, OrderInv, BatchInv
  <2>2. \A s \in {buffer, disk} : s \in Seq(Items) /\ Len(s) <= BufferSize
    BY <2>1 DEF Bounded
  <2>. QED  BY <2>1, <2>2 DEF TypeOK, CallersType, FullInv, RestTyped, PostedInv
<1>. QED  BY <1>1, FullAlways, PTL

\* Neither emit_receipt nor the replay posts a receipt ReceiptGate has, unless the receipt
\* is unsure: an answer was lost, the process died, or the buffer file was not written.
THEOREM RepeatCorrect == Spec => NoNeedlessRepeat
<1>1. ASSUME FullInv, Next, NEW r \in accepted \ unsure
      PROVE  ~Posted(r)
  <2>1. OrderInv /\ accepted \subseteq Receipts
    BY <1>1 DEF FullInv, RestTyped
  <2>2. callers[r] # "new"
    BY <1>1, <2>1 DEF OrderInv, Fresh
  <2>3. ASSUME ~posting, posting', Head(batch).receipt = r
        PROVE  FALSE
    <3>1. ReplayPost
      BY <1>1, <2>3 DEF Next, Emission, Replay, Post, FallbackToBuffer, PostAnswered, PostFailed,
           StartReplay, ReplayBlocked, ReplayAccepted, ReplayFailed, FallDue, GetClient, Restart
    <3>2. Head(batch) \in Everywhere
      BY <2>1, <3>1, HeadOfBatch DEF ReplayPost, OrderInv, Everywhere
    <3>. QED  BY <1>1, <2>1, <2>3, <3>2 DEF OrderInv, IdInv
  <2>. QED  BY <2>2, <2>3 DEF Posted
<1>2. FullInv /\ [Next]_vars => [\A r \in accepted \ unsure : ~Posted(r)]_vars
  BY <1>1
<1>. QED  BY <1>2, FullAlways, PTL DEF Spec, NoNeedlessRepeat

----------------------------------------------------------------------------
(* Delivery *)

LEMMA WaitsIs ==
    ASSUME NEW r
    PROVE  /\ Waits(r) <=> \E id \in Everywhere : id.receipt = r
           /\ Waits(r)' <=> \E id \in Everywhere' : id.receipt = r
<1>1. Waits(r) <=> \E id \in Everywhere : id.receipt = r
  BY HeldIds, IdsHeld DEF Waits, Everywhere, Queued
<1>2. Waits(r)' <=> \E id \in Everywhere' : id.receipt = r
  BY HeldIds, IdsHeld DEF Waits, Everywhere, Queued
<1>. QED  BY <1>1, <1>2

\* A receipt whose emitter is told something with the step.
LEMMA ToldStep ==
    ASSUME FullInv, FullInv', Flow, NEW r \in Receipts, callers'[r] # callers[r]
    PROVE  \/ /\ Fate(r) = "new" /\ Word(r) = "nothing"
              /\ Fate(r)' = "posting" /\ Word(r)' = "nothing"
           \/ /\ Fate(r) = "posting"
              /\ Fate(r)' \in {"accepted", "closed"} /\ Word(r)' = "answered"
           \/ /\ r \notin Acceptances /\ Word(r)' = "buffered"
              /\ \/ Fate(r) \in {"new", "posting"} /\ Fate(r)' = "waiting"
                 \/ Fate(r) = "posting" /\ Fate(r)' = "accepted"
           \/ /\ Word(r)' = "failed"
              /\ \/ Fate(r) \in {"new", "posting"} /\ Fate(r)' = "closed"
                 \/ Fate(r) = "posting" /\ Fate(r)' = "accepted"
                 \/ /\ r \notin Acceptances /\ Fate(r) \in {"new", "posting"}
                    /\ Fate(r)' = "waiting"
<1>1. OrderInv /\ OrderInv'
  BY DEF FullInv
<1>2. Fresh(r) /\ Tells(r)
  BY DEF Flow
<1>3. r \notin accepted /\ ~Waits(r)
  BY <1>1, <1>2, FreshWaitsNowhere, WaitsIs
<1>4. Fate(r) = callers[r] /\ Word(r) = "nothing" /\ callers[r] \in {"new", "posting"}
  BY <1>2, <1>3 DEF Fate, Word, Fresh
<1>5. r \in accepted' => callers[r] = "posting"
  <2> SUFFICES ASSUME r \in accepted' PROVE callers[r] = "posting"
    OBVIOUS
  <2>1. Arrives(r)
    BY <1>3 DEF Flow
  <2>. QED  BY <1>3, <2>1, WaitsIs DEF Arrives
<1>6. Waits(r)' => r \notin Acceptances /\ callers'[r] \in {"buffered", "failed"}
  <2> SUFFICES ASSUME Waits(r)' PROVE r \notin Acceptances /\ callers'[r] \in {"buffered", "failed"}
    OBVIOUS
  <2>1. PICK id \in Everywhere' : id.receipt = r
    BY WaitsIs
  <2>2. Enters(id)
    BY <1>3, <2>1, WaitsIs DEF Flow
  <2>. QED  BY <2>1, <2>2 DEF Enters
<1>7. CASE callers[r] = "new" /\ callers'[r] = "posting"
  <2>1. r \notin accepted'
    BY <1>5, <1>7
  <2>2. Fate(r)' = "posting" /\ Word(r)' = "nothing"
    BY <1>7, <2>1 DEF Fate, Word
  <2>. QED  BY <1>4, <1>7, <2>2
<1>8. CASE callers[r] = "posting" /\ callers'[r] = "answered"
  <2>1. ~Waits(r)'
    BY <1>6, <1>8
  <2>2. Fate(r)' \in {"accepted", "closed"} /\ Word(r)' = "answered"
    BY <1>8, <2>1 DEF Fate, Word
  <2>. QED  BY <1>4, <1>8, <2>2
<1>9. CASE callers'[r] = "buffered" /\ r \in Held(buffer')
  <2>1. Waits(r)'
    BY <1>9 DEF Waits
  <2>2. Fate(r)' = (IF r \in accepted' THEN "accepted" ELSE "waiting") /\ Word(r)' = "buffered"
    BY <1>9, <2>1 DEF Fate, Word
  <2>. QED  BY <1>4, <1>5, <1>6, <2>1, <2>2
<1>10. CASE callers'[r] = "failed"
  <2>1. Word(r)' = "failed"
    BY <1>10 DEF Word
  <2>2. Fate(r)' = IF r \in accepted' THEN "accepted" ELSE IF Waits(r)' THEN "waiting" ELSE "closed"
    BY <1>10 DEF Fate
  <2>. QED  BY <1>4, <1>5, <1>6, <2>1, <2>2
<1>. QED  BY <1>2, <1>7, <1>8, <1>9, <1>10 DEF Tells

\* Any other receipt stays where it is, or its wait is over: and if it was promised and
\* is not in ReceiptGate, it has been reported.
LEMMA QuietStep ==
    ASSUME FullInv, FullInv', Flow, NEW r \in Receipts, callers'[r] = callers[r]
    PROVE  /\ Word(r)' = Word(r)
           /\ \/ Fate(r)' = Fate(r)
              \/ Fate(r) = "waiting" /\ Fate(r)' = "accepted"
              \/ /\ Fate(r) = "waiting" /\ Fate(r)' = "closed"
                 /\ Word(r) = "buffered" => r \in {id.receipt : id \in dropped'}
<1>1. Word(r)' = Word(r)
  BY DEF Word
<1>2. OrderInv /\ OrderInv' /\ KeptInv'
  BY DEF FullInv, Inv
<1>3. accepted \subseteq accepted'
  BY DEF Flow
<1>4. Waits(r)' => Waits(r)
  BY WaitsIs DEF Flow, Enters, Fresh
<1>5. r \in accepted' => r \in accepted \/ Waits(r)
  BY WaitsIs DEF Flow, Arrives
<1>6. CASE r \in accepted
  BY <1>1, <1>3, <1>6 DEF Fate
<1>7. CASE r \notin accepted /\ Fresh(r)
  <2>1. ~Waits(r)
    BY <1>2, <1>7, FreshWaitsNowhere, WaitsIs
  <2>2. r \notin accepted'
    BY <1>5, <1>7, <2>1
  <2>. QED  BY <1>1, <1>7, <2>2 DEF Fate, Fresh
<1>8. CASE r \notin accepted /\ ~Fresh(r) /\ ~Waits(r)
  BY <1>1, <1>4, <1>5, <1>8 DEF Fate, Fresh
<1>9. CASE r \notin accepted /\ ~Fresh(r) /\ Waits(r)
  <2>1. Fate(r) = "waiting"
    BY <1>9 DEF Fate, Fresh
  <2>2. CASE r \in accepted'
    BY <1>1, <2>1, <2>2 DEF Fate
  <2>3. CASE r \notin accepted' /\ Waits(r)'
    BY <1>1, <1>9, <2>1, <2>3 DEF Fate, Fresh
  <2>4. CASE r \notin accepted' /\ ~Waits(r)'
    <3>1. Fate(r)' = "closed"
      BY <1>9, <2>4 DEF Fate, Fresh
    <3>2. callers'[r] = "buffered" => r \in {id.receipt : id \in dropped'}
      BY <1>2, <2>4 DEF KeptInv, Tracked, Waits
    <3>3. Word(r) = "buffered" => callers'[r] = "buffered"
      BY DEF Word
    <3>. QED  BY <1>1, <2>1, <3>1, <3>2, <3>3
  <2>. QED  BY <2>2, <2>3, <2>4
<1>. QED  BY <1>6, <1>7, <1>8, <1>9

LEMMA DeliveryStarts == Init => Promise!DeliveryInit
<1> SUFFICES ASSUME Init PROVE Promise!DeliveryInit
  OBVIOUS
<1>1. ASSUME NEW r \in Receipts
      PROVE  Fate(r) = "new" /\ Word(r) = "nothing"
  BY DEF Init, Fate, Word
<1>. QED  BY <1>1 DEF Init, Promise!DeliveryInit

LEMMA DroppedGrows ==
    ASSUME FullInv, Next
    PROVE  dropped \subseteq dropped'
<1>1. ASSUME NEW r \in Receipts,
             Post(r) \/ FallbackToBuffer(r) \/ PostAnswered(r) \/ PostFailed(r)
      PROVE  dropped \subseteq dropped'
  BY <1>1 DEF Post, FallbackToBuffer, PostAnswered, PostFailed, Raise, BufferReceipt, BufferAgain
<1>2. CASE Replay
  <2>1. ASSUME NEW id, NEW doubtful, NEW rest, ScheduleRetry(id, doubtful, rest)
        PROVE  dropped \subseteq dropped'
    BY <2>1 DEF ScheduleRetry
  <2>. QED  BY <1>2, <2>1
            DEF Replay, StartReplay, ReplayPost, ReplayBlocked, ReplayAccepted, ReplayFailed
<1>. QED  BY <1>1, <1>2 DEF Next, Emission, FallDue, GetClient, Restart

LEMMA DeliveryStep ==
    FullInv /\ [Next]_vars => [Promise!DeliveryNext]_(Promise!deliveryVars)
<1>1. ASSUME FullInv, Next
      PROVE  Promise!DeliveryNext
  <2> DEFINE fate     == [r \in Receipts |-> Fate(r)]
             told     == [r \in Receipts |-> Word(r)]
             reported == {id.receipt : id \in dropped}
  <2>1. FullInv' /\ Flow
    BY <1>1, FullStep
  <2>2. reported \subseteq reported'
    BY <1>1, DroppedGrows
  <2>3. \A r \in Receipts :
           /\ fate[r] = Fate(r) /\ fate'[r] = Fate(r)'
           /\ told[r] = Word(r) /\ told'[r] = Word(r)'
    OBVIOUS
  <2> HIDE DEF fate, told
  <2>4. ASSUME NEW r \in Receipts
        PROVE  \/ Promise!Emit(r) \/ Promise!Answered(r) \/ Promise!Buffered(r) \/ Promise!Failed(r)
               \/ Promise!Delivered(r) \/ Promise!GivenUp(r) \/ Promise!Stays(r)
    <3>1. CASE callers'[r] # callers[r]
      BY <1>1, <2>1, <2>3, <3>1, ToldStep
         DEF fate, told, Promise!Emit, Promise!Answered, Promise!Buffered, Promise!Failed, Promise!Becomes
    <3>2. CASE callers'[r] = callers[r]
      BY <1>1, <2>1, <2>3, <3>2, QuietStep
         DEF fate, told, Promise!Delivered, Promise!GivenUp, Promise!Stays, Promise!Becomes
    <3>. QED  BY <3>1, <3>2
  <2>. QED  BY <2>2, <2>4 DEF Promise!DeliveryNext
<1>2. ASSUME UNCHANGED vars
      PROVE  UNCHANGED Promise!deliveryVars
  BY <1>2 DEF vars, Promise!deliveryVars, Fate, Word, Waits
<1>. QED  BY <1>1, <1>2

\* ReceiptGateClient keeps the promise of Delivery, for any buffer, limits and faults: what
\* the emitter is told and where the receipt ends up go together.
THEOREM DeliveryCorrect == Spec => ImplementsDelivery
BY DeliveryStarts, DeliveryStep, FullAlways, PTL
   DEF Spec, ImplementsDelivery, Promise!DeliverySpec
=============================================================================
