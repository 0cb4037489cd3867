---------------------------- MODULE TsListProofs ----------------------------
(***************************************************************************)
(* Proofs about ts_list, for any number of producers, messages and         *)
(* spurious wake-ups and any initial capacity.                             *)
(***************************************************************************)
EXTENDS TsList, TLAPS

(* The list operations that ts_list uses, on any list of messages.         *)

\* Insertion on the head puts the new element first and moves the others back
\* by one.
LEMMA InsertedAtHead ==
    ASSUME items \in Seq(Message), NEW d \in Message
    PROVE  /\ L!Inserted(1, d) \in Seq(Message)
           /\ Len(L!Inserted(1, d)) = Len(items) + 1
           /\ L!Inserted(1, d)[1] = d
           /\ \A i \in 1..Len(items) : L!Inserted(1, d)[i + 1] = items[i]
           /\ \A i \in 2..(Len(items) + 1) : L!Inserted(1, d)[i] = items[i - 1]
<1>1. Len(items) \in Nat
  OBVIOUS
<1>2. \A i \in 1..(Len(items) + 1) :
        (IF i < 1 THEN items[i] ELSE IF i = 1 THEN d ELSE items[i - 1]) \in Message
  <2>1. SUFFICES ASSUME NEW i \in 1..(Len(items) + 1)
                 PROVE  (IF i < 1 THEN items[i] ELSE IF i = 1 THEN d ELSE items[i - 1])
                          \in Message
    OBVIOUS
  <2>2. CASE i = 1
    BY <2>2
  <2>3. CASE i # 1
    BY <1>1, <2>3
  <2> QED
    BY <2>2, <2>3
<1>3. L!Inserted(1, d) \in Seq(Message) /\ Len(L!Inserted(1, d)) = Len(items) + 1
  BY <1>1, <1>2 DEF L!Inserted
<1>4. \A i \in 1..(Len(items) + 1) :
        L!Inserted(1, d)[i] = IF i = 1 THEN d ELSE items[i - 1]
  BY <1>1 DEF L!Inserted
<1> QED
  BY <1>1, <1>3, <1>4

\* Deletion of the head moves the others forward by one.
LEMMA RemovedHead ==
    ASSUME items \in Seq(Message), items # << >>
    PROVE  /\ Len(items) \in Nat \ {0}
           /\ L!Removed(1) \in Seq(Message)
           /\ Len(L!Removed(1)) = Len(items) - 1
           /\ \A i \in 1..(Len(items) - 1) : L!Removed(1)[i] = items[i + 1]
           /\ L!Removed(1) = Tail(items)
<1>1. Len(items) \in Nat \ {0}
  OBVIOUS
<1>2. \A i \in 1..(Len(items) - 1) : items[i + 1] \in Message
  BY <1>1
<1>3. \A i \in 1..(Len(items) - 1) :
        (IF i < 1 THEN items[i] ELSE items[i + 1]) = items[i + 1]
  BY <1>1
<1>4. L!Removed(1) = [i \in 1..(Len(items) - 1) |-> items[i + 1]]
  BY <1>3 DEF L!Removed
<1>5. L!Removed(1) \in Seq(Message) /\ Len(L!Removed(1)) = Len(items) - 1
  BY <1>1, <1>2, <1>4
<1>6. L!Removed(1) = Tail(items)
  BY <1>1, <1>4
<1> QED
  BY <1>1, <1>4, <1>5, <1>6

\* An insertion into a settled list leaves it settled; it can grow the buffer,
\* when all nodes are used, but not shrink it.
LEMMA CapacityAfterInsert ==
    ASSUME NEW n \in Nat, capacity \in Nat, capacity >= MinCapacity, n <= capacity,
           ~(n < capacity \div 4 /\ capacity \div 2 >= MinCapacity)
    PROVE  /\ L!ResizedFor(n) \in Nat
           /\ L!ResizedFor(n) >= MinCapacity
           /\ n + 1 <= L!ResizedFor(n)
           /\ ~(n + 1 < L!ResizedFor(n) \div 4 /\ L!ResizedFor(n) \div 2 >= MinCapacity)
           /\ L!ResizedFor(n) # capacity => n = capacity
BY BoundsAssumption DEF L!ResizedFor

\* So does a deletion.
LEMMA CapacityAfterDelete ==
    ASSUME NEW n \in Nat \ {0}, capacity \in Nat, capacity >= MinCapacity, n <= capacity,
           ~(n < capacity \div 4 /\ capacity \div 2 >= MinCapacity)
    PROVE  /\ L!ResizedFor(n - 1) \in Nat
           /\ L!ResizedFor(n - 1) >= MinCapacity
           /\ n - 1 <= L!ResizedFor(n - 1)
           /\ ~(n - 1 < L!ResizedFor(n - 1) \div 4 /\ L!ResizedFor(n - 1) \div 2 >= MinCapacity)
BY BoundsAssumption DEF L!ResizedFor

-----------------------------------------------------------------------------
LEMMA InitInductive == Init => Inductive
<1> SUFFICES ASSUME Init PROVE Inductive
  OBVIOUS
<1>1. items = << >> /\ Len(items) = 0 /\ items \in Seq(Message) /\ capacity = MinCapacity
  BY DEF Init, L!ListInit
<1>2. pc = [t \in Threads |-> IF t = Consumer THEN "check" ELSE "idle"]
  BY DEF Init
<1>3. pc[Consumer] = "check" /\ \A p \in Producers : pc[p] = "idle"
  BY <1>2, ThreadsAssumption DEF Threads
<1>4. TypeOK
  <2>1. handled = << >> /\ handled \in Seq(Message \cup {Garbage})
    BY DEF Init
  <2>2. pc \in [Threads -> ConsumerPcs \cup ProducerPcs]
    BY <1>2 DEF ConsumerPcs, ProducerPcs
  <2>3. mxList \in Producers \cup {NoOwner} /\ mxUpdate \in Threads \cup {NoOwner}
        /\ stale \in BOOLEAN /\ got \in Message \cup {Garbage}
    BY DEF Init
  <2>4. capacity \in Nat /\ capacity >= MinCapacity /\ ptr \in Nat
        /\ inserted \in 0..MaxInserts /\ spurious \in 0..MaxSpurious
    BY <1>1, BoundsAssumption DEF Init
  <2>5. (\A p \in Producers : pc[p] \in ProducerPcs) /\ pc[Consumer] \in ConsumerPcs
    BY <1>3 DEF ConsumerPcs, ProducerPcs
  <2> QED
    BY <1>1, <2>1, <2>2, <2>3, <2>4, <2>5 DEF TypeOK
<1>5. LocksOwned
  BY <1>3, ThreadsAssumption DEF Init, LocksOwned
<1>6. HeadPresent /\ GotStillQueued /\ StaleOnlyPastCapacity
  BY <1>3 DEF Init, HeadPresent, GotStillQueued, StaleOnlyPastCapacity, Reading
<1>7. LostToOlder /\ NewestFirst
  BY <1>1 DEF Init, LostToOlder, NewestFirst
<1>8. CapacitySettled
  BY <1>1, BoundsAssumption DEF CapacitySettled
<1>9. (\A i \in 1..Len(items) : items[i] <= inserted) /\ (stale => pc[Consumer] = "copy")
  BY <1>1 DEF Init
<1> QED
  BY <1>4, <1>5, <1>6, <1>7, <1>8, <1>9 DEF Inductive

-----------------------------------------------------------------------------
(* Every action preserves the inductive invariant.  A step that leaves the *)
(* list alone keeps what Inductive says of the list itself.                *)

LEMMA ListUntouched ==
    ASSUME Inductive, UNCHANGED << items, capacity, inserted, handled >>
    PROVE  /\ LostToOlder' /\ NewestFirst' /\ CapacitySettled'
           /\ \A i \in 1..Len(items') : items'[i] <= inserted'
BY DEF Inductive, LostToOlder, NewestFirst, CapacitySettled

LEMMA LockToNotifyInductive ==
    ASSUME Inductive, NEW p \in Producers, LockToNotify(p)
    PROVE  Inductive'
<1>1. /\ pc' \in [Threads -> ConsumerPcs \cup ProducerPcs]
      /\ pc[p] = "update" /\ pc'[p] = "notify"
      /\ pc'[Consumer] = pc[Consumer]
      /\ \A q \in Producers : q # p => pc'[q] = pc[q]
  BY ThreadsAssumption DEF Inductive, TypeOK, LockToNotify, Threads, ConsumerPcs, ProducerPcs
<1>2. TypeOK'
  BY <1>1 DEF Inductive, TypeOK, LockToNotify, Threads, ProducerPcs
<1>3. LocksOwned'
  BY <1>1, ThreadsAssumption DEF Inductive, LocksOwned, LockToNotify, CanLock
<1>4. HeadPresent' /\ GotStillQueued' /\ StaleOnlyPastCapacity' /\ (stale' => pc'[Consumer] = "copy")
  BY <1>1 DEF Inductive, LockToNotify, HeadPresent, GotStillQueued, StaleOnlyPastCapacity, Reading
<1> QED
  BY <1>2, <1>3, <1>4, ListUntouched DEF Inductive, LockToNotify

LEMMA NotifyInductive ==
    ASSUME Inductive, NEW p \in Producers, Notify(p)
    PROVE  Inductive'
<1>1. /\ pc' \in [Threads -> ConsumerPcs \cup ProducerPcs]
      /\ pc[p] = "notify" /\ pc'[p] = "idle"
      /\ pc'[Consumer] = IF pc[Consumer] = "asleep" THEN "woken" ELSE pc[Consumer]
      /\ \A q \in Producers : q # p => pc'[q] = pc[q]
  <2>1. pc \in [Threads -> ConsumerPcs \cup ProducerPcs] /\ p \in Threads /\ p # Consumer
        /\ Consumer \in Threads /\ Consumer \notin Producers /\ Producers \subseteq Threads
    BY ThreadsAssumption DEF Inductive, TypeOK, Threads
  <2>2. pc[p] = "notify"
        /\ pc' = [pc EXCEPT ![p] = "idle",
                            ![Consumer] = IF pc[Consumer] = "asleep" THEN "woken" ELSE pc[Consumer]]
    BY <2>1 DEF Notify
  <2>3. PICK place \in ConsumerPcs :
             /\ place = IF pc[Consumer] = "asleep" THEN "woken" ELSE pc[Consumer]
             /\ pc' = [pc EXCEPT ![p] = "idle", ![Consumer] = place]
    BY <2>2 DEF Inductive, TypeOK, ConsumerPcs
  <2>4. "idle" \in ProducerPcs
    BY DEF ProducerPcs
  <2>5. pc' = [t \in Threads |-> IF t = Consumer THEN place
                                  ELSE IF t = p THEN "idle" ELSE pc[t]]
    BY <2>1, <2>3
  <2>6. pc' \in [Threads -> ConsumerPcs \cup ProducerPcs]
    BY <2>1, <2>4, <2>5
  <2>7. pc'[p] = "idle" /\ pc'[Consumer] = place
        /\ \A q \in Producers : q # p => pc'[q] = pc[q]
    BY <2>1, <2>5
  <2> QED
    BY <2>2, <2>3, <2>6, <2>7
<1>2. TypeOK'
  <2>1. pc'[Consumer] \in ConsumerPcs /\ \A q \in Producers : pc'[q] \in ProducerPcs
    BY <1>1 DEF Inductive, TypeOK, ConsumerPcs, ProducerPcs
  <2> QED
    BY <1>1, <2>1 DEF Inductive, TypeOK, Notify
<1>3. LocksOwned'
  <2>1. mxList = p /\ mxUpdate = p
    BY <1>1 DEF Inductive, LocksOwned
  <2>2. pc[Consumer] # "wait"
        /\ \A q \in Producers : q # p => pc[q] \notin {"update", "notify"}
    BY <2>1, ThreadsAssumption DEF Inductive, LocksOwned
  <2>3. mxList' = NoOwner /\ mxUpdate' = NoOwner
    BY DEF Notify
  <2>4. pc'[Consumer] # "wait"
        /\ \A q \in Producers : pc'[q] \notin {"update", "notify"}
    BY <1>1, <2>2
  <2> QED
    BY <2>3, <2>4, ThreadsAssumption DEF LocksOwned
<1>4. HeadPresent' /\ GotStillQueued' /\ StaleOnlyPastCapacity' /\ (stale' => pc'[Consumer] = "copy")
  BY <1>1 DEF Inductive, Notify, HeadPresent, GotStillQueued, StaleOnlyPastCapacity, Reading
<1> QED
  BY <1>2, <1>3, <1>4, ListUntouched DEF Inductive, Notify

\* The steps by which the consumer waits: nothing but its place and mx_update
\* change.
LEMMA WaitInductive ==
    ASSUME Inductive, CheckEmpty \/ LockToWait \/ Sleep \/ SpuriousWake \/ Rewake
    PROVE  Inductive'
<1>1. /\ pc' \in [Threads -> ConsumerPcs \cup ProducerPcs]
      /\ \A q \in Producers : pc'[q] = pc[q]
      /\ pc'[Consumer] \in ConsumerPcs
  <2>1. pc \in [Threads -> ConsumerPcs \cup ProducerPcs] /\ Consumer \in Threads
        /\ Consumer \notin Producers /\ Producers \subseteq Threads
    BY ThreadsAssumption DEF Inductive, TypeOK, Threads
  <2>2. PICK place \in ConsumerPcs : pc' = [pc EXCEPT ![Consumer] = place]
    BY DEF CheckEmpty, LockToWait, Sleep, SpuriousWake, Rewake, ConsumerPcs
  <2> QED
    BY <2>1, <2>2
<1>2. TypeOK'
  <2>1. UNCHANGED << items, capacity, mxList, ptr, stale, got, inserted, handled >>
    BY DEF CheckEmpty, LockToWait, Sleep, SpuriousWake, Rewake
  <2>2. mxUpdate' \in {mxUpdate, Consumer, NoOwner}
    BY DEF CheckEmpty, LockToWait, Sleep, SpuriousWake, Rewake
  <2>3. spurious' \in 0..MaxSpurious
    BY BoundsAssumption
    DEF Inductive, TypeOK, CheckEmpty, LockToWait, Sleep, SpuriousWake, Rewake
  <2> QED
    BY <1>1, <2>1, <2>2, <2>3 DEF Inductive, TypeOK, Threads
<1>3. LocksOwned'
  BY <1>1, ThreadsAssumption
  DEF Inductive, TypeOK, LocksOwned, CheckEmpty, LockToWait, Sleep, SpuriousWake, Rewake,
      CanLock, Threads
<1>4. HeadPresent' /\ GotStillQueued' /\ StaleOnlyPastCapacity' /\ (stale' => pc'[Consumer] = "copy")
  BY ThreadsAssumption
  DEF Inductive, TypeOK, CheckEmpty, LockToWait, Sleep, SpuriousWake, Rewake, Threads,
      HeadPresent, GotStillQueued, StaleOnlyPastCapacity, Reading
<1>5. UNCHANGED << items, capacity, inserted, handled >>
  BY DEF CheckEmpty, LockToWait, Sleep, SpuriousWake, Rewake
<1> QED
  BY <1>2, <1>3, <1>4, <1>5, ListUntouched DEF Inductive

\* get_head takes a pointer to the first node, and the list is not empty.
LEMMA GetHeadInductive ==
    ASSUME Inductive, GetHead
    PROVE  Inductive'
<1>1. /\ pc' \in [Threads -> ConsumerPcs \cup ProducerPcs]
      /\ pc[Consumer] = "get" /\ pc'[Consumer] = "copy"
      /\ \A q \in Producers : pc'[q] = pc[q]
  BY ThreadsAssumption DEF Inductive, TypeOK, GetHead, Threads, ConsumerPcs, ProducerPcs
<1>2. ptr' = 1 /\ stale' = FALSE
  BY DEF GetHead
<1>3. TypeOK'
  <2>1. ptr' \in Nat /\ stale' \in BOOLEAN /\ pc'[Consumer] \in ConsumerPcs
    BY <1>1, <1>2 DEF ConsumerPcs
  <2> QED
    BY <1>1, <2>1 DEF Inductive, TypeOK, GetHead
<1>4. LocksOwned'
  BY <1>1 DEF Inductive, LocksOwned, GetHead
<1>5. items # << >> /\ items' = items
  BY <1>1 DEF Inductive, HeadPresent, GetHead
<1>6. HeadPresent' /\ GotStillQueued'
  <2>1. Len(items) \in Nat \ {0}
    BY <1>5 DEF Inductive, TypeOK
  <2> QED
    BY <1>1, <1>2, <1>5, <2>1 DEF HeadPresent, GotStillQueued
<1>7. StaleOnlyPastCapacity' /\ (stale' => pc'[Consumer] = "copy")
  BY <1>2 DEF StaleOnlyPastCapacity
<1> QED
  BY <1>3, <1>4, <1>6, <1>7, ListUntouched DEF Inductive, GetHead

\* The copy is the message the pointer was taken to, or Garbage.
LEMMA CopyDataInductive ==
    ASSUME Inductive, CopyData
    PROVE  Inductive'
<1>1. /\ pc' \in [Threads -> ConsumerPcs \cup ProducerPcs]
      /\ pc[Consumer] = "copy" /\ pc'[Consumer] = "delete"
      /\ \A q \in Producers : pc'[q] = pc[q]
  BY ThreadsAssumption DEF Inductive, TypeOK, CopyData, Threads, ConsumerPcs, ProducerPcs
<1>2. stale' = FALSE /\ ptr' = ptr /\ items' = items
  BY DEF CopyData
<1>3. ptr \in 1..Len(items)
  BY <1>1 DEF Inductive, GotStillQueued, Reading
<1>4. got' \in {items[ptr], Garbage} /\ items[ptr] \in Message
  BY <1>3 DEF Inductive, TypeOK, CopyData
<1>5. TypeOK'
  BY <1>1, <1>2, <1>4 DEF Inductive, TypeOK, CopyData, ConsumerPcs
<1>6. LocksOwned'
  BY <1>1 DEF Inductive, LocksOwned, CopyData
<1>7. HeadPresent' /\ GotStillQueued'
  BY <1>1, <1>2, <1>3, <1>4 DEF Inductive, HeadPresent, GotStillQueued
<1>8. StaleOnlyPastCapacity' /\ (stale' => pc'[Consumer] = "copy")
  BY <1>2 DEF StaleOnlyPastCapacity
<1> QED
  BY <1>5, <1>6, <1>7, <1>8, ListUntouched DEF Inductive, CopyData

\* insert_head: the new message takes position 1 and everything else moves
\* back by one, the consumer's pointer with it; a reallocation under the
\* pointer means that every node was in use.
LEMMA InsertItemInductive ==
    ASSUME Inductive, NEW p \in Producers, InsertItem(p)
    PROVE  Inductive'
<1>1. /\ pc' \in [Threads -> ConsumerPcs \cup ProducerPcs]
      /\ pc[p] = "idle" /\ pc'[p] = "update"
      /\ pc'[Consumer] = pc[Consumer]
      /\ \A q \in Producers : q # p => pc'[q] = pc[q]
  BY ThreadsAssumption DEF Inductive, TypeOK, InsertItem, Threads, ConsumerPcs, ProducerPcs
<1>2. /\ items \in Seq(Message) /\ Len(items) \in Nat
      /\ inserted \in Nat /\ MaxInserts \in Nat /\ inserted + 1 \in Message
      /\ inserted' = inserted + 1 /\ inserted' \in 0..MaxInserts
  BY BoundsAssumption DEF Inductive, TypeOK, InsertItem, Message
<1>3. items' = L!Inserted(1, inserted + 1) /\ capacity' = L!ResizedFor(Len(items))
  BY DEF InsertItem, InsertPosition, L!InsertAt
<1>4. /\ items' \in Seq(Message) /\ Len(items') = Len(items) + 1
      /\ items'[1] = inserted + 1
      /\ \A i \in 1..Len(items) : items'[i + 1] = items[i]
      /\ \A i \in 2..(Len(items) + 1) : items'[i] = items[i - 1]
  BY <1>2, <1>3, InsertedAtHead
<1>5. /\ capacity' \in Nat /\ capacity' >= MinCapacity
      /\ Len(items) + 1 <= capacity'
      /\ ~(Len(items) + 1 < capacity' \div 4 /\ capacity' \div 2 >= MinCapacity)
      /\ capacity' # capacity => Len(items) = capacity
  BY <1>2, <1>3, CapacityAfterInsert DEF Inductive, TypeOK, CapacitySettled
<1>6. ptr' = (IF Reading THEN ptr + 1 ELSE ptr) /\ ptr' \in Nat
  BY DEF InsertItem, Inductive, TypeOK
<1>7. TypeOK'
  <2>1. pc'[Consumer] \in ConsumerPcs /\ \A q \in Producers : pc'[q] \in ProducerPcs
    BY <1>1 DEF Inductive, TypeOK, ProducerPcs
  <2>2. mxList' = p /\ stale' \in BOOLEAN
    BY DEF InsertItem, Inductive, TypeOK
  <2> QED
    BY <1>1, <1>2, <1>4, <1>5, <1>6, <2>1, <2>2 DEF Inductive, TypeOK, InsertItem
<1>8. LocksOwned'
  <2>1. mxList = NoOwner /\ mxList' = p /\ mxUpdate' = mxUpdate
    BY DEF InsertItem, CanLock
  <2> QED
    BY <1>1, <2>1, ThreadsAssumption DEF Inductive, LocksOwned
<1>9. HeadPresent'
  BY <1>2, <1>4 DEF HeadPresent
<1>10. GotStillQueued'
  <2>1. Reading' = Reading
    BY <1>1 DEF Reading
  <2>2. ASSUME Reading
        PROVE  ptr \in 1..Len(items) /\ ptr' = ptr + 1 /\ items'[ptr'] = items[ptr]
               /\ ptr' \in 1..Len(items')
    BY <1>2, <1>4, <1>6, <2>2 DEF Inductive, GotStillQueued
  <2>3. got' = got
    BY DEF InsertItem
  <2> QED
    BY <1>1, <2>1, <2>2, <2>3 DEF Inductive, GotStillQueued, Reading
<1>11. StaleOnlyPastCapacity' /\ (stale' => pc'[Consumer] = "copy")
  <2>1. stale' => stale \/ (pc[Consumer] = "copy" /\ capacity' # capacity)
    BY <1>3 DEF InsertItem, Reallocates
  <2>2. stale => Len(items) > MinCapacity /\ pc[Consumer] = "copy"
    BY DEF Inductive, StaleOnlyPastCapacity
  <2>3. capacity' # capacity => Len(items) >= MinCapacity
    BY <1>5 DEF Inductive, TypeOK
  <2>4. stale' => Len(items') > MinCapacity
    BY <1>2, <1>4, <2>1, <2>2, <2>3, BoundsAssumption
  <2> QED
    BY <1>1, <2>1, <2>2, <2>4 DEF StaleOnlyPastCapacity
<1>12. \A i \in 1..Len(items') : items'[i] <= inserted'
  <2>1. SUFFICES ASSUME NEW i \in 1..Len(items')
                 PROVE  items'[i] <= inserted'
    OBVIOUS
  <2>2. CASE i = 1
    BY <1>2, <1>4, <2>2
  <2>3. CASE i # 1
    <3>1. i \in 2..(Len(items) + 1) /\ i - 1 \in 1..Len(items)
      BY <1>2, <1>4, <2>3
    <3>2. items'[i] = items[i - 1] /\ items[i - 1] <= inserted
      BY <1>4, <3>1 DEF Inductive
    <3>3. items[i - 1] \in Message
      BY <1>2, <3>1
    <3>4. items[i - 1] \in Nat
      BY <3>3 DEF Message
    <3> QED
      BY <1>2, <3>2, <3>4
  <2> QED
    BY <2>2, <2>3
<1>13. NewestFirst'
  <2>1. SUFFICES ASSUME NEW i \in 1..Len(items'), NEW j \in 1..Len(items'), i < j
                 PROVE  items'[i] > items'[j]
    BY DEF NewestFirst
  <2>2. j \in 2..(Len(items) + 1) /\ j - 1 \in 1..Len(items) /\ items'[j] = items[j - 1]
    BY <1>2, <1>4, <2>1
  <2>3. CASE i = 1
    <3>1. items[j - 1] <= inserted /\ items[j - 1] \in Nat
      BY <1>2, <2>2 DEF Inductive, Message
    <3> QED
      BY <1>2, <1>4, <2>2, <2>3, <3>1
  <2>4. CASE i # 1
    <3>1. i \in 2..(Len(items) + 1) /\ i - 1 \in 1..Len(items) /\ i - 1 < j - 1
      BY <1>2, <1>4, <2>1, <2>4
    <3> QED
      BY <1>4, <2>2, <3>1 DEF Inductive, NewestFirst
  <2> QED
    BY <2>3, <2>4
<1>14. CapacitySettled'
  BY <1>4, <1>5 DEF CapacitySettled
<1>15. LostToOlder'
  <2>1. handled' = handled
    BY DEF InsertItem
  <2>2. \A m : Occurs(m, items) => Occurs(m, items')
    <3>1. SUFFICES ASSUME NEW i \in 1..Len(items)
                   PROVE  i + 1 \in 1..Len(items') /\ items'[i + 1] = items[i]
      BY DEF Occurs
    <3> QED
      BY <1>2, <1>4
  <2>3. Occurs(inserted + 1, items')
    BY <1>2, <1>4 DEF Occurs
  <2>4. \A m : /\ Occurs(m, handled) => Occurs(m, handled')
               /\ Repeated(m, items, handled) => Repeated(m, items', handled')
    BY <2>1, <2>2 DEF Occurs, Repeated
  <2>5. \A m \in 1..inserted' : m = inserted + 1 \/ m \in 1..inserted
    BY <1>2
  <2> QED
    BY <2>2, <2>3, <2>4, <2>5 DEF Inductive, LostToOlder
<1> QED
  BY <1>7, <1>8, <1>9, <1>10, <1>11, <1>12, <1>13, <1>14, <1>15 DEF Inductive

\* delete_head: the first element goes, whether or not it is the one that was
\* copied, and everything else moves forward.
LEMMA DeleteHeadInductive ==
    ASSUME Inductive, DeleteHead
    PROVE  Inductive'
<1>1. /\ pc' \in [Threads -> ConsumerPcs \cup ProducerPcs]
      /\ pc[Consumer] = "delete" /\ pc'[Consumer] = "check"
      /\ \A q \in Producers : pc'[q] = pc[q]
  BY ThreadsAssumption DEF Inductive, TypeOK, DeleteHead, Threads, ConsumerPcs, ProducerPcs
<1>2. items # << >> /\ items \in Seq(Message)
  BY <1>1 DEF Inductive, TypeOK, HeadPresent
<1>3. items' = L!Removed(1) /\ capacity' = L!ResizedFor(Len(items) - 1)
  BY DEF DeleteHead, L!DeleteAt
<1>4. /\ Len(items) \in Nat \ {0}
      /\ items' \in Seq(Message) /\ Len(items') = Len(items) - 1
      /\ \A i \in 1..(Len(items) - 1) : items'[i] = items[i + 1]
  BY <1>2, <1>3, RemovedHead
<1>5. /\ capacity' \in Nat /\ capacity' >= MinCapacity
      /\ Len(items) - 1 <= capacity'
      /\ ~(Len(items) - 1 < capacity' \div 4 /\ capacity' \div 2 >= MinCapacity)
  BY <1>3, <1>4, CapacityAfterDelete DEF Inductive, TypeOK, CapacitySettled
<1>6. /\ handled' = Append(handled, got) /\ handled \in Seq(Message \cup {Garbage})
      /\ handled' \in Seq(Message \cup {Garbage}) /\ Len(handled') = Len(handled) + 1
      /\ Len(handled) \in Nat
  BY DEF DeleteHead, Inductive, TypeOK
<1>7. stale = FALSE /\ stale' = FALSE /\ ptr' = 0 /\ inserted' = inserted /\ inserted \in Nat
  BY <1>1 DEF DeleteHead, Inductive, TypeOK
<1>8. TypeOK'
  <2>1. ptr' \in Nat /\ stale' \in BOOLEAN /\ pc'[Consumer] \in ConsumerPcs
    BY <1>1, <1>7 DEF ConsumerPcs
  <2> QED
    BY <1>1, <1>4, <1>5, <1>6, <2>1 DEF Inductive, TypeOK, DeleteHead
<1>9. LocksOwned'
  BY <1>1 DEF Inductive, LocksOwned, DeleteHead
<1>10. HeadPresent' /\ GotStillQueued' /\ StaleOnlyPastCapacity' /\ (stale' => pc'[Consumer] = "copy")
  BY <1>1, <1>7 DEF HeadPresent, GotStillQueued, StaleOnlyPastCapacity, Reading
<1>11. CapacitySettled'
  BY <1>4, <1>5 DEF CapacitySettled
<1>12. LostToOlder'
  <2> DEFINE h == items[1]
  <2>1. /\ \A m : Occurs(m, items) => m = h \/ Occurs(m, items')
        /\ \A m \in Message : Occurs(m, items) /\ m # h => Occurs(m, items')
    <3>1. SUFFICES ASSUME NEW i \in 1..Len(items), i # 1
                   PROVE  i - 1 \in 1..Len(items') /\ items'[i - 1] = items[i]
      BY DEF Occurs
    <3> QED
      BY <1>4, <3>1
  <2>2. /\ \A m : Occurs(m, handled) => Occurs(m, handled')
        /\ Occurs(got, handled')
        /\ \A m : Repeated(m, items, handled) /\ m # h => Repeated(m, items', handled')
        /\ got = h /\ Repeated(h, items, handled) => Repeated(h, items', handled')
    <3>1. /\ \A i \in 1..Len(handled) : i \in 1..Len(handled') /\ handled'[i] = handled[i]
          /\ Len(handled') \in 1..Len(handled') /\ handled'[Len(handled')] = got
          /\ Len(handled') \notin 1..Len(handled)
      BY <1>6
    <3> HIDE DEF h
    <3>2. /\ \A m : Occurs(m, handled) => Occurs(m, handled')
          /\ Occurs(got, handled')
      BY <3>1 DEF Occurs
    <3>3. ASSUME NEW m, Repeated(m, items, handled), m # h
          PROVE  Repeated(m, items', handled')
      BY <2>1, <3>1, <3>2, <3>3 DEF Repeated
    <3>4. ASSUME Repeated(h, items, handled), got = h
          PROVE  Repeated(h, items', handled')
      <4>1. PICK i \in 1..Len(handled) : handled[i] = h
        BY <3>4 DEF Repeated, Occurs
      <4>2. i # Len(handled') /\ handled'[i] = h /\ handled'[Len(handled')] = h
        BY <3>1, <3>4, <4>1
      <4> QED
        BY <3>1, <3>2, <3>4, <4>1, <4>2 DEF Repeated
    <3> QED
      BY <3>2, <3>3, <3>4
  <2>3. h \in Message /\ h \in Nat /\ 1 \in 1..Len(items)
    BY <1>2, <1>4, BoundsAssumption DEF Message
  <2>4. got # Garbage => got = h \/ (got \in 1..(h - 1) /\ Repeated(got, items', handled'))
    <3>1. SUFFICES ASSUME got # Garbage, got # h
                   PROVE  got \in 1..(h - 1) /\ Repeated(got, items', handled')
      OBVIOUS
    <3>2. ptr \in 1..Len(items) /\ items[ptr] = got
      BY <1>1, <3>1 DEF Inductive, GotStillQueued, Reading
    <3>3. 1 < ptr /\ got \in 1..MaxInserts
      <4>1. got \in Message
        BY <1>2, <3>2
      <4>2. ptr # 1
        BY <3>1, <3>2
      <4> QED
        BY <1>4, <3>2, <4>1, <4>2 DEF Message
    <3>4. h > got
      BY <2>3, <3>2, <3>3 DEF Inductive, NewestFirst
    <3>5. got \in 1..(h - 1)
      BY <2>3, <3>3, <3>4, BoundsAssumption
    <3>6. Occurs(got, items')
      BY <2>1, <3>1, <3>2 DEF Occurs
    <3> HIDE DEF h
    <3> QED
      BY <2>2, <3>5, <3>6 DEF Repeated
  <2> HIDE DEF h
  <2>5. SUFFICES ASSUME NEW m \in 1..inserted, ~Occurs(Garbage, handled')
                 PROVE  \/ Occurs(m, items') \/ Occurs(m, handled')
                        \/ \E q \in 1..(m - 1) : Repeated(q, items', handled')
    BY <1>7 DEF LostToOlder
  <2>6. got # Garbage /\ ~Occurs(Garbage, handled)
    BY <2>2, <2>5
  <2>7. CASE Occurs(m, items)
    <3>1. CASE m # h
      BY <2>1, <2>7, <3>1
    <3>2. CASE m = h
      BY <2>2, <2>4, <2>6, <3>2
    <3> QED
      BY <3>1, <3>2
  <2>8. CASE \E q \in 1..(m - 1) : Repeated(q, items, handled)
    <3>1. PICK q \in 1..(m - 1) : Repeated(q, items, handled)
      BY <2>8
    <3>2. CASE q # h \/ got = h
      BY <2>2, <3>1, <3>2
    <3>3. CASE q = h /\ got # h
      <4>1. got \in 1..(h - 1) /\ Repeated(got, items', handled')
        BY <2>4, <2>6, <3>3
      <4>2. got \in 1..(m - 1)
        BY <1>7, <2>3, <3>1, <3>3, <4>1
      <4> QED
        BY <4>1, <4>2
    <3> QED
      BY <3>2, <3>3
  <2> QED
    BY <2>2, <2>6, <2>7, <2>8 DEF Inductive, LostToOlder
<1>13. NewestFirst'
  <2>1. SUFFICES ASSUME NEW i \in 1..Len(items'), NEW j \in 1..Len(items'), i < j
                 PROVE  items'[i] > items'[j]
    BY DEF NewestFirst
  <2>2. i + 1 \in 1..Len(items) /\ j + 1 \in 1..Len(items) /\ i + 1 < j + 1
        /\ i \in 1..(Len(items) - 1) /\ j \in 1..(Len(items) - 1)
    BY <1>4, <2>1
  <2> QED
    BY <1>4, <2>2 DEF Inductive, NewestFirst
<1>14. \A i \in 1..Len(items') : items'[i] <= inserted'
  <2>1. SUFFICES ASSUME NEW i \in 1..Len(items')
                 PROVE  items'[i] <= inserted'
    OBVIOUS
  <2>2. i + 1 \in 1..Len(items) /\ i \in 1..(Len(items) - 1)
    BY <1>4, <2>1
  <2> QED
    BY <1>4, <1>7, <2>2 DEF Inductive
<1> QED
  BY <1>8, <1>9, <1>10, <1>11, <1>12, <1>13, <1>14 DEF Inductive

LEMMA NextInductive == Inductive /\ [Next]_vars => Inductive'
<1> SUFFICES ASSUME Inductive, [Next]_vars
             PROVE  Inductive'
  OBVIOUS
<1>1. ASSUME NEW p \in Producers, InsertItem(p)
      PROVE  Inductive'
  BY <1>1, InsertItemInductive
<1>2. ASSUME NEW p \in Producers, ProducerStep(p)
      PROVE  Inductive'
  BY <1>2, LockToNotifyInductive, NotifyInductive DEF ProducerStep
<1>3. CASE CheckEmpty \/ LockToWait \/ Sleep \/ SpuriousWake \/ Rewake
  BY <1>3, WaitInductive
<1>4. CASE GetHead
  BY <1>4, GetHeadInductive
<1>5. CASE CopyData
  BY <1>5, CopyDataInductive
<1>6. CASE DeleteHead
  BY <1>6, DeleteHeadInductive
<1>7. CASE UNCHANGED vars
  <2>1. UNCHANGED << items, capacity, mxList, mxUpdate, pc, ptr, stale, got, inserted,
                     handled, spurious >>
    BY <1>7 DEF vars
  <2>2. TypeOK' /\ LocksOwned' /\ HeadPresent' /\ GotStillQueued' /\ StaleOnlyPastCapacity'
        /\ (stale' => pc'[Consumer] = "copy")
    BY <2>1 DEF Inductive, TypeOK, LocksOwned, HeadPresent, GotStillQueued,
                StaleOnlyPastCapacity, Reading
  <2> QED
    BY <2>1, <2>2, ListUntouched DEF Inductive
<1> QED
  BY <1>1, <1>2, <1>3, <1>4, <1>5, <1>6, <1>7 DEF Next, ConsumerStep

-----------------------------------------------------------------------------
(* The theorems about ts_list.                                             *)

\* The inductive invariant holds in every state that insert_head, wait,
\* get_head and delete_head can reach.
THEOREM InductiveInvariant == Spec => []Inductive
BY InitInductive, NextInductive, PTL DEF Spec

\* Every variable of ts_list keeps its type, and the list never has fewer
\* nodes than its constructor asked for.
THEOREM TypeCorrect == Spec => []TypeOK
<1>1. Inductive => TypeOK
  BY DEF Inductive
<1> QED
  BY <1>1, InductiveInvariant, PTL

\* Mutual exclusion: mx_list and mx_update belong to exactly the thread that
\* is between their lock and their unlock.
THEOREM MutualExclusion == Spec => []LocksOwned
<1>1. Inductive => LocksOwned
  BY DEF Inductive
<1> QED
  BY <1>1, InductiveInvariant, PTL

\* What wait() saw is still true when get_head and delete_head run, although
\* every lock was released in between: the reader never reads an empty list,
\* and the node it reads stays in the list until it deletes the head.
THEOREM ReaderIsSafe == Spec => [](HeadPresent /\ GotStillQueued)
<1>1. Inductive => HeadPresent /\ GotStillQueued
  BY DEF Inductive
<1> QED
  BY <1>1, InductiveInvariant, PTL

\* The pointer of get_head dangles only behind a backlog longer than the
\* num_elem of the constructor.
THEOREM TornOnlyPastCapacity == Spec => []StaleOnlyPastCapacity
<1>1. Inductive => StaleOnlyPastCapacity
  BY DEF Inductive
<1> QED
  BY <1>1, InductiveInvariant, PTL

\* The list is a stack, and what the gap between get_head and delete_head loses
\* is lost to older messages that are handled twice.
THEOREM StackOfMessages == Spec => [](LostToOlder /\ NewestFirst)
<1>1. Inductive => LostToOlder /\ NewestFirst
  BY DEF Inductive
<1> QED
  BY <1>1, InductiveInvariant, PTL

-----------------------------------------------------------------------------
(* Refinement.  The reader's phase is "got" from get_head to delete_head,  *)
(* and until it has copied the data the abstract copy is what its pointer  *)
(* points to.                                                              *)

\* Insertion on the head is concatenation.
LEMMA InsertedIsConcatenation ==
    ASSUME items \in Seq(Message), NEW d \in Message
    PROVE  L!Inserted(1, d) = << d >> \o items
<1>1. /\ L!Inserted(1, d) \in Seq(Message)
      /\ Len(L!Inserted(1, d)) = Len(items) + 1
      /\ L!Inserted(1, d)[1] = d
      /\ \A i \in 2..(Len(items) + 1) : L!Inserted(1, d)[i] = items[i - 1]
  BY InsertedAtHead
<1>2. << d >> \o items \in Seq(Message) /\ Len(<< d >> \o items) = Len(items) + 1
  OBVIOUS
<1>3. \A i \in 1..(Len(items) + 1) : L!Inserted(1, d)[i] = (<< d >> \o items)[i]
  BY <1>1
<1> QED
  BY <1>1, <1>2, <1>3

\* insert_head is the writer's Put, also while the reader holds a pointer.
LEMMA InsertItemPuts ==
    ASSUME Inductive, NEW p \in Producers, InsertItem(p)
    PROVE  Mbx!Put(inserted + 1) /\ inserted + 1 \in Message
<1>1. items \in Seq(Message) /\ inserted + 1 \in Message
  BY BoundsAssumption DEF Inductive, TypeOK, InsertItem, Message
<1>2. items' = << inserted + 1 >> \o items
  BY <1>1, InsertedIsConcatenation DEF InsertItem, InsertPosition, L!InsertAt
<1>3. pc'[Consumer] = pc[Consumer]
  BY ThreadsAssumption DEF Inductive, TypeOK, InsertItem, Threads
<1>4. ASSUME pc[Consumer] = "copy"
      PROVE  items'[ptr'] = items[ptr]
  <2>1. ptr \in 1..Len(items) /\ ptr' = ptr + 1
    BY <1>4 DEF Inductive, GotStillQueued, Reading, InsertItem
  <2>2. items' = L!Inserted(1, inserted + 1)
    BY DEF InsertItem, InsertPosition, L!InsertAt
  <2> QED
    BY <1>1, <2>1, <2>2, InsertedAtHead
<1>5. got' = got
  BY DEF InsertItem
<1> QED
  BY <1>1, <1>2, <1>3, <1>4, <1>5 DEF Mbx!Put, Reading

\* get_head is the reader's Peek.
LEMMA GetHeadPeeks ==
    ASSUME Inductive, GetHead
    PROVE  Mbx!Peek
<1>1. items' = items /\ items # << >> /\ ptr' = 1
  BY DEF Inductive, HeadPresent, GetHead
<1>2. pc[Consumer] = "get" /\ pc'[Consumer] = "copy"
  BY DEF Inductive, TypeOK, GetHead, Threads
<1> QED
  BY <1>1, <1>2 DEF Mbx!Peek, Reading

\* Copying the data changes nothing the abstract reader sees, unless the copy
\* is torn, which needs a backlog.
LEMMA CopyDataTears ==
    ASSUME Inductive, CopyData
    PROVE  Mbx!Tear \/ UNCHANGED Mbx!vars
<1>1. items' = items
  BY DEF CopyData
<1>2. pc[Consumer] = "copy" /\ pc'[Consumer] = "delete"
  BY DEF Inductive, TypeOK, CopyData, Threads
<1>3. got' = items[ptr] \/ (stale /\ got' = Garbage)
  BY DEF CopyData
<1>4. stale => Len(items) > MinCapacity
  BY DEF Inductive, StaleOnlyPastCapacity
<1> QED
  BY <1>1, <1>2, <1>3, <1>4 DEF Mbx!Tear, Mbx!vars, Reading

\* delete_head is the reader's Drop.
LEMMA DeleteHeadDrops ==
    ASSUME Inductive, DeleteHead
    PROVE  Mbx!Drop
<1>1. pc[Consumer] = "delete" /\ pc'[Consumer] = "check" /\ got' = got
  BY DEF Inductive, TypeOK, DeleteHead, Threads
<1>2. items # << >> /\ items \in Seq(Message)
  BY <1>1 DEF Inductive, TypeOK, HeadPresent
<1>3. items' = Tail(items)
  BY <1>2, RemovedHead DEF DeleteHead, L!DeleteAt
<1> QED
  BY <1>1, <1>2, <1>3 DEF Mbx!Drop, Reading

\* The locks and the condition variable are invisible to the abstract mailbox.
LEMMA OthersStutter ==
    ASSUME Inductive,
           \/ \E p \in Producers : ProducerStep(p)
           \/ CheckEmpty \/ LockToWait \/ Sleep \/ SpuriousWake \/ Rewake
           \/ UNCHANGED vars
    PROVE  UNCHANGED Mbx!vars
<1>1. UNCHANGED << items, ptr, got >>
  BY DEF ProducerStep, LockToNotify, Notify, CheckEmpty, LockToWait, Sleep, SpuriousWake,
         Rewake, vars
<1>2. pc \in [Threads -> ConsumerPcs \cup ProducerPcs]
      /\ Consumer \in Threads /\ Consumer \notin Producers
  BY ThreadsAssumption DEF Inductive, TypeOK, Threads
<1>3. /\ (pc'[Consumer] = "copy") <=> (pc[Consumer] = "copy")
      /\ (pc'[Consumer] = "delete") <=> (pc[Consumer] = "delete")
  <2>1. CASE \E p \in Producers : LockToNotify(p)
    BY <1>2, <2>1 DEF LockToNotify
  <2>2. CASE \E p \in Producers : Notify(p)
    <3>1. PICK p \in Producers : Notify(p)
      BY <2>2
    <3>2. pc' = [pc EXCEPT ![p] = "idle",
                           ![Consumer] = IF pc[Consumer] = "asleep" THEN "woken"
                                         ELSE pc[Consumer]]
      BY <1>2, <3>1 DEF Notify, Threads
    <3> QED
      BY <1>2, <3>2
  <2>3. CASE CheckEmpty \/ LockToWait \/ Sleep \/ SpuriousWake \/ Rewake
    BY <1>2, <2>3 DEF CheckEmpty, LockToWait, Sleep, SpuriousWake, Rewake
  <2>4. CASE UNCHANGED vars
    BY <2>4 DEF vars
  <2> QED
    BY <2>1, <2>2, <2>3, <2>4 DEF ProducerStep
<1> QED
  BY <1>1, <1>3 DEF Mbx!vars, Reading

\* ts_list, with its two locks, its condition variable and its reallocations,
\* implements the mailbox from which the server's threads are built.
THEOREM RefinesMailbox == Spec => ImplementsMailbox
<1>1. Init => Mbx!Init
  <2>1. SUFFICES ASSUME Init PROVE Mbx!Init
    OBVIOUS
  <2>2. items = << >> /\ got = Garbage /\ pc[Consumer] = "check"
    BY <2>1 DEF Init, L!ListInit, Threads
  <2> QED
    BY <2>2 DEF Mbx!Init, Reading
<1>2. Inductive /\ [Next]_vars => [Mbx!Next]_(Mbx!vars)
  <2>1. SUFFICES ASSUME Inductive, [Next]_vars
                 PROVE  Mbx!Next \/ UNCHANGED Mbx!vars
    OBVIOUS
  <2>2. ASSUME NEW p \in Producers, InsertItem(p)
        PROVE  Mbx!Next
    BY <2>1, <2>2, InsertItemPuts DEF Mbx!Next
  <2>3. CASE GetHead
    BY <2>1, <2>3, GetHeadPeeks DEF Mbx!Next
  <2>4. CASE CopyData
    BY <2>1, <2>4, CopyDataTears DEF Mbx!Next
  <2>5. CASE DeleteHead
    BY <2>1, <2>5, DeleteHeadDrops DEF Mbx!Next
  <2>6. CASE \/ \E p \in Producers : ProducerStep(p)
             \/ CheckEmpty \/ LockToWait \/ Sleep \/ SpuriousWake \/ Rewake
             \/ UNCHANGED vars
    BY <2>1, <2>6, OthersStutter
  <2> QED
    BY <2>1, <2>2, <2>3, <2>4, <2>5, <2>6 DEF Next, ConsumerStep
<1> QED
  BY <1>1, <1>2, InductiveInvariant, PTL DEF Spec, Mbx!Spec, ImplementsMailbox
=============================================================================
