------------------------------- MODULE TsList -------------------------------
(***************************************************************************)
(* ts_list (inc/threads_safe.h): a my_list behind the mutex mx_list, and a *)
(* condition variable with its mutex mx_update for the one thread that     *)
(* reads the list.  Producers call insert_head.  The Consumer runs the     *)
(* loop that start_interface, run_sender and start_client_interface share: *)
(*                                                                         *)
(*     list->wait();  msg = list->get_head()->data;  list->delete_head();  *)
(*                                                                         *)
(* A critical section that changes nothing other threads can see before it *)
(* ends is one step.  The copy of ->data is a step of its own because it   *)
(* happens after get_head has released mx_list.                            *)
(*                                                                         *)
(* Messages are numbered in the order in which they enter the list.        *)
(***************************************************************************)
EXTENDS Naturals, Sequences

CONSTANTS Producers,    \* threads that call insert_head
          Consumer,     \* the thread that reads the list
          NoOwner,      \* the owner of a free mutex
          MinCapacity,  \* the num_elem of the constructor
          MaxInserts,   \* bound: messages ever inserted
          MaxSpurious   \* bound: spurious wake-ups of update.wait

VARIABLES items,        \* the list, head first
          capacity,     \* its number of nodes
          mxList,       \* owner of mx_list
          mxUpdate,     \* owner of mx_update
          pc,           \* where each thread is
          ptr,          \* position of the node get_head returned
          stale,        \* that node's buffer was reallocated since
          got,          \* the consumer's copy of the message
          inserted,     \* how many messages have entered the list
          handled,      \* what the consumer has taken out, in order
          spurious      \* how many spurious wake-ups there were

vars == << items, capacity, mxList, mxUpdate, pc, ptr, stale, got, inserted,
           handled, spurious >>

Threads == Producers \cup {Consumer}

ASSUME ThreadsAssumption ==
    /\ Consumer \notin Producers
    /\ NoOwner \notin Producers \cup {Consumer}

ASSUME BoundsAssumption ==
    /\ MinCapacity \in Nat \ {0}
    /\ MaxInserts \in Nat
    /\ MaxSpurious \in Nat

Message == 1..MaxInserts
Garbage == 0            \* contents of a buffer that realloc gave back

L == INSTANCE ListSpec WITH Data <- Message

Init ==
    /\ L!ListInit
    /\ mxList = NoOwner
    /\ mxUpdate = NoOwner
    /\ pc = [t \in Threads |-> IF t = Consumer THEN "check" ELSE "idle"]
    /\ ptr = 0
    /\ stale = FALSE
    /\ got = Garbage
    /\ inserted = 0
    /\ handled = << >>
    /\ spurious = 0

-----------------------------------------------------------------------------
(* insert_head                                                             *)

\* Mutant: the item goes to the tail.
TailPosition == Len(items) + 1

CanLock(mutex) == mutex = NoOwner

\* The position ListInsertHead gives a new element.
InsertPosition == 1

\* Between get_head and delete_head the consumer relies on the node.
Reading == pc[Consumer] \in {"copy", "delete"}

\* The consumer still has to follow its pointer, and the insertion grows the
\* buffer the pointer points into.
Reallocates == pc[Consumer] = "copy" /\ L!ResizedFor(Len(items)) # capacity

\* Locks mx_list and calls ListInsertHead; mx_list stays locked.
InsertItem(p) ==
    /\ pc[p] = "idle"
    /\ inserted < MaxInserts
    /\ CanLock(mxList)
    /\ mxList' = p
    /\ L!InsertAt(InsertPosition, inserted + 1)
    /\ inserted' = inserted + 1
    /\ ptr' = IF Reading THEN ptr + 1 ELSE ptr
    /\ stale' = (stale \/ Reallocates)
    /\ pc' = [pc EXCEPT ![p] = "update"]
    /\ UNCHANGED << mxUpdate, got, handled, spurious >>

\* The unique_lock on mx_update.
LockToNotify(p) ==
    /\ pc[p] = "update"
    /\ CanLock(mxUpdate)
    /\ mxUpdate' = p
    /\ pc' = [pc EXCEPT ![p] = "notify"]
    /\ UNCHANGED << items, capacity, mxList, ptr, stale, got, inserted, handled,
                    spurious >>

\* Mutants: nobody is notified; mx_list is not released.
NotifyNobody(p) ==
    /\ pc[p] = "notify"
    /\ mxList' = NoOwner
    /\ mxUpdate' = NoOwner
    /\ pc' = [pc EXCEPT ![p] = "idle"]
    /\ UNCHANGED << items, capacity, ptr, stale, got, inserted, handled, spurious >>

NotifyKeepingLock(p) ==
    /\ pc[p] = "notify"
    /\ mxUpdate' = NoOwner
    /\ pc' = [pc EXCEPT ![p] = "idle",
                        ![Consumer] = IF @ = "asleep" THEN "woken" ELSE @]
    /\ UNCHANGED << items, capacity, mxList, ptr, stale, got, inserted, handled,
                    spurious >>

\* notify_one, then both locks are released on return.
Notify(p) ==
    /\ pc[p] = "notify"
    /\ mxList' = NoOwner
    /\ mxUpdate' = NoOwner
    /\ pc' = [pc EXCEPT ![p] = "idle",
                        ![Consumer] = IF @ = "asleep" THEN "woken" ELSE @]
    /\ UNCHANGED << items, capacity, ptr, stale, got, inserted, handled, spurious >>

-----------------------------------------------------------------------------
(* wait                                                                    *)

\* while (empty()): the emptiness is read under mx_list, which is released
\* before mx_update is locked.
CheckEmpty ==
    /\ pc[Consumer] = "check"
    /\ CanLock(mxList)
    /\ pc' = [pc EXCEPT ![Consumer] = IF items = << >> THEN "lock" ELSE "get"]
    /\ UNCHANGED << items, capacity, mxList, mxUpdate, ptr, stale, got, inserted,
                    handled, spurious >>

LockToWait ==
    /\ pc[Consumer] = "lock"
    /\ CanLock(mxUpdate)
    /\ mxUpdate' = Consumer
    /\ pc' = [pc EXCEPT ![Consumer] = "wait"]
    /\ UNCHANGED << items, capacity, mxList, ptr, stale, got, inserted, handled,
                    spurious >>

\* Mutant: mx_update stays locked.
SleepKeepingLock ==
    /\ pc[Consumer] = "wait"
    /\ pc' = [pc EXCEPT ![Consumer] = "asleep"]
    /\ UNCHANGED << items, capacity, mxList, mxUpdate, ptr, stale, got, inserted,
                    handled, spurious >>

\* update.wait releases mx_update and sleeps in one step.
Sleep ==
    /\ pc[Consumer] = "wait"
    /\ mxUpdate' = NoOwner
    /\ pc' = [pc EXCEPT ![Consumer] = "asleep"]
    /\ UNCHANGED << items, capacity, mxList, ptr, stale, got, inserted, handled,
                    spurious >>

SpuriousWake ==
    /\ pc[Consumer] = "asleep"
    /\ spurious < MaxSpurious
    /\ spurious' = spurious + 1
    /\ pc' = [pc EXCEPT ![Consumer] = "woken"]
    /\ UNCHANGED << items, capacity, mxList, mxUpdate, ptr, stale, got, inserted,
                    handled >>

\* Mutant: if (empty()) in place of while (empty()).
RewakeWithoutCheck ==
    /\ pc[Consumer] = "woken"
    /\ CanLock(mxUpdate)
    /\ pc' = [pc EXCEPT ![Consumer] = "get"]
    /\ UNCHANGED << items, capacity, mxList, mxUpdate, ptr, stale, got, inserted,
                    handled, spurious >>

\* update.wait locks mx_update again and the unique_lock's scope ends.
Rewake ==
    /\ pc[Consumer] = "woken"
    /\ CanLock(mxUpdate)
    /\ pc' = [pc EXCEPT ![Consumer] = "check"]
    /\ UNCHANGED << items, capacity, mxList, mxUpdate, ptr, stale, got, inserted,
                    handled, spurious >>

-----------------------------------------------------------------------------
(* get_head()->data, delete_head                                           *)

GetHead ==
    /\ pc[Consumer] = "get"
    /\ CanLock(mxList)
    /\ ptr' = 1
    /\ stale' = FALSE
    /\ pc' = [pc EXCEPT ![Consumer] = "copy"]
    /\ UNCHANGED << items, capacity, mxList, mxUpdate, got, inserted, handled,
                    spurious >>

\* The copy holds no lock.  A reallocated buffer may or may not have moved.
CopyData ==
    /\ pc[Consumer] = "copy"
    /\ got' \in {items[ptr]} \cup (IF stale THEN {Garbage} ELSE {})
    /\ stale' = FALSE
    /\ pc' = [pc EXCEPT ![Consumer] = "delete"]
    /\ UNCHANGED << items, capacity, mxList, mxUpdate, ptr, inserted, handled,
                    spurious >>

\* Mutant: the element goes from the end at which ListInsert with position 0
\* would put it.
DeleteHeadAtTail ==
    /\ pc[Consumer] = "delete"
    /\ CanLock(mxList)
    /\ L!DeleteAt(Len(items))
    /\ handled' = Append(handled, got)
    /\ ptr' = 0
    /\ pc' = [pc EXCEPT ![Consumer] = "check"]
    /\ UNCHANGED << mxList, mxUpdate, stale, got, inserted, spurious >>

DeleteHead ==
    /\ pc[Consumer] = "delete"
    /\ CanLock(mxList)
    /\ L!DeleteAt(1)
    /\ handled' = Append(handled, got)
    /\ ptr' = 0
    /\ pc' = [pc EXCEPT ![Consumer] = "check"]
    /\ UNCHANGED << mxList, mxUpdate, stale, got, inserted, spurious >>

-----------------------------------------------------------------------------
ProducerStep(p) == LockToNotify(p) \/ Notify(p)

ConsumerStep ==
    \/ CheckEmpty \/ LockToWait \/ Sleep \/ Rewake
    \/ GetHead \/ CopyData \/ DeleteHead

Next ==
    \/ \E p \in Producers : InsertItem(p) \/ ProducerStep(p)
    \/ ConsumerStep
    \/ SpuriousWake

\* A thread that can run is scheduled.  Nobody has to insert, and no mutex
\* has to be fair.
Fairness ==
    /\ \A p \in Producers : WF_vars(ProducerStep(p))
    /\ WF_vars(ConsumerStep)

Spec == Init /\ [][Next]_vars

FairSpec == Spec /\ Fairness

-----------------------------------------------------------------------------
(* Safety                                                                  *)

ConsumerPcs == {"check", "lock", "wait", "asleep", "woken", "get", "copy", "delete"}
ProducerPcs == {"idle", "update", "notify"}

\* The variables have their types; the list is never given fewer nodes than
\* the constructor asked for.
TypeOK ==
    /\ items \in Seq(Message)
    /\ capacity \in Nat /\ capacity >= MinCapacity
    /\ mxList \in Producers \cup {NoOwner}
    /\ mxUpdate \in Threads \cup {NoOwner}
    /\ pc \in [Threads -> ConsumerPcs \cup ProducerPcs]
    /\ \A p \in Producers : pc[p] \in ProducerPcs
    /\ pc[Consumer] \in ConsumerPcs
    /\ ptr \in Nat
    /\ stale \in BOOLEAN
    /\ got \in Message \cup {Garbage}
    /\ inserted \in 0..MaxInserts
    /\ handled \in Seq(Message \cup {Garbage})
    /\ spurious \in 0..MaxSpurious

\* Each mutex is owned by exactly the thread that is inside its critical
\* section, so no two threads are inside the same one.
LocksOwned ==
    /\ \A p \in Producers : (pc[p] \in {"update", "notify"}) <=> (mxList = p)
    /\ \A p \in Producers : (pc[p] = "notify") <=> (mxUpdate = p)
    /\ (pc[Consumer] = "wait") <=> (mxUpdate = Consumer)

\* get_head and delete_head do not test for an empty list: they rely on what
\* wait() saw in an earlier critical section still being true.
HeadPresent == pc[Consumer] \in {"get", "copy", "delete"} => items # << >>

\* Whatever was inserted since, the message being handled is still in the
\* list until delete_head runs, and unless the copy was torn it is the one
\* the pointer was taken to.
GotStillQueued ==
    /\ Reading => ptr \in 1..Len(items)
    /\ pc[Consumer] = "delete" /\ got # Garbage => items[ptr] = got

\* get_head's pointer can dangle only in a list that has outgrown the
\* num_elem it was constructed with (10 for every list of the program).
StaleOnlyPastCapacity == stale => Len(items) > MinCapacity

Occurs(m, seq) == \E i \in 1..Len(seq) : seq[i] = m

\* m is among the messages done, and either queued again or done twice.
Repeated(m, queue, done) ==
    /\ Occurs(m, done)
    /\ \/ Occurs(m, queue)
       \/ \E i, j \in 1..Len(done) : i # j /\ done[i] = m /\ done[j] = m

\* delete_head may remove another message than get_head returned.  As long as no
\* copy was torn, a message that is lost in this way is paid for by an older one
\* that is handled twice, or will be at the head again; so the oldest is safe.
LostToOlder ==
    \A m \in 1..inserted :
        \/ Occurs(m, items) \/ Occurs(m, handled)
        \/ Occurs(Garbage, handled)
        \/ \E q \in 1..(m - 1) : Repeated(q, items, handled)

\* The list is a stack: the newest message is always the next one read.
NewestFirst == \A i, j \in 1..Len(items) : i < j => items[i] > items[j]

\* Between two critical sections of mx_list the list neither holds more
\* elements than nodes nor has nodes it should have given back.
CapacitySettled ==
    /\ Len(items) <= capacity
    /\ ~(Len(items) < capacity \div 4 /\ capacity \div 2 >= MinCapacity)

\* The inductive invariant behind the properties above (proved in
\* TsListProofs): what they need of one another, of the numbering of messages
\* and of the moments at which stale is set.
Inductive ==
    /\ TypeOK
    /\ LocksOwned
    /\ HeadPresent
    /\ GotStillQueued
    /\ StaleOnlyPastCapacity
    /\ LostToOlder
    /\ NewestFirst
    /\ CapacitySettled
    /\ \A i \in 1..Len(items) : items[i] <= inserted
    /\ stale => pc[Consumer] = "copy"

-----------------------------------------------------------------------------
(* Refinement                                                              *)

Mbx == INSTANCE Mailbox WITH
         SafeBacklog <- MinCapacity,
         phase <- IF Reading THEN "got" ELSE "idle",
         got   <- IF pc[Consumer] = "copy" THEN items[ptr] ELSE got

\* Locks and condition variable together give the reader the abstract
\* mailbox: messages arrive on the head, a copy and a removal that other
\* insertions may separate, and torn copies only behind a long backlog.
ImplementsMailbox == Mbx!Spec

-----------------------------------------------------------------------------
(* Liveness                                                                *)

\* No deadlock between mx_list and mx_update: insert_head always returns.
InsertCompletes == \A p \in Producers : pc[p] = "update" ~> pc[p] = "idle"

\* An insertion wakes a consumer that sleeps, and that consumer reads.
SleeperIsWoken ==
    (pc[Consumer] = "asleep" /\ \E p \in Producers : pc[p] # "idle")
        ~> pc[Consumer] = "delete"

\* A consumer that has still to test for emptiness finds the backlog.
BacklogServed ==
    (items # << >> /\ pc[Consumer] \in {"woken", "check", "get"})
        ~> pc[Consumer] = "delete"

-----------------------------------------------------------------------------
(* What the comments of the program say                                    *)

\* sender.cpp calls the reading sequence "thread safe": no message is
\* handled twice.
HandledOnce ==
    \A i, j \in 1..Len(handled) :
        handled[i] = handled[j] /\ handled[i] # Garbage => i = j

\* server.cpp: wait blocks "until smth will apear to read".  So messages do
\* not stay in the list for ever.
BacklogDrained == items # << >> ~> items = << >>
=============================================================================
