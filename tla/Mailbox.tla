------------------------------ MODULE Mailbox -------------------------------
(***************************************************************************)
(* What a ts_list gives the one thread that reads it, with locks and       *)
(* condition variable abstracted away: writers put messages on the head,   *)
(* the reader takes a copy of the head and removes the head in two         *)
(* separate steps.  A writer may put a message between the two, and then   *)
(* the removed message is not the copied one.  TsList.tla is shown to      *)
(* implement this; Server.tla is built from two such mailboxes.            *)
(***************************************************************************)
EXTENDS Naturals, Sequences

CONSTANTS Message,
          Garbage,      \* contents of a buffer that was given back to malloc
          SafeBacklog   \* a copy can tear only behind this many messages

VARIABLES items,        \* head of the list first
          phase,        \* "idle", or "got" between the copy and the removal
          got           \* the reader's copy

vars == << items, phase, got >>

Init ==
    /\ items = << >>
    /\ phase = "idle"
    /\ got = Garbage

Put(m) ==
    /\ items' = << m >> \o items
    /\ UNCHANGED << phase, got >>

Peek ==
    /\ phase = "idle"
    /\ items # << >>
    /\ phase' = "got"
    /\ got' = items[1]
    /\ UNCHANGED items

\* A writer's realloc moved the nodes before the reader had copied the data.
Tear ==
    /\ phase = "got"
    /\ Len(items) > SafeBacklog
    /\ got' = Garbage
    /\ UNCHANGED << items, phase >>

Drop ==
    /\ phase = "got"
    /\ items # << >>
    /\ items' = Tail(items)
    /\ phase' = "idle"
    /\ UNCHANGED got

Next == (\E m \in Message : Put(m)) \/ Peek \/ Tear \/ Drop

Spec == Init /\ [][Next]_vars
=============================================================================
