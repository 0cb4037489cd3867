------------------------------ MODULE ListSpec ------------------------------
(***************************************************************************)
(* What a my_list promises to its users: a sequence of data, position 1    *)
(* first, and a capacity that doubles when the list is full and halves     *)
(* when fewer than a quarter of the nodes are used.  List.tla, the array   *)
(* of linked nodes, is shown to implement this specification; TsList.tla   *)
(* uses it as the list that mx_list guards.                                *)
(***************************************************************************)
EXTENDS Naturals, Sequences

CONSTANTS Data,         \* the payloads
          MinCapacity   \* elem_num of ListInit, at least 1

VARIABLES items,        \* the payloads, position 1 first
          capacity      \* number of nodes, the HEAD not counted

\* Mutant: grows one element too early.
ResizedForEarly(n) == IF n + 1 >= capacity THEN 2 * capacity ELSE capacity

\* ListResize on a list that holds n elements.
ResizedFor(n) ==
    IF n = capacity THEN 2 * capacity
    ELSE IF n < capacity \div 4 /\ capacity \div 2 >= MinCapacity
         THEN capacity \div 2
         ELSE capacity

ListInit ==
    /\ items = << >>
    /\ capacity = MinCapacity

\* d becomes the element at position pos; what was there moves back.
Inserted(pos, d) ==
    [i \in 1..(Len(items) + 1) |->
        IF i < pos THEN items[i] ELSE IF i = pos THEN d ELSE items[i - 1]]

Removed(pos) ==
    [i \in 1..(Len(items) - 1) |-> IF i < pos THEN items[i] ELSE items[i + 1]]

\* ListInsert resizes before it inserts.
InsertAt(pos, d) ==
    /\ items' = Inserted(pos, d)
    /\ capacity' = ResizedFor(Len(items))

\* ListDelete resizes after it has removed the element.
DeleteAt(pos) ==
    /\ pos \in 1..Len(items)
    /\ items' = Removed(pos)
    /\ capacity' = ResizedFor(Len(items) - 1)

\* ListInsertIndex on a used node: the new datum takes the node's place and
\* the old one moves to the front.
Displace(pos, d) ==
    /\ pos \in 1..Len(items)
    /\ items' = << items[pos] >> \o [items EXCEPT ![pos] = d]
    /\ capacity' = ResizedFor(Len(items))

Next ==
    \/ \E d \in Data, pos \in 1..(Len(items) + 1) : InsertAt(pos, d)
    \/ \E d \in Data, pos \in 1..Len(items) : Displace(pos, d)
    \/ \E pos \in 1..Len(items) : DeleteAt(pos)

Spec == ListInit /\ [][Next]_<<items, capacity>>
=============================================================================
