-------------------------------- MODULE List --------------------------------
(***************************************************************************)
(* my_list (inc/list/src/list.cpp): an array of nodes 0..capacity in which *)
(* the used nodes form a doubly linked ring through node 0, the HEAD, and  *)
(* the unused ones a second ring that starts at free_head_id.  The list is *)
(* a record with one function per field of list_elem, and the helpers of   *)
(* the C code are operators from lists to lists.  A node's index field     *)
(* always equals its place in the array and is left out.  Allocation is    *)
(* taken to succeed.                                                       *)
(***************************************************************************)
EXTENDS Integers, Sequences, FiniteSets, SequencesExt

CONSTANTS Data,         \* payloads
          ZeroData,     \* ZERO_DATA
          MinCapacity,  \* elem_num of ListInit
          MaxSize,      \* bound: elements in the list
          PastEnd       \* bound: ListInsert gets positions up to size + PastEnd

ASSUME ListAssumption ==
    /\ MinCapacity \in Nat \ {0}
    /\ MaxSize \in Nat
    /\ PastEnd \in Nat

VARIABLES list,         \* the my_list
          ret           \* what the last operation returned

vars == << list, ret >>

HEAD_ID == 0
WRONG_POS == -1

ErrCodes == {"SUCCESS", "WRONG_POS", "WRONG_INDX", "HEAD_DELEATE", "HEAD_INSERT",
             "UNDEFINED"}       \* "UNDEFINED": a node outside the array was used

\* The places of an array that ends at c.
Places(c) == 0..c

Nodes(l) == Places(l.capacity)

-----------------------------------------------------------------------------
(* Links                                                                   *)

InsertRight(l, elem, pos) ==
    LET old == l.next[pos]
    IN  [l EXCEPT !.next[pos] = elem, !.prev[elem] = pos,
                  !.next[elem] = old, !.prev[old] = elem]

\* Mutant: the back link of the right neighbour is forgotten.
DeleteRightOneWay(l, elem) ==
    LET del == l.next[elem]
    IN  [l EXCEPT !.next[elem] = l.next[del], !.prev[del] = 0, !.next[del] = 0]

DeleteRight(l, elem) ==
    LET del == l.next[elem]
    IN  [l EXCEPT !.next[elem] = l.next[del], !.prev[l.next[del]] = elem,
                  !.prev[del] = 0, !.next[del] = 0]

InsertLeft(l, elem, pos) ==
    LET old == l.prev[pos]
    IN  [l EXCEPT !.prev[pos] = elem, !.next[elem] = pos,
                  !.prev[elem] = old, !.next[old] = elem]

\* DeleteIndex, and DeleteFreeHead, which moves free_head_id as well.
Unlink(l, elem) ==
    [l EXCEPT !.next[l.prev[elem]] = l.next[elem],
              !.prev[l.next[elem]] = l.prev[elem],
              !.next[elem] = 0, !.prev[elem] = 0]

-----------------------------------------------------------------------------
(* The free ring                                                           *)

OnlyHeadLeft(l) == l.next[l.free] = l.free

\* The node TakeFreeList returns, and the list it leaves.
FreeNode(l) == IF OnlyHeadLeft(l) THEN l.free ELSE l.next[l.free]

\* The last free node has been taken.
NoneFree(l, elem) == [l EXCEPT !.free = HEAD_ID, !.next[elem] = 0, !.prev[elem] = 0]

TakeFreeList(l) ==
    IF OnlyHeadLeft(l)
    THEN NoneFree(l, l.free)
    ELSE DeleteRight(l, l.free)

TakeFreeList_indx(l, elem) ==
    IF l.next[elem] = elem
    THEN NoneFree(l, elem)
    ELSE [Unlink(l, elem) EXCEPT !.free = IF elem = @ THEN l.next[elem] ELSE @]

InsertFreeList(l, elem) ==
    LET f == [l EXCEPT !.status[elem] = "FREE", !.data[elem] = ZeroData]
    IN  IF f.free = HEAD_ID
        THEN [f EXCEPT !.free = elem, !.next[elem] = elem, !.prev[elem] = elem]
        ELSE InsertLeft(f, elem, f.free)

\* An array that ends at last, whose nodes from first on ListInit, ResizeUp and
\* ResizeDown put into an empty free ring, one after the other.
FreeRingLoop(l, first, last) ==
    LET Resized(f) == [n \in 0..last |-> IF n < first THEN f[n] ELSE f[HEAD_ID]]
    IN  FoldLeft(InsertFreeList,
                 [l EXCEPT !.capacity = last, !.free = HEAD_ID,
                           !.status = Resized(@), !.data = Resized(@),
                           !.next = Resized(@), !.prev = Resized(@)],
                 [i \in 1..(last - first + 1) |-> first + i - 1])

\* What these loops compute (checked in MCList).
WithFreeRing(l, first, last) ==
    [l EXCEPT
       !.capacity = last,
       !.free = IF first <= last THEN first ELSE HEAD_ID,
       !.status = [n \in 0..last |-> IF n < first THEN l.status[n] ELSE "FREE"],
       !.data = [n \in 0..last |-> IF n < first THEN l.data[n] ELSE ZeroData],
       !.next = [n \in 0..last |-> IF n < first THEN l.next[n]
                                   ELSE IF n = last THEN first ELSE n + 1],
       !.prev = [n \in 0..last |-> IF n < first THEN l.prev[n]
                                   ELSE IF n = first THEN last ELSE n - 1]]

NewList(n) ==
    WithFreeRing([status |-> [i \in {HEAD_ID} |-> "MASTER"],
                  data   |-> [i \in {HEAD_ID} |-> ZeroData],
                  next   |-> [i \in {HEAD_ID} |-> HEAD_ID],
                  prev   |-> [i \in {HEAD_ID} |-> HEAD_ID],
                  free |-> HEAD_ID, size |-> 0, capacity |-> 0], 1, n)

-----------------------------------------------------------------------------
(* Order and size                                                          *)

\* Follows a link steps times.
Walk(link, from, steps) ==
    LET walk[i \in 0..steps] == IF i = 0 THEN from ELSE link[walk[i - 1]]
    IN  walk[steps]

NodeAt(l, pos) == Walk(l.next, HEAD_ID, pos)

GetElemIndex(l, pos) == IF pos > l.size THEN WRONG_POS ELSE NodeAt(l, pos)

Contents(l) == [pos \in 1..l.size |-> l.data[NodeAt(l, pos)]]

\* Mutant: the data are copied as they lie in the array.
MakeListGreatAgainUnsorted(l) ==
    LET last == l.size
        flat == [l EXCEPT
                   !.status = [n \in Nodes(l) |-> IF n = HEAD_ID THEN "MASTER" ELSE "ENGAGED"],
                   !.next = [n \in Nodes(l) |-> IF n < last THEN n + 1 ELSE HEAD_ID],
                   !.prev = [n \in Nodes(l) |-> IF n = HEAD_ID THEN last ELSE n - 1]]
    IN  WithFreeRing(flat, last + 1, l.capacity)

\* Linearised copy: element i in node i, in a buffer of the same capacity.
MakeListGreatAgain(l) ==
    LET last == l.size
        flat == [l EXCEPT
                   !.status = [n \in Nodes(l) |-> IF n = HEAD_ID THEN "MASTER" ELSE "ENGAGED"],
                   !.data = [n \in Nodes(l) |->
                               IF n \in 1..last THEN l.data[NodeAt(l, n)] ELSE ZeroData],
                   !.next = [n \in Nodes(l) |-> IF n < last THEN n + 1 ELSE HEAD_ID],
                   !.prev = [n \in Nodes(l) |-> IF n = HEAD_ID THEN last ELSE n - 1]]
    IN  WithFreeRing(flat, last + 1, l.capacity)

\* Mutant: the elements are put in order first, as ResizeDown needs it.
ResizeUpInOrder(l) ==
    WithFreeRing(MakeListGreatAgain(l), l.capacity + 1, 2 * l.capacity)

ResizeUp(l) == WithFreeRing(l, l.capacity + 1, 2 * l.capacity)

\* Elements must be in nodes 1..size.
ResizeDown(l) == WithFreeRing(l, l.size + 1, l.capacity \div 2)

\* Mutant: without the lower limit.
CheckDownUnbounded(l) == l.size < l.capacity \div 4 \/ l.size = 0

CheckDown(l) == l.size < l.capacity \div 4 /\ l.capacity \div 2 >= MinCapacity

ListResize(l) ==
    IF l.size = l.capacity THEN ResizeUp(l)
    ELSE IF CheckDown(l) THEN ResizeDown(MakeListGreatAgain(l))
    ELSE l

\* Node n has been taken from the free ring to hold d.
Engage(l, n, d) ==
    [l EXCEPT !.status[n] = "ENGAGED", !.data[n] = d, !.size = @ + 1]

-----------------------------------------------------------------------------
(* The operations of list.h                                                *)

Returns(code) == ret' = code

Init ==
    /\ list = NewList(MinCapacity)
    /\ ret = "SUCCESS"

\* Mutant: the element goes to the left of the HEAD, which is the tail.
ListInsertHeadLeft(d) ==
    /\ list.size < MaxSize
    /\ LET l == ListResize(list)
           n == FreeNode(l)
       IN  list' = InsertLeft(Engage(TakeFreeList(l), n, d), n, HEAD_ID)
    /\ Returns("SUCCESS")

ListInsertHead(d) ==
    /\ list.size < MaxSize
    /\ LET l == ListResize(list)
           n == FreeNode(l)
       IN  list' = InsertRight(Engage(TakeFreeList(l), n, d), n, HEAD_ID)
    /\ Returns("SUCCESS")

\* Position 0 stands for the tail.  GetElemIndex reports a position past the
\* end with WRONG_POS but ListInsert looks for WRONG_INDX.  By then the list has
\* been resized and the new element counted, and what lies before the array is
\* read for the node to link it to: any node, or none, in which case the links
\* go to memory outside the array, if the process survives.
ListInsert(pos, d) ==
    /\ list.size < MaxSize
    /\ LET l == ListResize(list)
           n == FreeNode(l)
           e == Engage(TakeFreeList(l), n, d)
           dest == GetElemIndex(e, pos)
       IN  IF dest = WRONG_POS
           THEN /\ Returns("UNDEFINED")
                /\ list' \in {e} \cup {InsertRight(e, n, rel) : rel \in Nodes(e)}
           ELSE Returns("SUCCESS") /\ list' = InsertRight(e, n, e.prev[dest])

\* Mutant: the array is never given back.
FreedWithoutResize(l, n) ==
    InsertFreeList([DeleteRight(l, l.prev[n]) EXCEPT !.size = @ - 1], n)

\* The used node n leaves its ring for the free one.
Freed(l, n) ==
    ListResize(InsertFreeList([DeleteRight(l, l.prev[n]) EXCEPT !.size = @ - 1], n))

ListDelete(pos) ==
    LET n == GetElemIndex(list, pos)
    IN  CASE n = WRONG_POS -> Returns("WRONG_POS") /\ UNCHANGED list
          [] n = HEAD_ID -> Returns("HEAD_DELEATE") /\ UNCHANGED list
          [] OTHER -> Returns("SUCCESS") /\ list' = Freed(list, n)

ListInsertIndex(index, d) ==
    /\ list.size < MaxSize
    /\ LET l == ListResize(list)
           n == FreeNode(l)
       IN  CASE index = HEAD_ID -> Returns("HEAD_INSERT") /\ UNCHANGED list
             [] index > list.capacity -> Returns("WRONG_INDX") /\ UNCHANGED list
             [] index \in 1..list.capacity /\ l.status[index] = "FREE" ->
                  /\ Returns("SUCCESS")
                  /\ list' = InsertLeft(Engage(TakeFreeList_indx(l, index), index, d),
                                        index, HEAD_ID)
             [] OTHER ->
                  /\ Returns("SUCCESS")
                  /\ list' = InsertRight(
                               Engage([TakeFreeList(l) EXCEPT !.data[index] = d],
                                      n, l.data[index]), n, HEAD_ID)

ListDeleteIndex(index) ==
    IF index > list.capacity \/ (index \in Nodes(list) /\ list.status[index] = "FREE")
    THEN Returns("WRONG_INDX") /\ UNCHANGED list
    ELSE IF index = HEAD_ID
         THEN Returns("HEAD_DELEATE") /\ UNCHANGED list
         ELSE Returns("SUCCESS") /\ list' = Freed(list, index)

-----------------------------------------------------------------------------
Defined == ret # "UNDEFINED"

Next ==
    /\ Defined
    /\ \/ \E d \in Data :
            \/ ListInsertHead(d)
            \/ \E pos \in 0..(list.size + PastEnd) : ListInsert(pos, d)
            \/ \E index \in 0..(list.capacity + 1) : ListInsertIndex(index, d)
       \/ \E pos \in 0..(list.size + 1) : ListDelete(pos)
       \/ \E index \in 0..(list.capacity + 1) : ListDeleteIndex(index)

Spec == Init /\ [][Next]_vars

-----------------------------------------------------------------------------
(* Properties                                                              *)

\* The list is an array with one of each field for every node, and it is never
\* smaller than ListInit made it.  Here and below, nothing is said of a list
\* after an insertion past its end.
TypeOK == ret \in ErrCodes /\ (Defined =>
    /\ list.capacity \in Nat /\ list.capacity >= MinCapacity
    /\ list.size \in 0..list.capacity
    /\ list.free \in Nodes(list)
    /\ list.status \in [Nodes(list) -> {"FREE", "ENGAGED", "MASTER"}]
    /\ list.data \in [Nodes(list) -> Data \cup {ZeroData}]
    /\ list.next \in [Nodes(list) -> Nodes(list)]
    /\ list.prev \in [Nodes(list) -> Nodes(list)])

\* The k nodes of r follow each other around a ring.
Ring(next, prev, r, k) ==
    /\ \A i, j \in 1..k : r[i] = r[j] => i = j
    /\ \A i \in 1..k : /\ next[r[i]] = r[IF i = k THEN 1 ELSE i + 1]
                      /\ prev[r[i]] = r[IF i = 1 THEN k ELSE i - 1]

\* Lists with nodes 0..c.
ListOf(c) ==
    [status : [Places(c) -> {"FREE", "ENGAGED", "MASTER"}],
     data : [Places(c) -> Data \cup {ZeroData}],
     next : [Places(c) -> Places(c)], prev : [Places(c) -> Places(c)],
     free : Places(c), size : 0..c, capacity : {c}]

\* status says which of the nodes 0..c are named by u, and which by f.
Covered(status, c, size, u, f) ==
    /\ status[HEAD_ID] = "MASTER"
    /\ \A i \in 2..(size + 1) : status[u[i]] = "ENGAGED"
    /\ \A i \in 1..(c - size) : status[f[i]] = "FREE"
    /\ \A n \in Places(c) \ {HEAD_ID} : \/ \E i \in 2..(size + 1) : u[i] = n
                                       \/ \E i \in 1..(c - size) : f[i] = n

\* Every node is the HEAD, or one of the used nodes that u names in the order of
\* the list, or one of the free nodes that f names in the order of their ring.
Shape(l, u, f) ==
    /\ l.capacity \in Nat /\ l \in ListOf(l.capacity)
    /\ u \in [1..(l.size + 1) -> Nodes(l)] /\ u[1] = HEAD_ID
    /\ f \in [1..(l.capacity - l.size) -> Nodes(l)]
    /\ l.free = IF l.size = l.capacity THEN HEAD_ID ELSE f[1]
    /\ Ring(l.next, l.prev, u, l.size + 1)
    /\ Ring(l.next, l.prev, f, l.capacity - l.size)
    /\ Covered(l.status, l.capacity, l.size, u, f)

UsedRing(l) == [i \in 1..(l.size + 1) |-> NodeAt(l, i - 1)]

FreeRing(l) == [i \in 1..(l.capacity - l.size) |-> Walk(l.next, l.free, i - 1)]

\* The links make two rings, of the used nodes and of the free ones.
Linked(l) == Shape(l, UsedRing(l), FreeRing(l))

\* Two rings, and no resizing is due that would make the array smaller.
ListSound ==
    /\ Linked(list)
    /\ list.capacity >= MinCapacity
    /\ ~CheckDown(list)

\* The inductive invariant.
ListInductive == ret \in ErrCodes /\ (Defined => ListSound)

\* However a list has grown, and whatever was deleted since, at least a quarter
\* of its nodes are in use when it has at least twice the nodes of ListInit:
\* the array is given back as it empties.
SpaceBounded ==
    Defined /\ list.capacity >= 2 * MinCapacity => list.capacity <= 4 * list.size + 3

\* next and prev are inverse everywhere, the HEAD's ring holds exactly the
\* size used nodes and the free ring exactly the others.
RingsIntact(l) ==
    /\ \A n \in Nodes(l) : l.prev[l.next[n]] = n /\ l.next[l.prev[n]] = n
    /\ {n \in Nodes(l) : l.status[n] = "MASTER"} = {HEAD_ID}
    /\ {NodeAt(l, i) : i \in 1..l.size} = {n \in Nodes(l) : l.status[n] = "ENGAGED"}
    /\ NodeAt(l, l.size + 1) = HEAD_ID
    /\ {n \in Nodes(l) : l.status[n] = "FREE"} =
          (IF l.free = HEAD_ID THEN {} ELSE {Walk(l.next, l.free, i) : i \in 0..l.capacity})

\* The validator of list_debug.cpp, which the release build compiles out,
\* would accept the list after every operation.
ListValid ==
    LET count(stat) == {n \in Nodes(list) : list.status[n] = stat}
        freeSize == list.capacity - list.size
    IN  Defined =>
        /\ list.size <= list.capacity /\ list.capacity > 0
        /\ Cardinality(count("ENGAGED")) = list.size
        /\ list.size > 1 => list.next[HEAD_ID] # HEAD_ID
        /\ Walk(list.next, HEAD_ID, list.size + 1) = HEAD_ID
        /\ Walk(list.prev, HEAD_ID, list.size + 1) = HEAD_ID
        /\ Cardinality(count("FREE")) = freeSize
        /\ freeSize > 1 => list.next[list.free] # list.free
        /\ freeSize > 0 => /\ Walk(list.next, list.free, freeSize) = list.free
                           /\ Walk(list.prev, list.free, freeSize) = list.free

\* However the nodes have been linked, putting them in order and cutting the
\* array behind them keeps the elements and their order and leaves two rings.
ShrinkKeepsContents ==
    LET flat == MakeListGreatAgain(list)
        small == ResizeDown(flat)
    IN  Defined =>
        /\ Contents(flat) = Contents(list) /\ RingsIntact(flat)
        /\ list.size <= list.capacity \div 2 =>
              Contents(small) = Contents(list) /\ RingsIntact(small)

\* An insertion never moves an element that is in the list already, also when
\* the array grows, and rewrites no node but the one that ListInsertIndex was
\* given.  So the index a reader holds stays good.
InsertKeepsNodes ==
    [][Defined' /\ list'.size > list.size =>
         \A n \in Nodes(list) : list.status[n] = "ENGAGED" =>
             /\ list'.status[n] = "ENGAGED"
             /\ list'.data[n] = list.data[n] \/ \E d \in Data : ListInsertIndex(n, d)]_vars

Abstract == INSTANCE ListSpec WITH
              items <- Contents(list),
              capacity <- list.capacity

\* The linked array implements the sequence of ListSpec, up to an insertion past
\* its end.
ImplementsListSpec ==
    /\ Abstract!ListInit
    /\ [][Defined' => UNCHANGED << Contents(list), list.capacity >> \/ Abstract!Next]_vars

\* Whatever the nodes look like, each operation does to the sequence what its
\* name says, at the position it was given: the head is position 1, position 0
\* of ListInsert is the tail, a node given by index is the element it holds.
OperationsAreExact ==
    [][LET n == list.size
           Place(index) == CHOOSE pos \in 1..n : NodeAt(list, pos) = index
       IN  ret' = "SUCCESS" =>
             /\ \A d \in Data : ListInsertHead(d) => Abstract!InsertAt(1, d)
             /\ \A d \in Data, pos \in 1..(n + 1) :
                    ListInsert(pos, d) => Abstract!InsertAt(pos, d)
             /\ \A d \in Data : ListInsert(0, d) => Abstract!InsertAt(n + 1, d)
             /\ \A pos \in 1..n : ListDelete(pos) => Abstract!DeleteAt(pos)
             /\ \A index \in 1..list.capacity :
                    /\ ListDeleteIndex(index) => Abstract!DeleteAt(Place(index))
                    /\ \A d \in Data : ListInsertIndex(index, d) =>
                          IF list.status[index] = "FREE" THEN Abstract!InsertAt(n + 1, d)
                          ELSE Abstract!Displace(Place(index), d)]_vars
=============================================================================
