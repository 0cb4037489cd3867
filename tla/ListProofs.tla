----------------------------- MODULE ListProofs -----------------------------
(***************************************************************************)
(* The linked array implements a sequence, for every payload, size and     *)
(* capacity.  The inductive invariant is that the nodes lie on two rings   *)
(* that the links trace, the used ones in the order of the list and the    *)
(* free ones.  The proof first shows what a walk along links visits, then  *)
(* what putting a node into a ring and taking one out do to its names,     *)
(* then what each helper of list.cpp does to both rings, and last what     *)
(* each operation of list.h does to the sequence of elements.              *)
(***************************************************************************)
EXTENDS List, TLAPS, WellFoundedInduction, FiniteSetTheorems

-----------------------------------------------------------------------------
(* Walks.  Facts about every number of steps are proved by looking at the  *)
(* least number for which they fail.                                       *)

\* Every nonempty set of numbers has a least one.
LEMMA LeastNumber ==
    ASSUME NEW S, S \subseteq Nat, S # {}
    PROVE  \E x \in S : \A y \in S : x <= y
<1>2. PICK x \in S : \A y \in S : ~(<<y, x>> \in OpToRel(<, Nat))
  BY NatLessThanWellFounded, WFMin
<1>3. ASSUME NEW y \in S
      PROVE  x <= y
  <2>1. x \in Nat /\ y \in Nat
    OBVIOUS
  <2>2. ~(y < x)
    BY <1>2, <2>1 DEF OpToRel
  <2> QED
    BY <2>1, <2>2
<1> QED
  BY <1>3

\* The nodes a walk visits, from its first to its last.
IsWalk(w, link, from, steps) == w = [i \in 0..steps |-> IF i = 0 THEN from ELSE link[w[i - 1]]]

\* The recursive function of Walk is defined for every number of steps.
LEMMA WalkExists ==
    ASSUME NEW link, NEW from, NEW steps \in Nat
    PROVE  \E w : IsWalk(w, link, from, steps)
<1> DEFINE S == {s \in Nat : ~ \E w : IsWalk(w, link, from, s)}
<1>1. SUFFICES ASSUME S # {} PROVE FALSE
  OBVIOUS
<1>2. PICK s \in S : \A t \in S : s <= t
  BY <1>1, LeastNumber
<1>3. s \in Nat
  OBVIOUS
<1>4. s # 0
  <2>1. IsWalk([i \in 0..0 |-> from], link, from, 0)
    BY DEF IsWalk
  <2> QED
    BY <2>1
<1>5. s - 1 \in Nat /\ s - 1 \notin S
  BY <1>2, <1>3, <1>4
<1>6. PICK w : IsWalk(w, link, from, s - 1)
  BY <1>5
<1> DEFINE v == [i \in 0..s |-> IF i = s THEN link[w[s - 1]] ELSE w[i]]
<1>7. IsWalk(v, link, from, s)
  <2>1. ASSUME NEW i \in 0..s
        PROVE  v[i] = IF i = 0 THEN from ELSE link[v[i - 1]]
    <3>1. CASE i = s
      BY <1>3, <1>4, <3>1
    <3>2. CASE i # s
      <4>1. i \in 0..(s - 1) /\ i - 1 # s
        BY <1>3, <3>2
      <4>2. w[i] = IF i = 0 THEN from ELSE link[w[i - 1]]
        BY <1>6, <4>1 DEF IsWalk
      <4>3. i # 0 => v[i - 1] = w[i - 1]
        BY <1>3, <4>1
      <4> QED
        BY <3>2, <4>2, <4>3
    <3> QED
      BY <3>1, <3>2
  <2> QED
    BY <2>1 DEF IsWalk
<1> QED
  BY <1>3, <1>7

\* A longer walk begins with the shorter one.
LEMMA WalksAgree ==
    ASSUME NEW link, NEW from, NEW s \in Nat, NEW t \in Nat, s <= t,
           NEW v, IsWalk(v, link, from, s), NEW w, IsWalk(w, link, from, t)
    PROVE  \A i \in 0..s : v[i] = w[i]
<1> DEFINE S == {i \in 0..s : v[i] # w[i]}
<1>1. SUFFICES ASSUME S # {} PROVE FALSE
  OBVIOUS
<1>2. S \subseteq Nat
  OBVIOUS
<1>3. PICK i \in S : \A j \in S : i <= j
  BY <1>1, <1>2, LeastNumber
<1>4. i \in 0..s /\ i \in 0..t /\ v[i] # w[i]
  OBVIOUS
<1>5. /\ v[i] = IF i = 0 THEN from ELSE link[v[i - 1]]
      /\ w[i] = IF i = 0 THEN from ELSE link[w[i - 1]]
  BY <1>4 DEF IsWalk
<1>6. i # 0 => i - 1 \in 0..s /\ i - 1 \notin S
  BY <1>3, <1>4
<1> QED
  BY <1>4, <1>5, <1>6

\* Walk is the end of the walk.
LEMMA WalkIsWalk ==
    ASSUME NEW link, NEW from, NEW s \in Nat
    PROVE  \E w : IsWalk(w, link, from, s) /\ Walk(link, from, s) = w[s]
<1> DEFINE w == CHOOSE w : IsWalk(w, link, from, s)
<1>1. IsWalk(w, link, from, s)
  BY WalkExists
<1>2. Walk(link, from, s) = w[s]
  BY DEF Walk, IsWalk
<1> QED
  BY <1>1, <1>2

\* A walk of one more step follows one more link.
LEMMA WalkSteps ==
    ASSUME NEW link, NEW from
    PROVE  /\ Walk(link, from, 0) = from
           /\ \A s \in Nat : Walk(link, from, s + 1) = link[Walk(link, from, s)]
<1>1. Walk(link, from, 0) = from
  <2>1. PICK w : IsWalk(w, link, from, 0) /\ Walk(link, from, 0) = w[0]
    BY WalkIsWalk
  <2> QED
    BY <2>1 DEF IsWalk
<1>2. ASSUME NEW s \in Nat
      PROVE  Walk(link, from, s + 1) = link[Walk(link, from, s)]
  <2>1. PICK v : IsWalk(v, link, from, s) /\ Walk(link, from, s) = v[s]
    BY WalkIsWalk
  <2>2. s + 1 \in Nat
    OBVIOUS
  <2>3. PICK w : IsWalk(w, link, from, s + 1) /\ Walk(link, from, s + 1) = w[s + 1]
    BY <2>2, WalkIsWalk
  <2>4. v[s] = w[s]
    BY <2>1, <2>2, <2>3, WalksAgree
  <2>5. w[s + 1] = link[w[s]]
    BY <2>3 DEF IsWalk
  <2> QED
    BY <2>1, <2>3, <2>4, <2>5
<1> QED
  BY <1>1, <1>2

-----------------------------------------------------------------------------
(* Rings                                                                   *)

\* One place of a function is set.
Set1(f, x, a) == [f EXCEPT ![x] = a]

\* Two places of a link are set.
Set2(f, x, a, y, b) == [f EXCEPT ![x] = a, ![y] = b]

\* The names of a ring of k nodes with n behind place p, and without place q.
Inserted(r, k, p, n) ==
    [i \in 1..(k + 1) |-> IF i <= p THEN r[i] ELSE IF i = p + 1 THEN n ELSE r[i - 1]]

Removed(r, k, q) == [i \in 1..(k - 1) |-> IF i < q THEN r[i] ELSE r[i + 1]]

\* InsertRight behind place p of a ring gives a ring with n there.
LEMMA RingInserted ==
    ASSUME NEW N, NEW next \in [N -> N], NEW prev \in [N -> N],
           NEW k \in Nat, NEW r \in [1..k -> N], Ring(next, prev, r, k),
           NEW n \in N, \A i \in 1..k : r[i] # n,
           NEW p \in 1..k
    PROVE  /\ Inserted(r, k, p, n) \in [1..(k + 1) -> N]
           /\ Ring(Set2(next, r[p], n, n, next[r[p]]), Set2(prev, n, r[p], next[r[p]], n),
                   Inserted(r, k, p, n), k + 1)
<1> DEFINE s == Inserted(r, k, p, n)
           next2 == Set2(next, r[p], n, n, next[r[p]])
           prev2 == Set2(prev, n, r[p], next[r[p]], n)
<1>1. s \in [1..(k + 1) -> N]
  BY DEF Inserted
<1>2. ASSUME NEW i \in 1..(k + 1), NEW j \in 1..(k + 1), s[i] = s[j]
      PROVE  i = j
  BY <1>2 DEF Inserted, Ring
<1>3. /\ r[p] \in N /\ r[p] # n
      /\ next[r[p]] = r[IF p = k THEN 1 ELSE p + 1]
      /\ next[r[p]] \in N /\ next[r[p]] # n
  BY DEF Ring
<1>4. \A x \in N : /\ next2[x] = IF x = n THEN next[r[p]] ELSE IF x = r[p] THEN n ELSE next[x]
                   /\ prev2[x] = IF x = next[r[p]] THEN n ELSE IF x = n THEN r[p] ELSE prev[x]
  BY <1>3 DEF Set2
<1> HIDE DEF next2, prev2
<1>5. /\ \A i \in 1..p : s[i] = r[i]
      /\ s[p + 1] = n
      /\ \A i \in (p + 2)..(k + 1) : s[i] = r[i - 1]
  BY DEF Inserted
<1> HIDE DEF s
<1>6. ASSUME NEW i \in 1..(k + 1)
      PROVE  next2[s[i]] = s[IF i = k + 1 THEN 1 ELSE i + 1]
  <2>1. CASE i < p
    <3>1. i \in 1..k /\ s[i] = r[i] /\ r[i] # r[p] /\ s[i + 1] = r[i + 1] /\ next[r[i]] = r[i + 1]
      BY <2>1, <1>5 DEF Ring
    <3> QED
      BY <2>1, <3>1, <1>4
  <2>2. CASE i = p
    BY <2>2, <1>3, <1>4, <1>5
  <2>3. CASE i = p + 1
    BY <2>3, <1>3, <1>4, <1>5
  <2>4. CASE i > p + 1
    <3>1. i - 1 \in 1..k /\ s[i] = r[i - 1] /\ r[i - 1] # r[p] /\ r[i - 1] # n
          /\ next[r[i - 1]] = r[IF i - 1 = k THEN 1 ELSE i]
      BY <2>4, <1>5 DEF Ring
    <3> QED
      BY <2>4, <3>1, <1>4, <1>5
  <2> QED
    BY <2>1, <2>2, <2>3, <2>4
<1>7. ASSUME NEW i \in 1..(k + 1)
      PROVE  prev2[s[i]] = s[IF i = 1 THEN k + 1 ELSE i - 1]
  <2>1. CASE i <= p
    <3>1. s[i] = r[i] /\ r[i] # n /\ r[i] \in N /\ prev[r[i]] = r[IF i = 1 THEN k ELSE i - 1]
      BY <2>1, <1>5 DEF Ring
    <3>2. r[i] = next[r[p]] <=> i = 1 /\ p = k
      BY <2>1, <1>3 DEF Ring
    <3> QED
      BY <2>1, <3>1, <3>2, <1>4, <1>5
  <2>2. CASE i = p + 1
    BY <2>2, <1>3, <1>4, <1>5
  <2>3. CASE i > p + 1
    <3>1. i - 1 \in 1..k /\ s[i] = r[i - 1] /\ r[i - 1] # n /\ prev[r[i - 1]] = r[i - 2]
      BY <2>3, <1>5 DEF Ring
    <3>2. r[i - 1] = next[r[p]] <=> i = p + 2
      BY <2>3, <1>3 DEF Ring
    <3> QED
      BY <2>3, <3>1, <3>2, <1>4, <1>5
  <2> QED
    BY <2>1, <2>2, <2>3
<1> QED
  BY <1>1, <1>2, <1>6, <1>7 DEF Ring, s, next2, prev2

\* Unlinking place q of a ring closes it.
LEMMA RingRemoved ==
    ASSUME NEW N, NEW next \in [N -> N], NEW prev \in [N -> N],
           NEW k \in Nat, NEW r \in [1..k -> N], Ring(next, prev, r, k), k > 1,
           NEW q \in 1..k, NEW z \in N
    PROVE  /\ Removed(r, k, q) \in [1..(k - 1) -> N]
           /\ Ring(Set2(next, prev[r[q]], next[r[q]], r[q], z),
                   Set2(prev, next[r[q]], prev[r[q]], r[q], z), Removed(r, k, q), k - 1)
<1> DEFINE s == Removed(r, k, q)
           next2 == Set2(next, prev[r[q]], next[r[q]], r[q], z)
           prev2 == Set2(prev, next[r[q]], prev[r[q]], r[q], z)
<1>1. s \in [1..(k - 1) -> N]
  BY DEF Removed
<1>2. ASSUME NEW i \in 1..(k - 1), NEW j \in 1..(k - 1), s[i] = s[j]
      PROVE  i = j
  BY <1>2 DEF Removed, Ring
<1>3. /\ r[q] \in N
      /\ next[r[q]] = r[IF q = k THEN 1 ELSE q + 1]
      /\ prev[r[q]] = r[IF q = 1 THEN k ELSE q - 1]
      /\ next[r[q]] \in N /\ next[r[q]] # r[q]
      /\ prev[r[q]] \in N /\ prev[r[q]] # r[q]
  BY DEF Ring
<1>4. \A x \in N : x # r[q] =>
           /\ next2[x] = IF x = prev[r[q]] THEN next[r[q]] ELSE next[x]
           /\ prev2[x] = IF x = next[r[q]] THEN prev[r[q]] ELSE prev[x]
  BY <1>3 DEF Set2
<1> HIDE DEF next2, prev2
<1>5. /\ \A i \in 1..(q - 1) : s[i] = r[i]
      /\ \A i \in q..(k - 1) : s[i] = r[i + 1]
  BY DEF Removed
<1> HIDE DEF s
<1>6. ASSUME NEW i \in 1..(k - 1)
      PROVE  next2[s[i]] = s[IF i = k - 1 THEN 1 ELSE i + 1]
  <2>1. CASE i < q
    <3>1. s[i] = r[i] /\ r[i] # r[q] /\ r[i] \in N /\ next[r[i]] = r[i + 1]
      BY <2>1, <1>5 DEF Ring
    <3>2. r[i] = prev[r[q]] <=> i = q - 1
      BY <2>1, <1>3 DEF Ring
    <3> QED
      BY <2>1, <3>1, <3>2, <1>3, <1>4, <1>5
  <2>2. CASE i >= q
    <3>1. s[i] = r[i + 1] /\ r[i + 1] # r[q] /\ r[i + 1] \in N
          /\ next[r[i + 1]] = r[IF i + 1 = k THEN 1 ELSE i + 2]
      BY <2>2, <1>5 DEF Ring
    <3>2. r[i + 1] = prev[r[q]] <=> q = 1 /\ i + 1 = k
      BY <2>2, <1>3 DEF Ring
    <3> QED
      BY <2>2, <3>1, <3>2, <1>3, <1>4, <1>5
  <2> QED
    BY <2>1, <2>2
<1>7. ASSUME NEW i \in 1..(k - 1)
      PROVE  prev2[s[i]] = s[IF i = 1 THEN k - 1 ELSE i - 1]
  <2>1. CASE i < q
    <3>1. s[i] = r[i] /\ r[i] # r[q] /\ r[i] \in N /\ prev[r[i]] = r[IF i = 1 THEN k ELSE i - 1]
      BY <2>1, <1>5 DEF Ring
    <3>2. r[i] = next[r[q]] <=> i = 1 /\ q = k
      BY <2>1, <1>3 DEF Ring
    <3> QED
      BY <2>1, <3>1, <3>2, <1>3, <1>4, <1>5
  <2>2. CASE i >= q
    <3>1. s[i] = r[i + 1] /\ r[i + 1] # r[q] /\ r[i + 1] \in N /\ prev[r[i + 1]] = r[i]
      BY <2>2, <1>5 DEF Ring
    <3>2. r[i + 1] = next[r[q]] <=> i = q
      BY <2>2, <1>3 DEF Ring
    <3> QED
      BY <2>2, <3>1, <3>2, <1>3, <1>4, <1>5
  <2> QED
    BY <2>1, <2>2
<1> QED
  BY <1>1, <1>2, <1>6, <1>7 DEF Ring, s, next2, prev2

\* A ring stays as it is when the links of its nodes do.
LEMMA RingUntouched ==
    ASSUME NEW k \in Nat, NEW next, NEW prev, NEW next2, NEW prev2, NEW r,
           Ring(next, prev, r, k),
           \A i \in 1..k : next2[r[i]] = next[r[i]] /\ prev2[r[i]] = prev[r[i]]
    PROVE  Ring(next2, prev2, r, k)
BY DEF Ring

\* The fields of a list.
LEMMA ListFields ==
    ASSUME NEW c \in Nat, NEW l \in ListOf(c)
    PROVE  /\ l.status \in [Places(c) -> {"FREE", "ENGAGED", "MASTER"}]
           /\ l.data \in [Places(c) -> Data \cup {ZeroData}]
           /\ l.next \in [Places(c) -> Places(c)] /\ l.prev \in [Places(c) -> Places(c)]
           /\ l.free \in Places(c) /\ l.size \in 0..c /\ l.capacity = c
BY DEF ListOf

\* The HEAD is in every array.
LEMMA HeadIsAPlace ==
    ASSUME NEW c \in Nat
    PROVE  HEAD_ID \in Places(c) /\ 0 \in Places(c)
BY DEF Places, HEAD_ID

\* Two places of a link are set to nodes.
LEMMA TwoUpdates ==
    ASSUME NEW N, NEW f \in [N -> N], NEW x \in N, NEW a \in N, NEW y \in N, NEW b \in N
    PROVE  /\ Set2(f, x, a, y, b) \in [N -> N]
           /\ \A n \in N : Set2(f, x, a, y, b)[n] =
                               IF n = y THEN b ELSE IF n = x THEN a ELSE f[n]
BY DEF Set2

\* Two places are set in either order.
LEMMA UpdatesCommute ==
    ASSUME NEW N, NEW f \in [N -> N], NEW x \in N, NEW a \in N, NEW y \in N, NEW b \in N, x # y
    PROVE  Set2(f, x, a, y, b) = Set2(f, y, b, x, a)
BY DEF Set2

\* Functions that agree everywhere are equal.
LEMMA SameFunction ==
    ASSUME NEW N, NEW S, NEW f \in [N -> S], NEW g \in [N -> S], \A n \in N : f[n] = g[n]
    PROVE  f = g
OBVIOUS

\* A list has no other fields.
LEMMA ListIsItsFields ==
    ASSUME NEW c \in Nat, NEW l \in ListOf(c)
    PROVE  l = [status |-> l.status, data |-> l.data, next |-> l.next, prev |-> l.prev,
                free |-> l.free, size |-> l.size, capacity |-> l.capacity]
BY DEF ListOf

\* Lists with the same fields are equal.
LEMMA SameList ==
    ASSUME NEW c \in Nat, NEW l \in ListOf(c), NEW m \in ListOf(c),
           \A n \in Places(c) : /\ l.status[n] = m.status[n] /\ l.data[n] = m.data[n]
                           /\ l.next[n] = m.next[n] /\ l.prev[n] = m.prev[n],
           l.free = m.free, l.size = m.size
    PROVE  l = m
<1>1. l.status = m.status /\ l.data = m.data /\ l.next = m.next /\ l.prev = m.prev
  <2>1. l.status = m.status
    BY ListFields, SameFunction
  <2>2. l.data = m.data
    BY ListFields, SameFunction
  <2>3. l.next = m.next
    BY ListFields, SameFunction
  <2>4. l.prev = m.prev
    BY ListFields, SameFunction
  <2> QED
    BY <2>1, <2>2, <2>3, <2>4
<1>2. l.capacity = m.capacity
  BY ListFields
<1> QED
  BY <1>1, <1>2, ListIsItsFields

\* What InsertRight does to each field.
LEMMA InsertRightFields ==
    ASSUME NEW c \in Nat, NEW l \in ListOf(c), NEW elem \in Places(c), NEW pos \in Places(c)
    PROVE  LET m == InsertRight(l, elem, pos)
           IN  /\ m \in ListOf(c)
               /\ m.next = Set2(l.next, pos, elem, elem, l.next[pos])
               /\ m.prev = Set2(l.prev, elem, pos, l.next[pos], elem)
               /\ m.status = l.status /\ m.data = l.data
               /\ m.free = l.free /\ m.size = l.size /\ m.capacity = l.capacity
BY DEF InsertRight, ListOf, Set2

\* To the left of a node is to the right of the one before it.
LEMMA InsertLeftIsRight ==
    ASSUME NEW c \in Nat, NEW l \in ListOf(c), NEW elem \in Places(c), NEW pos \in Places(c),
           elem # pos, elem # l.prev[pos], l.next[l.prev[pos]] = pos
    PROVE  InsertLeft(l, elem, pos) = InsertRight(l, elem, l.prev[pos])
<1> DEFINE a == InsertLeft(l, elem, pos)
           b == InsertRight(l, elem, l.prev[pos])
<1>1. l.prev[pos] \in Places(c)
  BY DEF ListOf
<1>2. /\ a \in ListOf(c)
      /\ a.prev = Set2(l.prev, pos, elem, elem, l.prev[pos])
      /\ a.next = Set2(l.next, elem, pos, l.prev[pos], elem)
      /\ a.status = l.status /\ a.data = l.data
      /\ a.free = l.free /\ a.size = l.size
  BY DEF InsertLeft, ListOf, Set2
<1> HIDE DEF a
<1>3. /\ b \in ListOf(c)
      /\ b.next = Set2(l.next, l.prev[pos], elem, elem, l.next[l.prev[pos]])
      /\ b.prev = Set2(l.prev, elem, l.prev[pos], l.next[l.prev[pos]], elem)
      /\ b.status = l.status /\ b.data = l.data
      /\ b.free = l.free /\ b.size = l.size
  BY <1>1, InsertRightFields
<1> HIDE DEF b
<1>4. l.next \in [Places(c) -> Places(c)] /\ l.prev \in [Places(c) -> Places(c)]
  BY DEF ListOf
<1>5. a.next = b.next
  <2>1. Set2(l.next, elem, pos, l.prev[pos], elem) = Set2(l.next, l.prev[pos], elem, elem, pos)
    BY <1>1, <1>4, UpdatesCommute
  <2> QED
    BY <1>2, <1>3, <2>1
<1>6. a.prev = b.prev
  <2>1. Set2(l.prev, pos, elem, elem, l.prev[pos]) = Set2(l.prev, elem, l.prev[pos], pos, elem)
    BY <1>1, <1>4, UpdatesCommute
  <2> QED
    BY <1>2, <1>3, <2>1
<1>7. a = b
  BY <1>2, <1>3, <1>5, <1>6, SameList
<1> QED
  BY <1>7 DEF a, b

\* What Unlink does to each field.
LEMMA UnlinkFields ==
    ASSUME NEW c \in Nat, NEW l \in ListOf(c), NEW elem \in Places(c)
    PROVE  LET m == Unlink(l, elem)
           IN  /\ m \in ListOf(c)
               /\ m.next = Set2(l.next, l.prev[elem], l.next[elem], elem, 0)
               /\ m.prev = Set2(l.prev, l.next[elem], l.prev[elem], elem, 0)
               /\ m.status = l.status /\ m.data = l.data
               /\ m.free = l.free /\ m.size = l.size /\ m.capacity = l.capacity
<1> DEFINE nx == Set2(l.next, l.prev[elem], l.next[elem], elem, 0)
           pv == Set2(l.prev, l.next[elem], l.prev[elem], elem, 0)
<1>1. nx \in [Places(c) -> Places(c)] /\ pv \in [Places(c) -> Places(c)]
  <2>1. /\ l.next \in [Places(c) -> Places(c)] /\ l.prev \in [Places(c) -> Places(c)]
        /\ l.next[elem] \in Places(c) /\ l.prev[elem] \in Places(c) /\ 0 \in Places(c)
    BY ListFields, HeadIsAPlace
  <2> QED
    <3>1. nx \in [Places(c) -> Places(c)]
      BY <2>1, TwoUpdates
    <3>2. pv \in [Places(c) -> Places(c)]
      BY <2>1, TwoUpdates
    <3> QED
      BY <3>1, <3>2
<1>2. Unlink(l, elem) = [l EXCEPT !.next = nx, !.prev = pv]
  <2> DEFINE m == Unlink(l, elem)
  <2>1. m = [[l EXCEPT !.next = nx] EXCEPT !.prev = pv]
    BY DEF Unlink, ListOf, Set2
  <2> QED
    BY DEF Unlink, ListOf, Set2
<1> HIDE DEF nx, pv
<1>3. /\ Unlink(l, elem) \in ListOf(c)
      /\ Unlink(l, elem).next = nx /\ Unlink(l, elem).prev = pv
  BY <1>1, <1>2 DEF ListOf
<1> QED
  BY <1>2, <1>3 DEF ListOf, nx, pv

\* DeleteRight unlinks the node behind its argument.
LEMMA DeleteRightUnlinks ==
    ASSUME NEW c \in Nat, NEW l \in ListOf(c), NEW elem \in Places(c),
           l.prev[l.next[elem]] = elem
    PROVE  DeleteRight(l, elem) = Unlink(l, l.next[elem])
BY DEF DeleteRight, Unlink, ListOf

\* The nodes before first are linked to nodes up to last.
LinksWithin(l, first, last) ==
    \A n \in 0..(first - 1) : l.next[n] <= last /\ l.prev[n] <= last

\* m is l in an array that ends at last, with the nodes from first on in a ring.
FreeFrom(m, l, first, last) ==
    /\ m \in ListOf(last) /\ m.size = l.size
    /\ m.free = IF first <= last THEN first ELSE HEAD_ID
    /\ \A n \in 0..(first - 1) : /\ m.status[n] = l.status[n] /\ m.data[n] = l.data[n]
                                 /\ m.next[n] = l.next[n] /\ m.prev[n] = l.prev[n]
    /\ \A n \in first..last : /\ m.status[n] = "FREE" /\ m.data[n] = ZeroData
                              /\ m.next[n] = IF n = last THEN first ELSE n + 1
                              /\ m.prev[n] = IF n = first THEN last ELSE n - 1

\* What the loops that build a free ring do to each field.
LEMMA WithFreeRingFields ==
    ASSUME NEW c \in Nat, NEW l \in ListOf(c), NEW last \in Nat, NEW first \in 1..(c + 1),
           first <= last + 1, l.size <= last,
           LinksWithin(l, first, last)
    PROVE  FreeFrom(WithFreeRing(l, first, last), l, first, last)
<1> DEFINE m == WithFreeRing(l, first, last)
           status == [n \in 0..last |-> IF n < first THEN l.status[n] ELSE "FREE"]
           data == [n \in 0..last |-> IF n < first THEN l.data[n] ELSE ZeroData]
           next == [n \in 0..last |-> IF n < first THEN l.next[n]
                                      ELSE IF n = last THEN first ELSE n + 1]
           prev == [n \in 0..last |-> IF n < first THEN l.prev[n]
                                      ELSE IF n = first THEN last ELSE n - 1]
           free == IF first <= last THEN first ELSE HEAD_ID
<1>1. l \in ListOf(c) /\ first \in Nat /\ l.size \in Nat
  BY DEF ListOf
<1>2. m = [l EXCEPT !.capacity = last, !.free = free, !.status = status, !.data = data,
                    !.next = next, !.prev = prev]
  BY DEF WithFreeRing
<1>3. status \in [Places(last) -> {"FREE", "ENGAGED", "MASTER"}]
  <2>1. ASSUME NEW n \in 0..last, n < first
        PROVE  l.status[n] \in {"FREE", "ENGAGED", "MASTER"}
    <3>1. n \in Places(c)
      BY <2>1 DEF Places
    <3> QED
      BY <3>1, ListFields
  <2> QED
    BY <2>1 DEF Places
<1>4. data \in [Places(last) -> Data \cup {ZeroData}]
  <2>1. ASSUME NEW n \in 0..last, n < first
        PROVE  l.data[n] \in Data \cup {ZeroData}
    <3>1. n \in Places(c)
      BY <2>1 DEF Places
    <3> QED
      BY <3>1, ListFields
  <2> QED
    BY <2>1 DEF Places
<1>5. next \in [Places(last) -> Places(last)]
  <2>1. ASSUME NEW n \in 0..last, n < first
        PROVE  l.next[n] \in 0..last
    <3>1. n \in 0..(first - 1) /\ n \in Places(c)
      BY <2>1 DEF Places
    <3>2. l.next[n] \in Places(c)
      BY <3>1, ListFields
    <3> QED
      BY <3>1, <3>2 DEF Places, LinksWithin
  <2> QED
    BY <2>1 DEF Places
<1>6. prev \in [Places(last) -> Places(last)]
  <2>1. ASSUME NEW n \in 0..last, n < first
        PROVE  l.prev[n] \in 0..last
    <3>1. n \in 0..(first - 1) /\ n \in Places(c)
      BY <2>1 DEF Places
    <3>2. l.prev[n] \in Places(c)
      BY <3>1, ListFields
    <3> QED
      BY <3>1, <3>2 DEF Places, LinksWithin
  <2> QED
    BY <2>1 DEF Places
<1>7. free \in Places(last) /\ l.size \in 0..last /\ last \in {last}
  BY DEF Places, HEAD_ID, ListOf
<1> HIDE DEF status, data, next, prev, free, m
<1>8. /\ m \in ListOf(last) /\ m.capacity = last /\ m.size = l.size /\ m.free = free
      /\ m.status = status /\ m.data = data /\ m.next = next /\ m.prev = prev
  BY <1>2, <1>3, <1>4, <1>5, <1>6, <1>7 DEF ListOf
<1>9. \A n \in 0..(first - 1) : /\ status[n] = l.status[n] /\ data[n] = l.data[n]
                                /\ next[n] = l.next[n] /\ prev[n] = l.prev[n]
  BY DEF status, data, next, prev
<1>10. \A n \in first..last : /\ status[n] = "FREE" /\ data[n] = ZeroData
                              /\ next[n] = IF n = last THEN first ELSE n + 1
                              /\ prev[n] = IF n = first THEN last ELSE n - 1
  BY DEF status, data, next, prev
<1>11. FreeFrom(m, l, first, last)
  BY <1>8, <1>9, <1>10 DEF FreeFrom, free
<1> QED
  BY <1>11 DEF m

\* No node is used and free.
LEMMA NodesApart ==
    ASSUME NEW l, NEW u, NEW f, Shape(l, u, f),
           NEW i \in 1..(l.size + 1), NEW j \in 1..(l.capacity - l.size)
    PROVE  u[i] # f[j]
<1>1. l.capacity \in Nat /\ l.size \in 0..l.capacity
  BY ListFields DEF Shape
<1>2. CASE i = 1
  BY <1>1, <1>2 DEF Shape, Covered
<1>3. CASE i # 1
  BY <1>1, <1>3 DEF Shape, Covered
<1> QED
  BY <1>2, <1>3

\* A free node becomes the one behind place p of the list.
LEMMA EngagedIsCovered ==
    ASSUME NEW c \in Nat, NEW size \in 0..c, NEW S, NEW status \in [Places(c) -> S],
           NEW u \in [1..(size + 1) -> Places(c)], u[1] = HEAD_ID,
           NEW f \in [1..(c - size) -> Places(c)],
           \A i, j \in 1..(c - size) : f[i] = f[j] => i = j,
           \A i \in 1..(size + 1), j \in 1..(c - size) : u[i] # f[j],
           Covered(status, c, size, u, f),
           NEW p \in 1..(size + 1), NEW q \in 1..(c - size),
           NEW status2, status2 = [status EXCEPT ![f[q]] = "ENGAGED"]
    PROVE  Covered(status2, c, size + 1, Inserted(u, size + 1, p, f[q]), Removed(f, c - size, q))
<1> DEFINE u2 == Inserted(u, size + 1, p, f[q])
           f2 == Removed(f, c - size, q)
<1>1. /\ \A i \in 1..p : u2[i] = u[i]
      /\ u2[p + 1] = f[q]
      /\ \A i \in (p + 2)..(size + 2) : u2[i] = u[i - 1]
  BY DEF Inserted
<1>2. /\ \A i \in 1..(q - 1) : f2[i] = f[i]
      /\ \A i \in q..(c - size - 1) : f2[i] = f[i + 1]
  BY DEF Removed
<1> HIDE DEF u2, f2
<1>3. \A n \in Places(c) : status2[n] = IF n = f[q] THEN "ENGAGED" ELSE status[n]
  OBVIOUS
<1>4. status2[HEAD_ID] = "MASTER"
  BY <1>3, HeadIsAPlace DEF Covered
<1>5. ASSUME NEW i \in 2..(size + 2)
      PROVE  status2[u2[i]] = "ENGAGED"
  <2>1. CASE i <= p
    BY <2>1, <1>1, <1>3 DEF Covered
  <2>2. CASE i = p + 1
    BY <2>2, <1>1, <1>3
  <2>3. CASE i > p + 1
    <3>1. i - 1 \in 2..(size + 1) /\ u2[i] = u[i - 1]
      BY <2>3, <1>1
    <3> QED
      BY <3>1, <1>3 DEF Covered
  <2> QED
    BY <2>1, <2>2, <2>3
<1>6. ASSUME NEW i \in 1..(c - size - 1)
      PROVE  status2[f2[i]] = "FREE"
  <2>1. CASE i < q
    <3>1. f2[i] = f[i] /\ f[i] # f[q]
      BY <2>1, <1>2
    <3> QED
      BY <3>1, <1>3 DEF Covered
  <2>2. CASE i >= q
    <3>1. i + 1 \in 1..(c - size) /\ f2[i] = f[i + 1] /\ f[i + 1] # f[q]
      BY <2>2, <1>2
    <3> QED
      BY <3>1, <1>3 DEF Covered
  <2> QED
    BY <2>1, <2>2
<1>7. ASSUME NEW n \in Places(c) \ {HEAD_ID}
      PROVE  \/ \E i \in 2..(size + 2) : u2[i] = n
             \/ \E i \in 1..(c - size - 1) : f2[i] = n
  <2>1. ASSUME NEW i \in 2..(size + 1), u[i] = n
        PROVE  \E j \in 2..(size + 2) : u2[j] = n
    <3>1. CASE i <= p
      BY <2>1, <3>1, <1>1
    <3>2. CASE i > p
      <4>1. i + 1 \in (p + 2)..(size + 2) /\ (i + 1) - 1 = i
        BY <3>2
      <4>2. u2[i + 1] = u[i]
        BY <4>1, <1>1
      <4> QED
        BY <2>1, <4>1, <4>2
    <3> QED
      BY <3>1, <3>2
  <2>2. ASSUME NEW i \in 1..(c - size), f[i] = n
        PROVE  \/ \E j \in 2..(size + 2) : u2[j] = n
               \/ \E j \in 1..(c - size - 1) : f2[j] = n
    <3>1. CASE i = q
      BY <2>2, <3>1, <1>1
    <3>2. CASE i < q
      BY <2>2, <3>2, <1>2
    <3>3. CASE i > q
      <4>1. i - 1 \in q..(c - size - 1) /\ (i - 1) + 1 = i
        BY <3>3
      <4>2. f2[i - 1] = f[i]
        BY <4>1, <1>2
      <4> QED
        BY <2>2, <4>1, <4>2
    <3> QED
      BY <3>1, <3>2, <3>3
  <2> QED
    BY <2>1, <2>2 DEF Covered
<1>8. size + 1 + 1 = size + 2 /\ c - (size + 1) = c - size - 1
  OBVIOUS
<1> QED
  BY <1>4, <1>5, <1>6, <1>7, <1>8 DEF Covered, u2, f2

\* The used node at place p becomes the last of the free ones.
LEMMA FreedIsCovered ==
    ASSUME NEW c \in Nat, NEW size \in 0..c, NEW S, NEW status \in [Places(c) -> S],
           NEW u \in [1..(size + 1) -> Places(c)], u[1] = HEAD_ID,
           NEW f \in [1..(c - size) -> Places(c)],
           \A i, j \in 1..(size + 1) : u[i] = u[j] => i = j,
           \A i \in 1..(size + 1), j \in 1..(c - size) : u[i] # f[j],
           Covered(status, c, size, u, f),
           NEW p \in 2..(size + 1),
           NEW status2, status2 = [status EXCEPT ![u[p]] = "FREE"]
    PROVE  Covered(status2, c, size - 1, Removed(u, size + 1, p),
                   Inserted(f, c - size, c - size, u[p]))
<1> DEFINE u2 == Removed(u, size + 1, p)
           f2 == Inserted(f, c - size, c - size, u[p])
<1>1. /\ \A i \in 1..(p - 1) : u2[i] = u[i]
      /\ \A i \in p..size : u2[i] = u[i + 1]
  BY DEF Removed
<1>2. /\ \A i \in 1..(c - size) : f2[i] = f[i]
      /\ f2[c - size + 1] = u[p]
  BY DEF Inserted
<1> HIDE DEF u2, f2
<1>3. \A n \in Places(c) : status2[n] = IF n = u[p] THEN "FREE" ELSE status[n]
  OBVIOUS
<1>4. status2[HEAD_ID] = "MASTER"
  <2>1. u[p] # HEAD_ID
    OBVIOUS
  <2> QED
    BY <1>3, <2>1, HeadIsAPlace DEF Covered
<1>5. ASSUME NEW i \in 2..size
      PROVE  status2[u2[i]] = "ENGAGED"
  <2>1. CASE i < p
    <3>1. u2[i] = u[i] /\ u[i] # u[p]
      BY <2>1, <1>1
    <3> QED
      BY <3>1, <1>3 DEF Covered
  <2>2. CASE i >= p
    <3>1. i + 1 \in 2..(size + 1) /\ u2[i] = u[i + 1] /\ u[i + 1] # u[p]
      BY <2>2, <1>1
    <3> QED
      BY <3>1, <1>3 DEF Covered
  <2> QED
    BY <2>1, <2>2
<1>6. ASSUME NEW i \in 1..(c - size + 1)
      PROVE  status2[f2[i]] = "FREE"
  <2>1. CASE i <= c - size
    <3>1. i \in 1..(c - size) /\ f2[i] = f[i] /\ f[i] # u[p]
      BY <2>1, <1>2
    <3> QED
      BY <3>1, <1>3 DEF Covered
  <2>2. CASE i = c - size + 1
    BY <2>2, <1>2, <1>3
  <2> QED
    BY <2>1, <2>2
<1>7. ASSUME NEW n \in Places(c) \ {HEAD_ID}
      PROVE  \/ \E i \in 2..size : u2[i] = n
             \/ \E i \in 1..(c - size + 1) : f2[i] = n
  <2>1. ASSUME NEW i \in 2..(size + 1), u[i] = n
        PROVE  \/ \E j \in 2..size : u2[j] = n
               \/ \E j \in 1..(c - size + 1) : f2[j] = n
    <3>1. CASE i < p
      <4>1. i \in 2..size /\ i \in 1..(p - 1)
        BY <3>1
      <4> QED
        BY <2>1, <4>1, <1>1
    <3>2. CASE i = p
      BY <2>1, <3>2, <1>2
    <3>3. CASE i > p
      <4>1. i - 1 \in p..size /\ i - 1 \in 2..size /\ (i - 1) + 1 = i
        BY <3>3
      <4>2. u2[i - 1] = u[i]
        BY <4>1, <1>1
      <4> QED
        BY <2>1, <4>1, <4>2
    <3> QED
      BY <3>1, <3>2, <3>3
  <2>2. ASSUME NEW i \in 1..(c - size), f[i] = n
        PROVE  \E j \in 1..(c - size + 1) : f2[j] = n
    BY <2>2, <1>2
  <2> QED
    BY <2>1, <2>2 DEF Covered
<1>8. size - 1 + 1 = size /\ c - (size - 1) = c - size + 1
  OBVIOUS
<1> QED
  BY <1>4, <1>5, <1>6, <1>7, <1>8 DEF Covered, u2, f2

\* The parts of Shape, each with its type.
LEMMA ShapeFacts ==
    ASSUME NEW l, NEW u, NEW f, Shape(l, u, f)
    PROVE  LET c == l.capacity
               s == l.size
           IN  /\ c \in Nat /\ s \in 0..c /\ c - s \in Nat /\ l \in ListOf(c)
               /\ l.status \in [Places(c) -> {"FREE", "ENGAGED", "MASTER"}]
               /\ l.next \in [Places(c) -> Places(c)] /\ l.prev \in [Places(c) -> Places(c)]
               /\ u \in [1..(s + 1) -> Places(c)] /\ u[1] = HEAD_ID
               /\ f \in [1..(c - s) -> Places(c)]
               /\ l.free = IF s = c THEN HEAD_ID ELSE f[1]
               /\ Ring(l.next, l.prev, u, s + 1) /\ Ring(l.next, l.prev, f, c - s)
               /\ Covered(l.status, c, s, u, f)
<1>1. l.capacity \in Nat /\ l \in ListOf(l.capacity)
  BY DEF Shape
<1>2. l.status \in [Places(l.capacity) -> {"FREE", "ENGAGED", "MASTER"}]
  BY <1>1, ListFields
<1>3. l.size \in 0..l.capacity
  BY <1>1, ListFields
<1>4. l.next \in [Places(l.capacity) -> Places(l.capacity)]
      /\ l.prev \in [Places(l.capacity) -> Places(l.capacity)]
  BY <1>1, ListFields
<1> QED
  BY <1>1, <1>2, <1>3, <1>4 DEF Shape, Nodes

\* The nodes of a ring.
Named(r, k) == {r[i] : i \in 1..k}

\* What a node is linked to is in its ring, and links back.
LEMMA NeighboursInRing ==
    ASSUME NEW next, NEW prev, NEW k \in Nat, NEW r, Ring(next, prev, r, k), NEW i \in 1..k
    PROVE  next[r[i]] \in Named(r, k) /\ prev[r[i]] \in Named(r, k)
<1>1. /\ (IF i = k THEN 1 ELSE i + 1) \in 1..k
      /\ (IF i = 1 THEN k ELSE i - 1) \in 1..k
  OBVIOUS
<1>2. /\ next[r[i]] = r[IF i = k THEN 1 ELSE i + 1]
      /\ prev[r[i]] = r[IF i = 1 THEN k ELSE i - 1]
  BY DEF Ring
<1> QED
  BY <1>1, <1>2 DEF Named

\* Inside a ring next and prev are inverse.
LEMMA LinksAreInverse ==
    ASSUME NEW next, NEW prev, NEW k \in Nat, NEW r, Ring(next, prev, r, k), NEW i \in 1..k
    PROVE  prev[next[r[i]]] = r[i] /\ next[prev[r[i]]] = r[i]
<1>1. /\ (IF i = k THEN 1 ELSE i + 1) \in 1..k
      /\ (IF i = 1 THEN k ELSE i - 1) \in 1..k
  OBVIOUS
<1>2. /\ next[r[i]] = r[IF i = k THEN 1 ELSE i + 1]
      /\ prev[r[i]] = r[IF i = 1 THEN k ELSE i - 1]
  BY DEF Ring
<1>3. prev[r[IF i = k THEN 1 ELSE i + 1]] = r[i]
  BY <1>1 DEF Ring
<1>4. next[r[IF i = 1 THEN k ELSE i - 1]] = r[i]
  BY <1>1 DEF Ring
<1> QED
  BY <1>1, <1>2, <1>3, <1>4

\* A node that is linked to itself has its ring for itself.
LEMMA AloneInRing ==
    ASSUME NEW next, NEW prev, NEW k \in Nat, NEW r, Ring(next, prev, r, k), NEW i \in 1..k
    PROVE  next[r[i]] = r[i] <=> k = 1
BY DEF Ring

\* The second node of a ring is not linked to itself.
LEMMA SecondInRing ==
    ASSUME NEW next, NEW prev, NEW k \in Nat, NEW r, Ring(next, prev, r, k), k > 1
    PROVE  next[next[r[1]]] # next[r[1]] /\ next[r[1]] = r[2]
<1>1. 2 \in 1..k /\ next[r[1]] = r[2]
  BY DEF Ring
<1> QED
  BY <1>1, AloneInRing

\* A ring none of whose nodes is set stays as it is.
LEMMA RingElsewhere ==
    ASSUME NEW N, NEW next \in [N -> N], NEW prev \in [N -> N],
           NEW k \in Nat, NEW r \in [1..k -> N], Ring(next, prev, r, k),
           NEW x \in N, NEW a \in N, NEW y \in N, NEW b \in N, NEW v \in N, NEW w \in N,
           NEW e \in N, NEW g \in N,
           \A i \in 1..k : r[i] # x /\ r[i] # y /\ r[i] # v /\ r[i] # w
    PROVE  Ring(Set2(next, x, a, y, b), Set2(prev, v, e, w, g), r, k)
<1>1. \A i \in 1..k : r[i] \in N
  OBVIOUS
<1>2. /\ \A n \in N : Set2(next, x, a, y, b)[n] = IF n = y THEN b ELSE IF n = x THEN a ELSE next[n]
      /\ \A n \in N : Set2(prev, v, e, w, g)[n] = IF n = w THEN g ELSE IF n = v THEN e ELSE prev[n]
  BY DEF Set2
<1>3. \A i \in 1..k : /\ Set2(next, x, a, y, b)[r[i]] = next[r[i]]
                      /\ Set2(prev, v, e, w, g)[r[i]] = prev[r[i]]
  BY <1>1, <1>2
<1> QED
  BY <1>3, RingUntouched

\* TakeFreeList looks for the second node of the free ring, if it has one.
LEMMA FreeNodeIs ==
    ASSUME NEW l, NEW u, NEW f, Shape(l, u, f), l.size < l.capacity
    PROVE  /\ OnlyHeadLeft(l) <=> l.capacity - l.size = 1
           /\ FreeNode(l) = f[IF l.capacity - l.size = 1 THEN 1 ELSE 2]
           /\ (IF l.capacity - l.size = 1 THEN 1 ELSE 2) \in 1..(l.capacity - l.size)
<1> DEFINE k == l.capacity - l.size
<1>1. /\ l.capacity \in Nat /\ l.size \in 0..l.capacity /\ k \in Nat
      /\ l.free = IF l.size = l.capacity THEN HEAD_ID ELSE f[1]
      /\ Ring(l.next, l.prev, f, k)
  BY ShapeFacts
<1>2. k \in Nat /\ k >= 1 /\ l.free = f[1]
  BY <1>1
<1> HIDE DEF k
<1>3. OnlyHeadLeft(l) <=> k = 1
  <2>1. 1 \in 1..k
    BY <1>2
  <2>2. l.next[f[1]] = f[1] <=> k = 1
    BY <1>1, <1>2, <2>1, AloneInRing
  <2> QED
    BY <1>2, <2>2 DEF OnlyHeadLeft
<1>4. k # 1 => l.next[f[1]] = f[2]
  BY <1>1, <1>2 DEF Ring
<1>5. FreeNode(l) = f[IF k = 1 THEN 1 ELSE 2]
  BY <1>2, <1>3, <1>4 DEF FreeNode
<1>6. (IF k = 1 THEN 1 ELSE 2) \in 1..k
  BY <1>2
<1> QED
  BY <1>3, <1>5, <1>6 DEF k

\* What is left when the last free node has been taken.
LEMMA NoneFreeFields ==
    ASSUME NEW c \in Nat, NEW l \in ListOf(c), NEW n \in Places(c)
    PROVE  LET m == NoneFree(l, n)
           IN  /\ m \in ListOf(c)
               /\ m.next = Set2(l.next, n, 0, n, 0) /\ m.prev = Set2(l.prev, n, 0, n, 0)
               /\ m.status = l.status /\ m.data = l.data
               /\ m.free = HEAD_ID /\ m.size = l.size /\ m.capacity = l.capacity
<1>1. HEAD_ID \in Places(c) /\ 0 \in Places(c)
  BY HeadIsAPlace
<1>2. l.next \in [Places(c) -> Places(c)] /\ l.prev \in [Places(c) -> Places(c)]
  BY ListFields
<1>3. /\ Set2(l.next, n, 0, n, 0) \in [Places(c) -> Places(c)]
      /\ Set2(l.prev, n, 0, n, 0) \in [Places(c) -> Places(c)]
  BY <1>1, <1>2, TwoUpdates
<1>4. /\ [l.next EXCEPT ![n] = 0] = Set2(l.next, n, 0, n, 0)
      /\ [l.prev EXCEPT ![n] = 0] = Set2(l.prev, n, 0, n, 0)
  BY <1>2 DEF Set2
<1>5. NoneFree(l, n) = [l EXCEPT !.free = HEAD_ID, !.next = Set2(l.next, n, 0, n, 0),
                    !.prev = Set2(l.prev, n, 0, n, 0)]
  BY <1>4 DEF NoneFree
<1> QED
  BY <1>1, <1>3, <1>5 DEF ListOf

\* Two rings over the same links that have no node in common.
TwoRings(N, next, prev, u, s, f, k) ==
    /\ next \in [N -> N] /\ prev \in [N -> N] /\ 0 \in N
    /\ k \in Nat /\ f \in [1..k -> N] /\ Ring(next, prev, f, k)
    /\ s \in Nat /\ u \in [1..s -> N] /\ Ring(next, prev, u, s)
    /\ \A i \in 1..s, j \in 1..k : u[i] # f[j]

\* A node leaves the ring f.
LEMMA OneLeaves ==
    ASSUME NEW N, NEW next, NEW prev, NEW u, NEW s, NEW f, NEW k,
           TwoRings(N, next, prev, u, s, f, k), NEW q \in 1..k
    PROVE  LET n == f[q]
           IN  /\ n \in N /\ next[n] \in N /\ prev[n] \in N
               /\ next[n] = n <=> k = 1
               /\ prev[next[n]] = n /\ next[prev[n]] = n
               /\ Removed(f, k, q) \in [1..(k - 1) -> N]
               /\ k > 1 =>
                    /\ Ring(Set2(next, prev[n], next[n], n, 0),
                            Set2(prev, next[n], prev[n], n, 0), Removed(f, k, q), k - 1)
                    /\ Removed(f, k, q)[1] = IF n = f[1] THEN next[n] ELSE f[1]
               /\ Ring(Set2(next, prev[n], next[n], n, 0),
                       Set2(prev, next[n], prev[n], n, 0), u, s)
               /\ Ring(Set2(next, n, 0, n, 0), Set2(prev, n, 0, n, 0), u, s)
<1> DEFINE n == f[q]
<1>0. /\ next \in [N -> N] /\ prev \in [N -> N] /\ 0 \in N
      /\ k \in Nat /\ f \in [1..k -> N] /\ Ring(next, prev, f, k)
      /\ s \in Nat /\ u \in [1..s -> N] /\ Ring(next, prev, u, s)
      /\ \A i \in 1..s, j \in 1..k : u[i] # f[j]
  BY DEF TwoRings
<1>1. n \in N
  BY <1>0
<1>2. next[n] \in N /\ prev[n] \in N
  BY <1>0, <1>1
<1>3. next[n] = n <=> k = 1
  BY <1>0, AloneInRing
<1>4. prev[next[n]] = n /\ next[prev[n]] = n
  BY <1>0, LinksAreInverse
<1>5. Removed(f, k, q) \in [1..(k - 1) -> N]
  BY <1>0 DEF Removed
<1>6. ASSUME k > 1
      PROVE  Ring(Set2(next, prev[n], next[n], n, 0),
                  Set2(prev, next[n], prev[n], n, 0), Removed(f, k, q), k - 1)
  BY <1>0, <1>6, RingRemoved
<1>7. ASSUME k > 1
      PROVE  Removed(f, k, q)[1] = IF n = f[1] THEN next[n] ELSE f[1]
  <2>1. n = f[1] <=> q = 1
    BY <1>0, <1>7 DEF Ring
  <2>2. next[f[1]] = f[2]
    BY <1>0, <1>7 DEF Ring
  <2>3. Removed(f, k, q)[1] = IF q = 1 THEN f[2] ELSE f[1]
    BY <1>0, <1>7 DEF Removed
  <2> QED
    BY <2>1, <2>2, <2>3
<1>8. \A i \in 1..s : u[i] # n /\ u[i] # next[n] /\ u[i] # prev[n]
  <2>1. n \in Named(f, k) /\ next[n] \in Named(f, k) /\ prev[n] \in Named(f, k)
    BY <1>0, NeighboursInRing DEF Named
  <2> QED
    BY <1>0, <2>1 DEF Named
<1> HIDE DEF n
<1>9. Ring(Set2(next, prev[n], next[n], n, 0), Set2(prev, next[n], prev[n], n, 0), u, s)
  BY <1>0, <1>1, <1>2, <1>8, RingElsewhere
<1>10. Ring(Set2(next, n, 0, n, 0), Set2(prev, n, 0, n, 0), u, s)
  BY <1>0, <1>1, <1>2, <1>8, RingElsewhere
<1> QED
  BY <1>1, <1>2, <1>3, <1>4, <1>5, <1>6, <1>7, <1>9, <1>10 DEF n

\* What the node takes with it when it leaves the free ring.
LEMMA TakenNode ==
    ASSUME NEW l, NEW u, NEW f, Shape(l, u, f),
           NEW k \in Nat, k = l.capacity - l.size, NEW q \in 1..k
    PROVE  LET c == l.capacity
               t == TakeFreeList_indx(l, f[q])
           IN  /\ t \in ListOf(c)
               /\ t.status = l.status /\ t.data = l.data
               /\ t.size = l.size /\ t.capacity = c
               /\ t.free = IF k = 1 THEN HEAD_ID ELSE Removed(f, k, q)[1]
               /\ Removed(f, k, q) \in [1..(k - 1) -> Places(c)]
               /\ Ring(t.next, t.prev, u, l.size + 1)
               /\ Ring(t.next, t.prev, Removed(f, k, q), k - 1)
<1> DEFINE c == l.capacity
           s == l.size + 1
           n == f[q]
           f2 == Removed(f, k, q)
           t == TakeFreeList_indx(l, n)
<1>1. c \in Nat /\ k \in Nat /\ k >= 1 /\ s \in Nat /\ q \in 1..k /\ 0 \in Places(c)
  BY ShapeFacts, HeadIsAPlace
<1>2. l \in ListOf(c) /\ l.free = f[1]
  BY ShapeFacts
<1>3. l.next \in [Places(c) -> Places(c)] /\ l.prev \in [Places(c) -> Places(c)]
  BY ShapeFacts
<1>4. f \in [1..k -> Places(c)] /\ Ring(l.next, l.prev, f, k)
  BY ShapeFacts
<1>5. u \in [1..s -> Places(c)] /\ Ring(l.next, l.prev, u, s)
  BY ShapeFacts
<1>6. \A i \in 1..s, j \in 1..k : u[i] # f[j]
  BY NodesApart
<1> HIDE DEF c, s, n, f2, t
<1>7. /\ n \in Places(c) /\ l.next[n] \in Places(c) /\ l.prev[n] \in Places(c)
      /\ l.next[n] = n <=> k = 1
      /\ f2 \in [1..(k - 1) -> Places(c)]
      /\ k > 1 =>
           /\ Ring(Set2(l.next, l.prev[n], l.next[n], n, 0),
                   Set2(l.prev, l.next[n], l.prev[n], n, 0), f2, k - 1)
           /\ f2[1] = IF n = f[1] THEN l.next[n] ELSE f[1]
      /\ Ring(Set2(l.next, l.prev[n], l.next[n], n, 0),
              Set2(l.prev, l.next[n], l.prev[n], n, 0), u, s)
      /\ Ring(Set2(l.next, n, 0, n, 0), Set2(l.prev, n, 0, n, 0), u, s)
  <2> DEFINE nx == l.next
             pv == l.prev
  <2>1. /\ nx \in [Places(c) -> Places(c)] /\ pv \in [Places(c) -> Places(c)]
        /\ Ring(nx, pv, f, k) /\ Ring(nx, pv, u, s)
    BY <1>3, <1>4, <1>5
  <2> HIDE DEF nx, pv
  <2>2. /\ f[q] \in Places(c) /\ nx[f[q]] \in Places(c) /\ pv[f[q]] \in Places(c)
        /\ nx[f[q]] = f[q] <=> k = 1
        /\ Removed(f, k, q) \in [1..(k - 1) -> Places(c)]
        /\ k > 1 =>
             /\ Ring(Set2(nx, pv[f[q]], nx[f[q]], f[q], 0),
                     Set2(pv, nx[f[q]], pv[f[q]], f[q], 0), Removed(f, k, q), k - 1)
             /\ Removed(f, k, q)[1] = IF f[q] = f[1] THEN nx[f[q]] ELSE f[1]
        /\ Ring(Set2(nx, pv[f[q]], nx[f[q]], f[q], 0),
                Set2(pv, nx[f[q]], pv[f[q]], f[q], 0), u, s)
        /\ Ring(Set2(nx, f[q], 0, f[q], 0), Set2(pv, f[q], 0, f[q], 0), u, s)
    <3>1. TwoRings(Places(c), nx, pv, u, s, f, k)
      BY <1>1, <1>4, <1>5, <1>6, <2>1 DEF TwoRings
    <3> QED
      BY <1>1, <3>1, OneLeaves
  <2> QED
    BY <2>2 DEF n, f2, nx, pv
<1>8. CASE k = 1
  <2>1. t = NoneFree(l, n)
    BY <1>7, <1>8 DEF TakeFreeList_indx, t
  <2>2. /\ t \in ListOf(c)
        /\ t.next = Set2(l.next, n, 0, n, 0) /\ t.prev = Set2(l.prev, n, 0, n, 0)
        /\ t.status = l.status /\ t.data = l.data
        /\ t.free = HEAD_ID /\ t.size = l.size /\ t.capacity = l.capacity
    BY <2>1, <1>1, <1>2, <1>7, NoneFreeFields
  <2>3. Ring(t.next, t.prev, f2, k - 1)
    BY <1>8 DEF Ring
  <2> QED
    BY <1>7, <1>8, <2>2, <2>3 DEF c, n, s, t, f2
<1>9. CASE k # 1
  <2> DEFINE m == Unlink(l, n)
  <2>1. k > 1 /\ l.free \in Places(c)
    BY <1>1, <1>2, <1>9, ListFields
  <2>2. /\ m \in ListOf(c)
        /\ m.next = Set2(l.next, l.prev[n], l.next[n], n, 0)
        /\ m.prev = Set2(l.prev, l.next[n], l.prev[n], n, 0)
        /\ m.status = l.status /\ m.data = l.data
        /\ m.free = l.free /\ m.size = l.size /\ m.capacity = l.capacity
    BY <1>1, <1>2, <1>7, UnlinkFields
  <2>3. t = [m EXCEPT !.free = IF n = @ THEN l.next[n] ELSE @]
    BY <1>7, <1>9 DEF TakeFreeList_indx, t
  <2> HIDE DEF m
  <2>4. /\ t \in ListOf(c)
        /\ t.next = m.next /\ t.prev = m.prev /\ t.status = m.status /\ t.data = m.data
        /\ t.free = (IF n = l.free THEN l.next[n] ELSE l.free)
        /\ t.size = m.size /\ t.capacity = m.capacity
    BY <1>7, <2>1, <2>2, <2>3 DEF ListOf
  <2> QED
    BY <1>2, <1>7, <1>9, <2>1, <2>2, <2>4 DEF c, n, s, t, f2
<1> QED
  BY <1>8, <1>9 DEF c, s, n, f2, t

\* TakeFreeList takes the node that follows the head of the free ring, or the
\* head when it is alone.
LEMMA TakeFreeListTakes ==
    ASSUME NEW l, NEW u, NEW f, Shape(l, u, f), l.size < l.capacity
    PROVE  TakeFreeList(l) = TakeFreeList_indx(l, FreeNode(l))
<1> DEFINE c == l.capacity
           k == c - l.size
           s == l.size + 1
           e == l.free
           n == l.next[e]
<1>1. c \in Nat /\ k \in Nat /\ k >= 1 /\ s \in Nat /\ 1 \in 1..k /\ 0 \in Places(c)
  BY ShapeFacts, HeadIsAPlace
<1>2. l \in ListOf(c) /\ e = f[1]
  BY ShapeFacts
<1>3. l.next \in [Places(c) -> Places(c)] /\ l.prev \in [Places(c) -> Places(c)]
  BY ShapeFacts
<1>4. f \in [1..k -> Places(c)] /\ Ring(l.next, l.prev, f, k)
  BY ShapeFacts
<1>5. OnlyHeadLeft(l) <=> k = 1
  BY FreeNodeIs
<1>6. FreeNode(l) = IF k = 1 THEN e ELSE n
  BY <1>5 DEF FreeNode
<1> HIDE DEF c, k, s
<1>7. k = 1 <=> n = e
  <2>1. ASSUME NEW next, NEW prev, Ring(next, prev, f, k)
        PROVE  next[f[1]] = f[1] <=> k = 1
    BY <1>1, <2>1, AloneInRing
  <2> QED
    BY <1>2, <1>4, <2>1
<1>8. CASE k = 1
  BY <1>5, <1>6, <1>7, <1>8 DEF TakeFreeList, TakeFreeList_indx
<1>9. CASE k # 1
  <2> HIDE DEF e
  <2>1. e \in Places(c) /\ n \in Places(c)
    BY <1>2, <1>3, <1>1, <1>4
  <2>2. l.prev[n] = e
    BY <1>1, <1>2, <1>4, LinksAreInverse
  <2>3. n # e
    BY <1>7, <1>9
  <2>4. l.next[n] # n
    BY <1>1, <1>2, <1>4, <1>9, SecondInRing
  <2>5. TakeFreeList(l) = Unlink(l, n)
    <3>1. DeleteRight(l, e) = Unlink(l, n)
      BY <1>1, <1>2, <2>1, <2>2, DeleteRightUnlinks
    <3> QED
      BY <1>5, <1>9, <3>1 DEF TakeFreeList, e
  <2> DEFINE m == Unlink(l, n)
  <2>6. m \in ListOf(c) /\ m.free = e
    BY <1>1, <1>2, <2>1, UnlinkFields DEF e
  <2>7. TakeFreeList_indx(l, n) = [m EXCEPT !.free = IF n = @ THEN l.next[n] ELSE @]
    BY <2>4 DEF TakeFreeList_indx
  <2> HIDE DEF m, n
  <2>8. [m EXCEPT !.free = IF n = @ THEN l.next[n] ELSE @] = m
    BY <2>3, <2>6 DEF ListOf
  <2> QED
    BY <1>6, <1>9, <2>5, <2>7, <2>8 DEF m
<1> QED
  BY <1>8, <1>9

\* What is left of a ring is of the ring, and is not the node that left.
LEMMA RemovedIsOther ==
    ASSUME NEW k \in Nat, NEW f, NEW next, NEW prev, Ring(next, prev, f, k),
           NEW q \in 1..k, NEW i \in 1..(k - 1)
    PROVE  Removed(f, k, q)[i] # f[q] /\ \E j \in 1..k : Removed(f, k, q)[i] = f[j]
<1>1. CASE i < q
  <2>1. Removed(f, k, q)[i] = f[i] /\ i \in 1..k /\ i # q
    BY <1>1 DEF Removed
  <2> QED
    BY <2>1 DEF Ring
<1>2. CASE i >= q
  <2>1. Removed(f, k, q)[i] = f[i + 1] /\ i + 1 \in 1..k /\ i + 1 # q
    BY <1>2 DEF Removed
  <2> QED
    BY <2>1 DEF Ring
<1> QED
  BY <1>1, <1>2

\* A node that was taken from the free ring and engaged goes into the list
\* behind the one at place p.
LEMMA NodeEngaged ==
    ASSUME NEW l, NEW u, NEW f, Shape(l, u, f),
           NEW k \in Nat, k = l.capacity - l.size, NEW q \in 1..k,
           NEW s \in Nat, s = l.size + 1, NEW p \in 1..s,
           NEW e \in ListOf(l.capacity),
           e.next = TakeFreeList_indx(l, f[q]).next, e.prev = TakeFreeList_indx(l, f[q]).prev,
           e.free = TakeFreeList_indx(l, f[q]).free, e.size = s,
           e.status = [l.status EXCEPT ![f[q]] = "ENGAGED"]
    PROVE  Shape(InsertRight(e, f[q], u[p]), Inserted(u, s, p, f[q]), Removed(f, k, q))
<1> DEFINE c == l.capacity
           n == f[q]
           u2 == Inserted(u, s, p, n)
           f2 == Removed(f, k, q)
           m == InsertRight(e, n, u[p])
<1>1. /\ c \in Nat /\ l.size \in 0..c /\ l.size \in Nat /\ k >= 1
      /\ l.status \in [Places(c) -> {"FREE", "ENGAGED", "MASTER"}]
      /\ u[1] = HEAD_ID /\ Covered(l.status, c, l.size, u, f)
  BY ShapeFacts
<1>2. u \in [1..s -> Places(c)] /\ f \in [1..k -> Places(c)]
  BY ShapeFacts
<1>3. \A i \in 1..s, j \in 1..k : u[i] # f[j]
  BY NodesApart
<1>4. \A i, j \in 1..k : f[i] = f[j] => i = j
  BY ShapeFacts DEF Ring
<1>5. n \in Places(c) /\ u[p] \in Places(c)
  BY <1>2
<1>6. /\ e.free = IF k = 1 THEN HEAD_ID ELSE f2[1]
      /\ f2 \in [1..(k - 1) -> Places(c)]
      /\ Ring(e.next, e.prev, u, s) /\ Ring(e.next, e.prev, f2, k - 1)
  BY TakenNode
<1>7. e \in ListOf(c) /\ e.next \in [Places(c) -> Places(c)] /\ e.prev \in [Places(c) -> Places(c)]
  BY <1>1, ListFields
<1>8. /\ m \in ListOf(c)
      /\ m.next = Set2(e.next, u[p], n, n, e.next[u[p]])
      /\ m.prev = Set2(e.prev, n, u[p], e.next[u[p]], n)
      /\ m.status = e.status /\ m.free = e.free /\ m.size = s /\ m.capacity = c
  <2>1. e.capacity = c
    BY <1>1, <1>7, ListFields
  <2> HIDE DEF c, n
  <2>2. c \in Nat /\ n \in Places(c) /\ u[p] \in Places(c) /\ e \in ListOf(c)
    BY <1>1, <1>5, <1>7
  <2>3. /\ m \in ListOf(c)
        /\ m.next = Set2(e.next, u[p], n, n, e.next[u[p]])
        /\ m.prev = Set2(e.prev, n, u[p], e.next[u[p]], n)
        /\ m.status = e.status /\ m.free = e.free /\ m.size = e.size
        /\ m.capacity = e.capacity
    BY <2>2, InsertRightFields DEF m
  <2> QED
    BY <2>1, <2>3
<1> HIDE DEF m
<1>9. u2 \in [1..(s + 1) -> Places(c)] /\ Ring(m.next, m.prev, u2, s + 1)
  <2> DEFINE nx == e.next
             pv == e.prev
  <2>1. /\ nx \in [Places(c) -> Places(c)] /\ pv \in [Places(c) -> Places(c)]
        /\ Ring(nx, pv, u, s)
    BY <1>6, <1>7
  <2>2. \A i \in 1..s : u[i] # n
    BY <1>3
  <2> HIDE DEF nx, pv, n
  <2>3. /\ Inserted(u, s, p, n) \in [1..(s + 1) -> Places(c)]
        /\ Ring(Set2(nx, u[p], n, n, nx[u[p]]), Set2(pv, n, u[p], nx[u[p]], n),
                Inserted(u, s, p, n), s + 1)
    BY <1>2, <1>5, <2>1, <2>2, RingInserted
  <2> QED
    BY <1>8, <2>3 DEF nx, pv
<1>10. Ring(m.next, m.prev, f2, k - 1)
  <2> DEFINE nx == e.next
             pv == e.prev
             a == nx[u[p]]
  <2>1. /\ nx \in [Places(c) -> Places(c)] /\ pv \in [Places(c) -> Places(c)]
        /\ Ring(nx, pv, u, s) /\ Ring(nx, pv, f2, k - 1)
    BY <1>6, <1>7
  <2>2. a \in Places(c)
    BY <1>5, <2>1
  <2>3. PICK j \in 1..s : a = u[j]
    <3>1. a \in Named(u, s)
      BY <2>1, NeighboursInRing
    <3> QED
      BY <3>1 DEF Named
  <2>4. k - 1 \in Nat
    BY <1>1
  <2>5. \A i \in 1..(k - 1) : f2[i] # u[p] /\ f2[i] # n /\ f2[i] # a
    <3>1. ASSUME NEW i \in 1..(k - 1)
          PROVE  f2[i] # u[p] /\ f2[i] # n /\ f2[i] # a
      <4>1. f2[i] # n /\ \E x \in 1..k : f2[i] = f[x]
        <5>1. Ring(l.next, l.prev, f, k)
          BY ShapeFacts
        <5> QED
          BY <5>1, RemovedIsOther
      <4>2. PICK x \in 1..k : f2[i] = f[x]
        BY <4>1
      <4> QED
        BY <1>3, <2>3, <4>1, <4>2
    <3> QED
      BY <3>1
  <2> DEFINE b == u[p]
             N == Places(c)
             h == k - 1
  <2>6. /\ n \in N /\ b \in N /\ a \in N /\ nx \in [N -> N] /\ pv \in [N -> N]
        /\ h \in Nat /\ f2 \in [1..h -> N] /\ Ring(nx, pv, f2, h)
        /\ \A i \in 1..h : f2[i] # b /\ f2[i] # n /\ f2[i] # a
    BY <1>5, <1>6, <2>1, <2>2, <2>4, <2>5
  <2> HIDE DEF nx, pv, n, a, f2, b, N, h
  <2>7. Ring(Set2(nx, b, n, n, a), Set2(pv, n, b, a, n), f2, h)
    BY <2>6, RingElsewhere
  <2> QED
    BY <1>8, <2>7 DEF nx, pv, a, b, h
<1>11. Covered(m.status, c, s, u2, f2)
  <2> DEFINE size == l.size
             status == l.status
             status2 == m.status
             S == {"FREE", "ENGAGED", "MASTER"}
  <2>1. /\ size \in 0..c /\ status \in [Places(c) -> S] /\ s = size + 1 /\ k = c - size
        /\ status2 = [status EXCEPT ![f[q]] = "ENGAGED"]
        /\ Covered(status, c, size, u, f)
        /\ u \in [1..(size + 1) -> Places(c)] /\ f \in [1..(c - size) -> Places(c)]
        /\ \A i, j \in 1..(c - size) : f[i] = f[j] => i = j
        /\ \A i \in 1..(size + 1), j \in 1..(c - size) : u[i] # f[j]
        /\ p \in 1..(size + 1) /\ q \in 1..(c - size)
    BY <1>1, <1>2, <1>3, <1>4, <1>8
  <2> HIDE DEF size, status, status2, S, c
  <2>2. Covered(status2, c, size + 1, Inserted(u, size + 1, p, f[q]), Removed(f, c - size, q))
    BY <1>1, <2>1, EngagedIsCovered
  <2> QED
    BY <2>1, <2>2 DEF status2
<1>12. k - 1 = c - s /\ u2[1] = HEAD_ID
  BY <1>1 DEF Inserted
<1>13. m.free = IF m.size = c THEN HEAD_ID ELSE f2[1]
  BY <1>1, <1>6, <1>8
<1> HIDE DEF u2, f2
<1> QED
  BY <1>1, <1>6, <1>8, <1>9, <1>10, <1>11, <1>12, <1>13 DEF Shape, Nodes, m, u2, f2

\* A used node that has left its ring, before it enters the free one.
Leaving(l, n) ==
    [l EXCEPT !.size = @ - 1, !.status = [@ EXCEPT ![n] = "FREE"],
              !.data = [@ EXCEPT ![n] = ZeroData]]

\* What the node's leaving does to each field.
LEMMA LeavingFields ==
    ASSUME NEW c \in Nat, NEW l \in ListOf(c), NEW n \in Places(c), l.size > 0
    PROVE  LET m == Leaving(l, n)
           IN  /\ m \in ListOf(c)
               /\ m.next = l.next /\ m.prev = l.prev
               /\ m.status = [l.status EXCEPT ![n] = "FREE"]
               /\ m.data = [l.data EXCEPT ![n] = ZeroData]
               /\ m.free = l.free /\ m.size = l.size - 1 /\ m.capacity = c
<1> DEFINE status == [l.status EXCEPT ![n] = "FREE"]
           data == [l.data EXCEPT ![n] = ZeroData]
<1>1. /\ status \in [Places(c) -> {"FREE", "ENGAGED", "MASTER"}]
      /\ data \in [Places(c) -> Data \cup {ZeroData}]
      /\ l.size - 1 \in 0..c
  BY ListFields
<1>2. Leaving(l, n) = [l EXCEPT !.size = @ - 1, !.status = status, !.data = data]
  BY DEF Leaving, ListOf
<1> HIDE DEF status, data
<1> QED
  BY <1>1, <1>2 DEF ListOf, status, data

\* What InsertFreeList does when there is no free node yet.
Alone(l, n) == [l EXCEPT !.free = n, !.next[n] = n, !.prev[n] = n]

\* What InsertFreeList does to each field of a full list.
LEMMA AloneFields ==
    ASSUME NEW c \in Nat, NEW l \in ListOf(c), NEW n \in Places(c)
    PROVE  LET m == Alone(l, n)
           IN  /\ m \in ListOf(c)
               /\ m.next = Set2(l.next, n, n, n, n) /\ m.prev = Set2(l.prev, n, n, n, n)
               /\ m.status = l.status /\ m.data = l.data
               /\ m.free = n /\ m.size = l.size /\ m.capacity = c
<1>1. l.next \in [Places(c) -> Places(c)] /\ l.prev \in [Places(c) -> Places(c)]
  BY ListFields
<1>2. /\ Set2(l.next, n, n, n, n) \in [Places(c) -> Places(c)]
      /\ Set2(l.prev, n, n, n, n) \in [Places(c) -> Places(c)]
  BY <1>1, TwoUpdates
<1>3. /\ [l.next EXCEPT ![n] = n] = Set2(l.next, n, n, n, n)
      /\ [l.prev EXCEPT ![n] = n] = Set2(l.prev, n, n, n, n)
  BY <1>1 DEF Set2
<1>4. Alone(l, n) = [l EXCEPT !.free = n, !.next = Set2(l.next, n, n, n, n),
                         !.prev = Set2(l.prev, n, n, n, n)]
  BY <1>3 DEF Alone
<1> QED
  BY <1>2, <1>4 DEF ListOf

\* What Freed does before it looks at the size of the array.
Unused(l, n) == InsertFreeList([DeleteRight(l, l.prev[n]) EXCEPT !.size = @ - 1], n)

\* The used node at place p of the list becomes the last one of the free ring.
LEMMA NodeFreed ==
    ASSUME NEW l, NEW u, NEW f, Shape(l, u, f),
           NEW k \in Nat, k = l.capacity - l.size,
           NEW s \in Nat, s = l.size + 1, NEW p \in 2..s
    PROVE  LET m == Unused(l, u[p])
           IN  /\ Shape(m, Removed(u, s, p), Inserted(f, k, k, u[p]))
               /\ m.capacity = l.capacity /\ m.size = l.size - 1
               /\ m.data = Set1(l.data, u[p], ZeroData)
<1> DEFINE c == l.capacity
           n == u[p]
           u2 == Removed(u, s, p)
           f2 == Inserted(f, k, k, n)
           d == Unlink(l, n)
           g == Leaving(d, n)
           m == Unused(l, n)
<1>1. /\ c \in Nat /\ l.size \in 0..c /\ l.size \in Nat /\ l.size > 0
      /\ l.status \in [Places(c) -> {"FREE", "ENGAGED", "MASTER"}]
      /\ u[1] = HEAD_ID /\ Covered(l.status, c, l.size, u, f)
      /\ l \in ListOf(c) /\ l.free = IF k = 0 THEN HEAD_ID ELSE f[1]
      /\ p \in 1..s /\ s > 1 /\ 1 \in 1..s
  <2>1. /\ c \in Nat /\ l.size \in 0..c
        /\ l.status \in [Places(c) -> {"FREE", "ENGAGED", "MASTER"}]
        /\ u[1] = HEAD_ID /\ Covered(l.status, c, l.size, u, f)
        /\ l \in ListOf(c) /\ l.free = IF l.size = c THEN HEAD_ID ELSE f[1]
    BY ShapeFacts
  <2>2. (k = 0 <=> l.size = c) /\ s > 1 /\ l.size > 0
    BY <2>1
  <2> QED
    BY <2>1, <2>2
<1>2. u \in [1..s -> Places(c)] /\ f \in [1..k -> Places(c)] /\ n \in Places(c)
  BY <1>1, ShapeFacts
<1>3. \A i \in 1..s, j \in 1..k : u[i] # f[j]
  BY NodesApart
<1>4. l.next \in [Places(c) -> Places(c)] /\ l.prev \in [Places(c) -> Places(c)]
  BY ShapeFacts
<1>5. Ring(l.next, l.prev, u, s) /\ Ring(l.next, l.prev, f, k)
  BY ShapeFacts
<1>6. /\ l.prev[n] \in Places(c)
      /\ l.next[l.prev[n]] = n
      /\ u2 \in [1..(s - 1) -> Places(c)]
      /\ Ring(Set2(l.next, l.prev[n], l.next[n], n, 0),
              Set2(l.prev, l.next[n], l.prev[n], n, 0), u2, s - 1)
      /\ Ring(Set2(l.next, l.prev[n], l.next[n], n, 0),
              Set2(l.prev, l.next[n], l.prev[n], n, 0), f, k)
  <2> DEFINE nx == l.next
             pv == l.prev
             N == Places(c)
  <2>1. TwoRings(N, nx, pv, f, k, u, s)
    BY <1>1, <1>2, <1>3, <1>4, <1>5, HeadIsAPlace DEF TwoRings
  <2> HIDE DEF nx, pv, N
  <2>2. /\ pv[u[p]] \in N /\ nx[pv[u[p]]] = u[p]
        /\ Removed(u, s, p) \in [1..(s - 1) -> N]
        /\ Ring(Set2(nx, pv[u[p]], nx[u[p]], u[p], 0),
                Set2(pv, nx[u[p]], pv[u[p]], u[p], 0), Removed(u, s, p), s - 1)
        /\ Ring(Set2(nx, pv[u[p]], nx[u[p]], u[p], 0),
                Set2(pv, nx[u[p]], pv[u[p]], u[p], 0), f, k)
    BY <1>1, <2>1, OneLeaves
  <2> QED
    BY <2>2 DEF nx, pv, N
<1> HIDE DEF c, n, u2
<1>7. DeleteRight(l, l.prev[n]) = d
  BY <1>1, <1>2, <1>6, DeleteRightUnlinks
<1>8. /\ d \in ListOf(c) /\ d.size > 0
      /\ d.next = Set2(l.next, l.prev[n], l.next[n], n, 0)
      /\ d.prev = Set2(l.prev, l.next[n], l.prev[n], n, 0)
      /\ d.status = l.status /\ d.data = l.data
      /\ d.free = l.free /\ d.size = l.size
  BY <1>1, <1>2, UnlinkFields
<1> HIDE DEF d
<1>9. /\ g \in ListOf(c)
      /\ g.next = d.next /\ g.prev = d.prev
      /\ g.status = [l.status EXCEPT ![n] = "FREE"]
      /\ g.data = [l.data EXCEPT ![n] = ZeroData]
      /\ g.free = l.free /\ g.size = l.size - 1 /\ g.capacity = c
  <2>1. c \in Nat /\ n \in Places(c) /\ d \in ListOf(c) /\ d.size > 0
    BY <1>1, <1>2, <1>8
  <2> HIDE DEF g
  <2>2. /\ g \in ListOf(c)
        /\ g.next = d.next /\ g.prev = d.prev
        /\ g.status = [d.status EXCEPT ![n] = "FREE"]
        /\ g.data = [d.data EXCEPT ![n] = ZeroData]
        /\ g.free = d.free /\ g.size = d.size - 1 /\ g.capacity = c
    BY <2>1, LeavingFields DEF g
  <2> QED
    BY <1>8, <2>2
<1>10. m = IF g.free = HEAD_ID
           THEN Alone(g, n)
           ELSE InsertLeft(g, n, g.free)
  <2>1. g = [[d EXCEPT !.size = @ - 1] EXCEPT !.status[n] = "FREE", !.data[n] = ZeroData]
    BY <1>8 DEF Leaving, ListOf
  <2> QED
    BY <1>7, <2>1 DEF Unused, InsertFreeList, Alone
<1> HIDE DEF g, m
<1>11. /\ g.next \in [Places(c) -> Places(c)] /\ g.prev \in [Places(c) -> Places(c)]
       /\ Ring(g.next, g.prev, u2, s - 1) /\ Ring(g.next, g.prev, f, k)
  BY <1>1, <1>6, <1>8, <1>9, ListFields
<1>12. \A i \in 1..(s - 1) : /\ u2[i] # n /\ \E j \in 1..s : u2[i] = u[j]
  <2>1. ASSUME NEW i \in 1..(s - 1)
        PROVE  u2[i] # n /\ \E j \in 1..s : u2[i] = u[j]
    <3>1. /\ Removed(u, s, p)[i] # u[p]
          /\ \E j \in 1..s : Removed(u, s, p)[i] = u[j]
      <4>1. p \in 1..s /\ i \in 1..(s - 1)
        BY <1>1
      <4>2. Ring(l.next, l.prev, u, s)
        BY <1>5
      <4> QED
        BY <4>1, <4>2, RemovedIsOther
    <3> QED
      BY <3>1 DEF u2, n
  <2> QED
    BY <2>1
<1>13. /\ m \in ListOf(c) /\ m.status = g.status /\ m.data = g.data /\ m.size = g.size
       /\ m.capacity = c /\ m.free = f2[1]
       /\ f2 \in [1..(k + 1) -> Places(c)]
       /\ Ring(m.next, m.prev, f2, k + 1) /\ Ring(m.next, m.prev, u2, s - 1)
  <2> DEFINE nx == g.next
             pv == g.prev
             N == Places(c)
             h == s - 1
  <2>1. /\ nx \in [N -> N] /\ pv \in [N -> N] /\ n \in N /\ 0 \in N
        /\ h \in Nat /\ u2 \in [1..h -> N] /\ Ring(nx, pv, u2, h)
        /\ f \in [1..k -> N] /\ Ring(nx, pv, f, k)
        /\ \A i \in 1..k : f[i] # n
        /\ \A i \in 1..h : u2[i] # n
    <3>1. nx \in [N -> N] /\ pv \in [N -> N] /\ n \in N /\ 0 \in N
      BY <1>1, <1>2, <1>6, <1>11, HeadIsAPlace DEF n
    <3>2. h \in Nat /\ u2 \in [1..h -> N] /\ Ring(nx, pv, u2, h)
      <4>1. h \in Nat
        BY <1>1
      <4>2. u2 \in [1..(s - 1) -> Places(c)] /\ Ring(g.next, g.prev, u2, s - 1)
        BY <1>6, <1>11
      <4> QED
        BY <4>1, <4>2
    <3>3. f \in [1..k -> N] /\ Ring(nx, pv, f, k) /\ \A i \in 1..k : f[i] # n
      BY <1>1, <1>2, <1>3, <1>6, <1>11, <1>12 DEF n
    <3>4. \A i \in 1..h : u2[i] # n
      BY <1>1, <1>3, <1>12 DEF n
    <3> QED
      BY <3>1, <3>2, <3>3, <3>4
  <2>2. CASE k = 0
    <3>1. g.free = HEAD_ID
      BY <1>1, <1>9, <2>2
    <3>2. m = Alone(g, n)
      BY <1>10, <3>1
    <3>3. /\ m \in ListOf(c) /\ m.status = g.status /\ m.data = g.data /\ m.size = g.size
          /\ m.capacity = c /\ m.free = n
          /\ m.next = Set2(g.next, n, n, n, n) /\ m.prev = Set2(g.prev, n, n, n, n)
      <4> DEFINE w == Alone(g, n)
      <4>1. c \in Nat /\ g \in ListOf(c) /\ n \in Places(c)
        BY <1>1, <1>2, <1>9
      <4>2. /\ w \in ListOf(c) /\ w.status = g.status /\ w.data = g.data /\ w.size = g.size
            /\ w.capacity = c /\ w.free = n
            /\ w.next = Set2(g.next, n, n, n, n) /\ w.prev = Set2(g.prev, n, n, n, n)
        BY <4>1, AloneFields
      <4> HIDE DEF w
      <4> QED
        BY <3>2, <4>2 DEF w
    <3> HIDE DEF nx, pv, N, h, f2
    <3>4. Ring(Set2(nx, n, n, n, n), Set2(pv, n, n, n, n), u2, h)
      BY <2>1, RingElsewhere
    <3>5. f2 \in [1..1 -> N] /\ f2[1] = n
      BY <2>1, <2>2 DEF f2, Inserted
    <3>6. Ring(Set2(nx, n, n, n, n), Set2(pv, n, n, n, n), f2, 1)
      BY <2>1, <3>5 DEF Set2, Ring
    <3> QED
      BY <2>2, <3>3, <3>4, <3>5, <3>6 DEF nx, pv, N, h
  <2>3. CASE k # 0
    <3> DEFINE a == f[1]
               b == f[k]
    <3>1. 1 \in 1..k /\ k \in 1..k
      BY <2>3
    <3>2. /\ g.free = a /\ g.free # HEAD_ID
      BY <1>1, <1>3, <1>9, <2>3, <3>1
    <3>3. a \in N /\ b \in N /\ a # n /\ b # n
      BY <2>1, <3>1
    <3>4. pv[a] = b /\ nx[b] = a
      BY <2>1, <3>1 DEF Ring
    <3>5. m = InsertRight(g, n, b)
      <4>1. m = InsertLeft(g, n, a)
        BY <1>10, <3>2
      <4> HIDE DEF a, b
      <4>2. InsertLeft(g, n, a) = InsertRight(g, n, g.prev[a])
        BY <1>1, <1>2, <1>9, <3>3, <3>4, InsertLeftIsRight
      <4> QED
        BY <3>4, <4>1, <4>2
    <3> HIDE DEF a, b
    <3>6. /\ m \in ListOf(c) /\ m.status = g.status /\ m.data = g.data /\ m.size = g.size
          /\ m.capacity = c /\ m.free = a
          /\ m.next = Set2(g.next, b, n, n, g.next[b])
          /\ m.prev = Set2(g.prev, n, b, g.next[b], n)
      <4> DEFINE w == InsertRight(g, n, b)
      <4>1. c \in Nat /\ g \in ListOf(c) /\ n \in Places(c) /\ b \in Places(c)
        BY <1>1, <1>2, <1>9, <3>3
      <4>2. /\ w \in ListOf(c) /\ w.status = g.status /\ w.data = g.data /\ w.size = g.size
            /\ w.capacity = g.capacity /\ w.free = g.free
            /\ w.next = Set2(g.next, b, n, n, g.next[b])
            /\ w.prev = Set2(g.prev, n, b, g.next[b], n)
        BY <4>1, InsertRightFields
      <4> HIDE DEF w
      <4> QED
        BY <1>9, <3>2, <3>5, <4>2 DEF w
    <3> HIDE DEF nx, pv, N, h, f2
    <3>7. /\ Inserted(f, k, k, n) \in [1..(k + 1) -> N]
          /\ Ring(Set2(nx, b, n, n, nx[b]), Set2(pv, n, b, nx[b], n), Inserted(f, k, k, n), k + 1)
      <4>1. k \in 1..k /\ b = f[k] /\ k \in Nat
        BY <3>1 DEF b
      <4> HIDE DEF b
      <4> QED
        BY <2>1, <4>1, RingInserted, ZenonT(60)
    <3>8. \A i \in 1..h : u2[i] # n /\ u2[i] # a /\ u2[i] # b
      BY <1>3, <1>12, <3>1 DEF a, b, h
    <3>9. Ring(Set2(nx, b, n, n, a), Set2(pv, n, b, a, n), u2, h)
      BY <2>1, <3>3, <3>8, RingElsewhere
    <3>10. f2[1] = a
      BY <3>1 DEF f2, Inserted, a
    <3> QED
      BY <3>4, <3>6, <3>7, <3>9, <3>10 DEF nx, pv, N, h, f2
  <2> QED
    BY <2>2, <2>3
<1>14. Covered(m.status, c, l.size - 1, u2, f2)
  <2> DEFINE size == l.size
             status == l.status
             status2 == m.status
             S == {"FREE", "ENGAGED", "MASTER"}
  <2>1. /\ size \in 0..c /\ status \in [Places(c) -> S]
        /\ status2 = [status EXCEPT ![u[p]] = "FREE"]
        /\ Covered(status, c, size, u, f)
        /\ u \in [1..(size + 1) -> Places(c)] /\ f \in [1..(c - size) -> Places(c)]
        /\ \A i, j \in 1..(size + 1) : u[i] = u[j] => i = j
        /\ \A i \in 1..(size + 1), j \in 1..(c - size) : u[i] # f[j]
        /\ p \in 2..(size + 1) /\ s = size + 1 /\ k = c - size
    <3>1. size \in 0..c /\ p \in 2..(size + 1) /\ s = size + 1 /\ k = c - size
      BY <1>1 DEF c
    <3>2. /\ status \in [Places(c) -> S] /\ Covered(status, c, size, u, f)
          /\ u \in [1..(size + 1) -> Places(c)] /\ f \in [1..(c - size) -> Places(c)]
      BY <1>1, <1>2, <3>1
    <3>3. \A i, j \in 1..(size + 1) : u[i] = u[j] => i = j
      BY <1>5, <3>1 DEF Ring
    <3>4. \A i \in 1..(size + 1), j \in 1..(c - size) : u[i] # f[j]
      BY <1>3, <3>1
    <3>5. status2 = [status EXCEPT ![u[p]] = "FREE"]
      BY <1>5, <1>9, <1>13 DEF n, c
    <3> QED
      BY <3>1, <3>2, <3>3, <3>4, <3>5
  <2> HIDE DEF size, status, status2, S
  <2>2. Covered(status2, c, size - 1, Removed(u, size + 1, p),
                Inserted(f, c - size, c - size, u[p]))
    BY <1>1, <2>1, FreedIsCovered
  <2> QED
    BY <2>1, <2>2 DEF status2, size, u2, n
<1>15. u2[1] = HEAD_ID
  BY <1>1 DEF u2, Removed
<1>16. m.size = l.size - 1 /\ m.size \in 0..c /\ m.size # c /\ s - 1 = m.size + 1 /\ k + 1 = c - m.size
  <2>1. m.size = l.size - 1
    BY <1>9, <1>13
  <2>2. k = c - l.size
    BY DEF c
  <2> HIDE DEF f2
  <2> QED
    BY <1>1, <2>1, <2>2
<1> HIDE DEF f2
<1>17. Shape(m, u2, f2)
  BY <1>1, <1>6, <1>13, <1>14, <1>15, <1>16 DEF Shape, Nodes
<1> QED
  BY <1>9, <1>13, <1>16, <1>17 DEF m, n, c, u2, f2, Set1

\* The free ring of the nodes behind size.
Behind(size, last) == [i \in 1..(last - size) |-> size + i]

\* The used nodes are 0..size, and u names them.
UsedInFront(l, u, size) ==
    /\ u \in [1..(size + 1) -> 0..size] /\ u[1] = HEAD_ID
    /\ \A n \in 1..size : \E i \in 2..(size + 1) : u[i] = n
    /\ l.status[HEAD_ID] = "MASTER"
    /\ \A n \in 1..size : l.status[n] = "ENGAGED"
    /\ Ring(l.next, l.prev, u, size + 1)

\* m is l in an array that ends at last.
ResizedTo(m, l, u, size, last) ==
    /\ Shape(m, u, Behind(size, last)) /\ m.capacity = last /\ m.size = size
    /\ \A n \in 0..size : m.data[n] = l.data[n] /\ m.status[n] = l.status[n]

\* When the used nodes are 0..size, the array can be cut or extended behind them.
LEMMA FreeRingBehind ==
    ASSUME NEW c \in Nat, NEW l \in ListOf(c), NEW size \in Nat, size = l.size,
           NEW last \in Nat, size <= last,
           NEW u, UsedInFront(l, u, size)
    PROVE  ResizedTo(WithFreeRing(l, size + 1, last), l, u, size, last)
<1> DEFINE m == WithFreeRing(l, size + 1, last)
           f == Behind(size, last)
           k == last - size
           s == size + 1
<1>1. size \in 0..c /\ k \in Nat /\ s \in Nat
  BY ListFields
<1>2. ASSUME NEW n \in 0..size
      PROVE  l.next[n] \in 0..size /\ l.prev[n] \in 0..size
  <2>1. PICK i \in 1..s : u[i] = n
    BY DEF HEAD_ID, UsedInFront
  <2>2. l.next[u[i]] \in Named(u, s) /\ l.prev[u[i]] \in Named(u, s)
    BY <1>1, NeighboursInRing DEF UsedInFront
  <2>3. \A x \in Named(u, s) : x \in 0..size
    BY DEF Named, UsedInFront
  <2> QED
    BY <2>1, <2>2, <2>3
<1>3. /\ m \in ListOf(last) /\ m.capacity = last /\ m.size = size
      /\ m.free = IF s <= last THEN s ELSE HEAD_ID
      /\ \A n \in 0..size : /\ m.status[n] = l.status[n] /\ m.data[n] = l.data[n]
                            /\ m.next[n] = l.next[n] /\ m.prev[n] = l.prev[n]
      /\ \A n \in s..last : /\ m.status[n] = "FREE"
                            /\ m.next[n] = IF n = last THEN s ELSE n + 1
                            /\ m.prev[n] = IF n = s THEN last ELSE n - 1
  <2>1. /\ s \in 1..(c + 1) /\ s <= last + 1 /\ s - 1 = size
        /\ \A n \in 0..size : l.next[n] <= last /\ l.prev[n] <= last
    BY <1>1, <1>2
  <2> HIDE DEF m, s
  <2>2. FreeFrom(m, l, s, last)
    <3>1. m = WithFreeRing(l, s, last)
      BY DEF m, s
    <3>2. LinksWithin(l, s, last)
      BY <2>1 DEF LinksWithin
    <3>3. s \in 1..(c + 1) /\ s <= last + 1 /\ l.size <= last
      BY <2>1
    <3>4. c \in Nat /\ l \in ListOf(c) /\ last \in Nat
      OBVIOUS
    <3> HIDE DEF m
    <3> QED
      BY <3>1, <3>2, <3>3, <3>4, WithFreeRingFields
  <2>3. m.capacity = last
    BY <2>2, ListFields DEF FreeFrom
  <2> QED
    BY <2>1, <2>2, <2>3 DEF FreeFrom
<1> HIDE DEF m
<1>4. /\ \A i \in 1..k : f[i] = size + i /\ f[i] \in s..last
      /\ f \in [1..k -> Places(last)]
  <2>1. ASSUME NEW i \in 1..k
        PROVE  f[i] = size + i /\ f[i] \in s..last /\ f[i] \in Places(last)
    <3>1. f[i] = size + i
      BY DEF Behind
    <3>2. size + i \in s..last /\ size + i \in 0..last
      BY <1>1
    <3> QED
      BY <3>1, <3>2 DEF Places
  <2>2. f = [i \in 1..k |-> f[i]]
    BY DEF Behind
  <2> HIDE DEF f, k
  <2> QED
    BY <2>1, <2>2
<1>5. u \in [1..s -> Places(last)] /\ u[1] = HEAD_ID
  BY DEF Places, UsedInFront
<1> HIDE DEF f
<1>6. Ring(m.next, m.prev, u, s)
  <2>1. \A i \in 1..s : u[i] \in 0..size
    BY DEF UsedInFront
  <2>2. \A i \in 1..s : m.next[u[i]] = l.next[u[i]] /\ m.prev[u[i]] = l.prev[u[i]]
    BY <1>3, <2>1
  <2>3. Ring(l.next, l.prev, u, s)
    BY DEF UsedInFront
  <2> HIDE DEF s
  <2> QED
    BY <1>1, <2>2, <2>3, RingUntouched
<1>7. Ring(m.next, m.prev, f, k)
  <2>1. \A i, j \in 1..k : f[i] = f[j] => i = j
    BY <1>1, <1>4
  <2>2. ASSUME NEW i \in 1..k
        PROVE  m.next[f[i]] = f[IF i = k THEN 1 ELSE i + 1]
    <3>1. CASE i = k
      <4>1. f[i] = last /\ f[1] = s
        BY <1>1, <1>4, <3>1
      <4> QED
        BY <1>1, <1>3, <3>1, <4>1
    <3>2. CASE i # k
      <4>1. i + 1 \in 1..k /\ size + i \in s..last /\ size + i # last
            /\ size + (i + 1) = size + i + 1
        BY <1>1, <3>2
      <4>2. f[i] = size + i /\ f[i + 1] = size + (i + 1)
        BY <1>4, <4>1
      <4>3. m.next[size + i] = size + i + 1
        BY <1>3, <4>1
      <4> QED
        BY <3>2, <4>1, <4>2, <4>3
    <3> QED
      BY <3>1, <3>2
  <2>3. ASSUME NEW i \in 1..k
        PROVE  m.prev[f[i]] = f[IF i = 1 THEN k ELSE i - 1]
    <3>1. CASE i = 1
      <4>1. f[k] = last /\ f[1] = s /\ s \in s..last
        BY <1>1, <1>4, <3>1
      <4> QED
        BY <1>1, <1>3, <3>1, <4>1
    <3>2. CASE i # 1
      <4>1. i - 1 \in 1..k /\ size + i \in s..last /\ size + i # s
            /\ size + (i - 1) = (size + i) - 1
        BY <1>1, <3>2
      <4>2. f[i] = size + i /\ f[i - 1] = size + (i - 1)
        BY <1>4, <4>1
      <4>3. m.prev[size + i] = (size + i) - 1
        BY <1>3, <4>1
      <4> QED
        BY <3>2, <4>1, <4>2, <4>3
    <3> QED
      BY <3>1, <3>2
  <2> QED
    BY <2>1, <2>2, <2>3 DEF Ring
<1>8. Covered(m.status, last, size, u, f)
  <2>1. m.status[HEAD_ID] = "MASTER"
    BY <1>3 DEF HEAD_ID, UsedInFront
  <2>2. ASSUME NEW i \in 2..(size + 1)
        PROVE  m.status[u[i]] = "ENGAGED"
    <3>1. u[i] \in 0..size /\ u[i] # u[1]
      BY DEF Ring, UsedInFront
    <3>2. u[i] \in 1..size
      BY <3>1 DEF HEAD_ID, UsedInFront
    <3> QED
      BY <1>3, <3>1, <3>2 DEF UsedInFront
  <2>3. ASSUME NEW i \in 1..(last - size)
        PROVE  m.status[f[i]] = "FREE"
    BY <1>3, <1>4
  <2>4. ASSUME NEW n \in Places(last) \ {HEAD_ID}
        PROVE  \/ \E i \in 2..(size + 1) : u[i] = n
               \/ \E i \in 1..(last - size) : f[i] = n
    <3>1. n \in 1..last
      BY DEF Places, HEAD_ID
    <3>2. CASE n <= size
      BY <3>1, <3>2 DEF UsedInFront
    <3>3. CASE n > size
      <4>1. n - size \in 1..k /\ size + (n - size) = n
        BY <3>1, <3>3
      <4>2. f[n - size] = n
        BY <1>4, <4>1
      <4> QED
        BY <4>1, <4>2
    <3> QED
      BY <3>1, <3>2, <3>3
  <2> QED
    BY <2>1, <2>2, <2>3, <2>4 DEF Covered
<1>9. m.free = IF size = last THEN HEAD_ID ELSE f[1]
  <2>1. size # last => s <= last /\ f[1] = s
    BY <1>1, <1>4
  <2>2. size = last => ~(s <= last)
    BY <1>1
  <2> QED
    BY <1>3, <2>1, <2>2
<1>10. Shape(m, u, f)
  BY <1>3, <1>4, <1>5, <1>6, <1>7, <1>8, <1>9 DEF Shape, Nodes
<1>11. ResizedTo(m, l, u, size, last)
  BY <1>3, <1>10 DEF ResizedTo, f
<1> QED
  BY <1>11 DEF m

\* A walk is known when its first node and all its steps are.
Follows(w, link, from, t) ==
    w[0] = from /\ \A i \in Nat : i < t => w[i + 1] = link[w[i]]

\* The walk is the one that was described.
LEMMA WalkFollows ==
    ASSUME NEW link, NEW from, NEW t \in Nat, NEW w, Follows(w, link, from, t)
    PROVE  \A i \in Nat : i <= t => Walk(link, from, i) = w[i]
<1> DEFINE S == {i \in Nat : i <= t /\ Walk(link, from, i) # w[i]}
<1>1. SUFFICES ASSUME S # {} PROVE FALSE
  OBVIOUS
<1>2. S \subseteq Nat
  OBVIOUS
<1>3. PICK i \in S : \A j \in S : i <= j
  BY <1>1, <1>2, LeastNumber
<1>4. i \in Nat /\ i <= t /\ Walk(link, from, i) # w[i]
  OBVIOUS
<1>5. i # 0
  BY <1>4, WalkSteps DEF Follows
<1>6. i - 1 \in Nat /\ i - 1 < t /\ i - 1 <= t /\ ~(i <= i - 1) /\ (i - 1) + 1 = i
  BY <1>4, <1>5
<1>7. Walk(link, from, i - 1) = w[i - 1]
  BY <1>3, <1>6
<1>8. Walk(link, from, (i - 1) + 1) = link[Walk(link, from, i - 1)]
  <2>1. \A j \in Nat : Walk(link, from, j + 1) = link[Walk(link, from, j)]
    BY WalkSteps
  <2> QED
    BY <1>6, <2>1
<1>9. w[(i - 1) + 1] = link[w[i - 1]]
  BY <1>6 DEF Follows
<1> QED
  BY <1>4, <1>6, <1>7, <1>8, <1>9

\* Walking around a ring visits its nodes in order and comes back.
LEMMA RingWalk ==
    ASSUME NEW next, NEW prev, NEW k \in Nat, k > 0, NEW r, Ring(next, prev, r, k)
    PROVE  /\ \A i \in 1..k : Walk(next, r[1], i - 1) = r[i]
           /\ Walk(next, r[1], k) = r[1]
           /\ Walk(prev, r[1], k) = r[1]
<1> DEFINE fwd == [i \in Nat |-> IF i < k THEN r[i + 1] ELSE r[1]]
           bwd == [i \in Nat |-> IF i = 0 THEN r[1] ELSE r[k + 1 - i]]
<1>1. fwd[0] = r[1] /\ bwd[0] = r[1] /\ fwd[k] = r[1] /\ bwd[k] = r[1]
  OBVIOUS
<1>2. ASSUME NEW i \in Nat, i < k
      PROVE  fwd[i + 1] = next[fwd[i]]
  <2>1. i + 1 \in 1..k /\ i + 1 \in Nat /\ (i + 1 < k <=> i + 1 # k)
    BY <1>2
  <2>2. next[r[i + 1]] = r[IF i + 1 = k THEN 1 ELSE (i + 1) + 1]
    BY <2>1 DEF Ring
  <2> QED
    BY <1>2, <2>1, <2>2
<1>3. ASSUME NEW i \in Nat, i < k
      PROVE  bwd[i + 1] = prev[bwd[i]]
  <2>1. CASE i = 0
    <3>1. prev[r[1]] = r[k]
      BY <1>3, <2>1 DEF Ring
    <3>2. bwd[1] = r[k]
      BY <1>3, <2>1
    <3> QED
      BY <1>1, <2>1, <3>1, <3>2
  <2>2. CASE i # 0
    <3>1. k + 1 - i \in 1..k /\ k + 1 - i # 1 /\ (k + 1 - i) - 1 = k + 1 - (i + 1) /\ i + 1 \in Nat
      BY <1>3, <2>2
    <3>2. prev[r[k + 1 - i]] = r[(k + 1 - i) - 1]
      BY <3>1 DEF Ring
    <3>3. bwd[i] = r[k + 1 - i] /\ bwd[i + 1] = r[k + 1 - (i + 1)]
      BY <2>2, <3>1
    <3> QED
      BY <3>1, <3>2, <3>3
  <2> QED
    BY <2>1, <2>2
<1> HIDE DEF fwd, bwd
<1>4. \A i \in Nat : i <= k => Walk(next, r[1], i) = fwd[i]
  <2>1. Follows(fwd, next, r[1], k)
    BY <1>1, <1>2 DEF Follows
  <2> QED
    BY <2>1, WalkFollows
<1>5. \A i \in Nat : i <= k => Walk(prev, r[1], i) = bwd[i]
  <2>1. Follows(bwd, prev, r[1], k)
    BY <1>1, <1>3 DEF Follows
  <2> QED
    BY <2>1, WalkFollows
<1>6. ASSUME NEW i \in 1..k
      PROVE  Walk(next, r[1], i - 1) = r[i]
  <2>1. i - 1 \in Nat /\ i - 1 <= k /\ i - 1 < k /\ (i - 1) + 1 = i
    OBVIOUS
  <2>2. fwd[i - 1] = r[(i - 1) + 1]
    BY <2>1 DEF fwd
  <2> QED
    BY <1>4, <2>1, <2>2
<1> QED
  BY <1>1, <1>4, <1>5, <1>6

\* The rings of a list are the ones its links trace.
LEMMA ShapeNodes ==
    ASSUME NEW l, NEW u, NEW f, Shape(l, u, f)
    PROVE  /\ \A i \in 0..l.size : NodeAt(l, i) = u[i + 1]
           /\ NodeAt(l, l.size + 1) = HEAD_ID
           /\ u = UsedRing(l) /\ f = FreeRing(l)
<1> DEFINE s == l.size + 1
           k == l.capacity - l.size
<1>1. /\ s \in Nat /\ s > 0 /\ k \in Nat /\ l.size \in Nat
      /\ Ring(l.next, l.prev, u, s) /\ Ring(l.next, l.prev, f, k)
      /\ u[1] = HEAD_ID
  BY ShapeFacts
<1>2. u = [i \in 1..s |-> u[i]] /\ f = [i \in 1..k |-> f[i]]
  BY ShapeFacts
<1>3. k > 0 => l.free = f[1]
  BY ShapeFacts
<1> HIDE DEF s, k
<1>4. /\ \A i \in 1..s : Walk(l.next, HEAD_ID, i - 1) = u[i]
      /\ Walk(l.next, HEAD_ID, s) = u[1]
  BY <1>1, RingWalk
<1>5. \A i \in 1..k : Walk(l.next, l.free, i - 1) = f[i]
  <2>1. CASE k > 0
    BY <1>1, <1>3, <2>1, RingWalk
  <2>2. CASE k = 0
    BY <2>2
  <2> QED
    BY <1>1, <2>1, <2>2
<1>6. ASSUME NEW i \in 0..l.size
      PROVE  NodeAt(l, i) = u[i + 1]
  <2>1. i + 1 \in 1..s /\ (i + 1) - 1 = i
    BY <1>1 DEF s
  <2> QED
    BY <1>4, <2>1 DEF NodeAt
<1>7. NodeAt(l, l.size + 1) = HEAD_ID
  BY <1>1, <1>4 DEF NodeAt, s
<1>8. u = UsedRing(l)
  <2>1. [i \in 1..s |-> u[i]] = [i \in 1..s |-> Walk(l.next, HEAD_ID, i - 1)]
    BY <1>4
  <2> QED
    BY <1>2, <2>1 DEF UsedRing, NodeAt, s
<1>9. f = FreeRing(l)
  <2>1. [i \in 1..k |-> f[i]] = [i \in 1..k |-> Walk(l.next, l.free, i - 1)]
    BY <1>5
  <2> QED
    BY <1>2, <2>1 DEF FreeRing, k
<1> QED
  BY <1>6, <1>7, <1>8, <1>9

\* What Engage does to each field.
LEMMA EngageFields ==
    ASSUME NEW c \in Nat, NEW l \in ListOf(c), NEW n \in Places(c),
           NEW d \in Data \cup {ZeroData}, l.size < c
    PROVE  LET m == Engage(l, n, d)
           IN  /\ m \in ListOf(c)
               /\ m.next = l.next /\ m.prev = l.prev /\ m.free = l.free
               /\ m.status = Set1(l.status, n, "ENGAGED")
               /\ m.data = Set1(l.data, n, d)
               /\ m.size = l.size + 1 /\ m.capacity = c
<1> DEFINE status == [l.status EXCEPT ![n] = "ENGAGED"]
           data == [l.data EXCEPT ![n] = d]
<1>1. /\ status \in [Places(c) -> {"FREE", "ENGAGED", "MASTER"}]
      /\ data \in [Places(c) -> Data \cup {ZeroData}]
      /\ l.size + 1 \in 0..c
  BY ListFields
<1>2. Engage(l, n, d) = [l EXCEPT !.size = @ + 1, !.status = status, !.data = data]
  BY DEF Engage, ListOf
<1> HIDE DEF status, data
<1> QED
  BY <1>1, <1>2 DEF ListOf, status, data, Set1

\* t is what is left of l when node n has been taken; its data may have changed.
Taken(l, t, n) ==
    /\ t \in ListOf(l.capacity) /\ t.status = l.status /\ t.size = l.size
    /\ t.next = TakeFreeList_indx(l, n).next /\ t.prev = TakeFreeList_indx(l, n).prev
    /\ t.free = TakeFreeList_indx(l, n).free

\* One of the k free nodes, the q-th, has been taken for d, which goes behind
\* the p-th of the s nodes of the list.
Insertable(l, u, f, k, q, s, p, t, d) ==
    /\ Shape(l, u, f) /\ Taken(l, t, f[q]) /\ d \in Data \cup {ZeroData}
    /\ k \in Nat /\ k = l.capacity - l.size /\ q \in 1..k
    /\ s \in Nat /\ s = l.size + 1 /\ p \in 1..s

\* A free node is taken, engaged and linked into the list, all in one.
LEMMA Insertion ==
    ASSUME NEW l, NEW u, NEW f, NEW k, NEW q, NEW s, NEW p, NEW t, NEW d,
           Insertable(l, u, f, k, q, s, p, t, d)
    PROVE  LET m == InsertRight(Engage(t, f[q], d), f[q], u[p])
           IN  /\ Shape(m, Inserted(u, s, p, f[q]), Removed(f, k, q))
               /\ m.size = s /\ m.capacity = l.capacity
               /\ m.status = Set1(l.status, f[q], "ENGAGED")
               /\ m.data = Set1(t.data, f[q], d)
<1> DEFINE c == l.capacity
           n == f[q]
           e == Engage(t, n, d)
           m == InsertRight(e, n, u[p])
<1>0. /\ Shape(l, u, f) /\ Taken(l, t, f[q]) /\ d \in Data \cup {ZeroData}
      /\ k \in Nat /\ k = l.capacity - l.size /\ q \in 1..k
      /\ s \in Nat /\ s = l.size + 1 /\ p \in 1..s
  BY DEF Insertable
<1>1. /\ c \in Nat /\ l.size \in 0..c
      /\ u \in [1..s -> Places(c)] /\ f \in [1..k -> Places(c)]
  BY <1>0, ShapeFacts
<1>2. n \in Places(c) /\ u[p] \in Places(c) /\ l.size < c
  <2>1. p \in 1..s /\ q \in 1..k /\ l.size < c
    BY <1>0, <1>1
  <2> HIDE DEF c
  <2> QED
    BY <1>1, <2>1 DEF n
<1>3. t \in ListOf(c) /\ t.size < c
  BY <1>0, <1>2 DEF Taken
<1>4. /\ e \in ListOf(c)
      /\ e.next = t.next /\ e.prev = t.prev /\ e.free = t.free
      /\ e.status = Set1(t.status, n, "ENGAGED")
      /\ e.data = Set1(t.data, n, d)
      /\ e.size = t.size + 1 /\ e.capacity = c
  <2> HIDE DEF n, c, e
  <2>1. c \in Nat /\ t \in ListOf(c) /\ n \in Places(c) /\ t.size < c
    BY <1>1, <1>2, <1>3
  <2>2. e = Engage(t, n, d)
    BY DEF e
  <2> QED
    BY <1>0, <2>1, <2>2, EngageFields
<1> HIDE DEF e
<1>5. Shape(m, Inserted(u, s, p, n), Removed(f, k, q))
  <2>1. /\ e \in ListOf(l.capacity) /\ e.size = s
        /\ e.next = TakeFreeList_indx(l, f[q]).next /\ e.prev = TakeFreeList_indx(l, f[q]).prev
        /\ e.free = TakeFreeList_indx(l, f[q]).free
        /\ e.status = [l.status EXCEPT ![f[q]] = "ENGAGED"]
    BY <1>0, <1>4 DEF Taken, Set1
  <2>2. /\ Shape(l, u, f) /\ k \in Nat /\ k = l.capacity - l.size /\ q \in 1..k
        /\ s \in Nat /\ s = l.size + 1 /\ p \in 1..s
    BY <1>0
  <2> HIDE DEF n, c
  <2>3. Shape(InsertRight(e, f[q], u[p]), Inserted(u, s, p, f[q]), Removed(f, k, q))
    BY <2>1, <2>2, NodeEngaged
  <2> QED
    BY <2>3 DEF n
<1>6. /\ m.status = e.status /\ m.data = e.data /\ m.size = e.size /\ m.capacity = e.capacity
  <2> HIDE DEF n, c
  <2> QED
    BY <1>1, <1>2, <1>4, InsertRightFields
<1> HIDE DEF m
<1> QED
  BY <1>0, <1>4, <1>5, <1>6 DEF Taken, m, e

\* The data of the nodes behind the HEAD, in the order in which u names them.
InOrder(data, u, n) == [i \in 1..n |-> data[u[i + 1]]]

\* The elements in the order of the list.
LEMMA ContentsAre ==
    ASSUME NEW l, NEW u, NEW f, Shape(l, u, f)
    PROVE  Contents(l) = InOrder(l.data, u, l.size)
<1>1. ASSUME NEW i \in 1..l.size
      PROVE  NodeAt(l, i) = u[i + 1]
  <2>1. i \in 0..l.size
    OBVIOUS
  <2> QED
    BY <2>1, ShapeNodes
<1> QED
  BY <1>1 DEF Contents, InOrder

\* The sequence with d at position p, and without position p.
With(seq, n, p, d) ==
    [i \in 1..(n + 1) |-> IF i < p THEN seq[i] ELSE IF i = p THEN d ELSE seq[i - 1]]

Without(seq, n, p) == [i \in 1..(n - 1) |-> IF i < p THEN seq[i] ELSE seq[i + 1]]

\* data is old with d in a node n that u does not name.
DatumSet(N, D, old, data, size, u, n, d) ==
    /\ old \in [N -> D] /\ data \in [N -> D] /\ n \in N /\ d \in D
    /\ size \in Nat /\ u \in [1..(size + 1) -> N]
    /\ \A i \in 1..(size + 1) : u[i] # n
    /\ data = Set1(old, n, d)

\* A node more in the ring is an element more in the list.
LEMMA InsertedContents ==
    ASSUME NEW N, NEW D, NEW old, NEW data, NEW size \in Nat, NEW u, NEW n, NEW d,
           DatumSet(N, D, old, data, size, u, n, d), NEW p \in 1..(size + 1)
    PROVE  InOrder(data, Inserted(u, size + 1, p, n), size + 1) =
                With(InOrder(old, u, size), size, p, d)
<1> DEFINE u2 == Inserted(u, size + 1, p, n)
           seq == [i \in 1..size |-> old[u[i + 1]]]
<1>1. ASSUME NEW i \in 1..(size + 1)
      PROVE  data[u2[i + 1]] = IF i < p THEN seq[i] ELSE IF i = p THEN d ELSE seq[i - 1]
  <2>1. i + 1 \in 1..(size + 2) /\ (i + 1) - 1 = i
    OBVIOUS
  <2>2. u2[i + 1] = IF i + 1 <= p THEN u[i + 1] ELSE IF i + 1 = p + 1 THEN n ELSE u[(i + 1) - 1]
    BY <2>1 DEF Inserted
  <2>3. CASE i < p
    <3>1. u2[i + 1] = u[i + 1] /\ i + 1 \in 1..(size + 1) /\ i \in 1..size
      BY <2>2, <2>3
    <3>2. data[u[i + 1]] = old[u[i + 1]]
      BY <3>1 DEF DatumSet, Set1
    <3> QED
      BY <2>3, <3>1, <3>2
  <2>4. CASE i = p
    BY <2>2, <2>4 DEF DatumSet, Set1
  <2>5. CASE i > p
    <3>1. u2[i + 1] = u[i] /\ i - 1 \in 1..size /\ (i - 1) + 1 = i
      BY <2>1, <2>2, <2>5
    <3>2. data[u[i]] = old[u[i]]
      BY DEF DatumSet, Set1
    <3>3. seq[i - 1] = old[u[i]]
      BY <3>1
    <3> QED
      BY <2>5, <3>1, <3>2, <3>3
  <2> QED
    BY <2>3, <2>4, <2>5
<1> HIDE DEF u2, seq
<1>2. [i \in 1..(size + 1) |-> data[u2[i + 1]]] = With(seq, size, p, d)
  BY <1>1 DEF With
<1> QED
  BY <1>2 DEF u2, seq, InOrder

\* data is old with d in the node at position p, the p + 1st that u names.
DatumDropped(N, D, old, data, size, u, p, d) ==
    /\ old \in [N -> D] /\ data \in [N -> D] /\ d \in D
    /\ size \in Nat /\ u \in [1..(size + 1) -> N]
    /\ \A i, j \in 1..(size + 1) : u[i] = u[j] => i = j
    /\ data = Set1(old, u[p + 1], d)

\* A node less in the ring is an element less in the list.
LEMMA RemovedContents ==
    ASSUME NEW N, NEW D, NEW old, NEW data, NEW size \in Nat, NEW u, NEW d,
           NEW p \in 1..size, DatumDropped(N, D, old, data, size, u, p, d)
    PROVE  InOrder(data, Removed(u, size + 1, p + 1), size - 1) =
                Without(InOrder(old, u, size), size, p)
<1> DEFINE u2 == Removed(u, size + 1, p + 1)
           seq == [i \in 1..size |-> old[u[i + 1]]]
<1>1. ASSUME NEW i \in 1..(size - 1)
      PROVE  data[u2[i + 1]] = IF i < p THEN seq[i] ELSE seq[i + 1]
  <2>1. i + 1 \in 1..size /\ i \in 1..size /\ (i + 1 < p + 1 <=> i < p)
    OBVIOUS
  <2>2. u2[i + 1] = IF i < p THEN u[i + 1] ELSE u[(i + 1) + 1]
    BY <2>1 DEF Removed
  <2>3. CASE i < p
    <3>1. u2[i + 1] = u[i + 1] /\ i + 1 # p + 1 /\ p + 1 \in 1..(size + 1) /\ i + 1 \in 1..(size + 1)
      BY <2>1, <2>2, <2>3
    <3>2. u[i + 1] # u[p + 1]
      BY <3>1 DEF DatumDropped, Set1
    <3>3. data[u[i + 1]] = old[u[i + 1]]
      BY <3>1, <3>2 DEF DatumDropped, Set1
    <3> QED
      BY <2>1, <2>3, <3>1, <3>3
  <2>4. CASE i >= p
    <3>1. /\ u2[i + 1] = u[(i + 1) + 1] /\ (i + 1) + 1 # p + 1
          /\ p + 1 \in 1..(size + 1) /\ (i + 1) + 1 \in 1..(size + 1)
      BY <2>1, <2>2, <2>4
    <3>2. u[(i + 1) + 1] # u[p + 1]
      BY <3>1 DEF DatumDropped, Set1
    <3>3. data[u[(i + 1) + 1]] = old[u[(i + 1) + 1]]
      BY <3>1, <3>2 DEF DatumDropped, Set1
    <3> QED
      BY <2>1, <2>4, <3>1, <3>3
  <2> QED
    BY <2>3, <2>4
<1> HIDE DEF u2, seq
<1>2. [i \in 1..(size - 1) |-> data[u2[i + 1]]] = Without(seq, size, p)
  BY <1>1 DEF Without
<1> QED
  BY <1>2 DEF u2, seq, InOrder

\* The rings that Shape names are the ones the links trace.
LEMMA ShapeIsLinked ==
    ASSUME NEW l, NEW u, NEW f, Shape(l, u, f)
    PROVE  Linked(l) /\ u = UsedRing(l)
<1>1. u = UsedRing(l) /\ f = FreeRing(l)
  BY ShapeNodes
<1>2. Shape(l, UsedRing(l), FreeRing(l))
  BY <1>1
<1> QED
  BY <1>1, <1>2 DEF Linked

\* m is l with d inserted at position p, in node n, the data being data before.
Inserts(l, m, n, data, p, d) ==
    /\ Linked(m) /\ m.capacity = l.capacity /\ m.size = l.size + 1
    /\ n \in Places(l.capacity) /\ l.status[n] = "FREE"
    /\ m.status = Set1(l.status, n, "ENGAGED")
    /\ m.data = Set1(data, n, d)
    /\ Contents(m) = With(InOrder(data, UsedRing(l), l.size), l.size, p, d)

\* Every insertion ends in the same way.
LEMMA InsertionInserts ==
    ASSUME NEW l, NEW u, NEW f, NEW k, NEW q, NEW s, NEW p, NEW t, NEW d,
           Insertable(l, u, f, k, q, s, p, t, d)
    PROVE  Inserts(l, InsertRight(Engage(t, f[q], d), f[q], u[p]), f[q], t.data, p, d)
<1> DEFINE c == l.capacity
           n == f[q]
           m == InsertRight(Engage(t, n, d), n, u[p])
           u2 == Inserted(u, s, p, n)
           D == Data \cup {ZeroData}
<1>0. /\ Shape(l, u, f) /\ Taken(l, t, f[q]) /\ d \in Data \cup {ZeroData}
      /\ k \in Nat /\ k = l.capacity - l.size /\ q \in 1..k
      /\ s \in Nat /\ s = l.size + 1 /\ p \in 1..s
  BY DEF Insertable
<1>1. /\ c \in Nat /\ l.size \in 0..c /\ l.size \in Nat
      /\ u \in [1..s -> Places(c)] /\ f \in [1..k -> Places(c)]
      /\ Covered(l.status, c, l.size, u, f)
  BY <1>0, ShapeFacts
<1>2. n \in Places(c) /\ l.status[n] = "FREE" /\ \A i \in 1..s : u[i] # n
  BY <1>0, <1>1, NodesApart DEF Covered
<1>3. /\ Shape(m, u2, Removed(f, k, q))
      /\ m.size = s /\ m.capacity = c
      /\ m.status = Set1(l.status, n, "ENGAGED")
      /\ m.data = Set1(t.data, n, d)
  <2>1. LET w == InsertRight(Engage(t, f[q], d), f[q], u[p])
        IN  /\ Shape(w, Inserted(u, s, p, f[q]), Removed(f, k, q))
            /\ w.size = s /\ w.capacity = l.capacity
            /\ w.status = Set1(l.status, f[q], "ENGAGED")
            /\ w.data = Set1(t.data, f[q], d)
    BY Insertion
  <2> QED
    BY <2>1
<1> HIDE DEF m, n, u2
<1>4. Linked(m) /\ u = UsedRing(l)
  BY <1>0, <1>3, ShapeIsLinked
<1>5. t.data \in [Places(c) -> D]
  BY <1>0, <1>1, ListFields DEF Taken
<1>6. m.data \in [Places(c) -> D]
  BY <1>0, <1>3, <1>5 DEF Set1
<1>7. Contents(m) = InOrder(m.data, u2, s)
  BY <1>3, ContentsAre
<1>8. InOrder(m.data, u2, s) = With(InOrder(t.data, u, l.size), l.size, p, d)
  <2> DEFINE size == l.size
             old == t.data
             data == m.data
             N == Places(c)
  <2>1. /\ size \in Nat /\ s = size + 1 /\ u \in [1..(size + 1) -> N]
        /\ n \in N /\ \A i \in 1..(size + 1) : u[i] # n
        /\ data = Set1(old, n, d)
        /\ old \in [N -> D] /\ data \in [N -> D]
        /\ d \in D /\ p \in 1..(size + 1)
    BY <1>0, <1>1, <1>2, <1>3, <1>5, <1>6
  <2> HIDE DEF size, old, data, D, N
  <2>2. InOrder(data, Inserted(u, size + 1, p, n), size + 1) =
                With(InOrder(old, u, size), size, p, d)
    <3>1. DatumSet(N, D, old, data, size, u, n, d)
      BY <2>1 DEF DatumSet
    <3> QED
      BY <2>1, <3>1, InsertedContents
  <2> QED
    BY <2>1, <2>2 DEF size, old, data, u2
<1> QED
  BY <1>0, <1>2, <1>3, <1>4, <1>7, <1>8 DEF Inserts, m, n

\* TakeFreeList_indx takes a free node at any place of its ring.
LEMMA TakenByIndex ==
    ASSUME NEW l, NEW u, NEW f, Shape(l, u, f),
           NEW k \in Nat, k = l.capacity - l.size, NEW q \in 1..k
    PROVE  Taken(l, TakeFreeList_indx(l, f[q]), f[q]) /\ TakeFreeList_indx(l, f[q]).data = l.data
BY TakenNode DEF Taken

\* TakeFreeList takes the node that FreeNode names; setting a datum changes
\* no link.
LEMMA TakenFirst ==
    ASSUME NEW l, NEW u, NEW f, Shape(l, u, f),
           NEW k \in Nat, k = l.capacity - l.size, k > 0
    PROVE  LET q == IF k = 1 THEN 1 ELSE 2
               t == TakeFreeList(l)
           IN  /\ q \in 1..k /\ FreeNode(l) = f[q]
               /\ Taken(l, t, f[q]) /\ t.data = l.data
               /\ \A index \in Places(l.capacity), d \in Data :
                    LET t2 == [t EXCEPT !.data[index] = d]
                    IN  Taken(l, t2, f[q]) /\ t2.data = [l.data EXCEPT ![index] = d]
<1> DEFINE q == IF k = 1 THEN 1 ELSE 2
           t == TakeFreeList(l)
<1>1. l.capacity \in Nat /\ l.size \in 0..l.capacity /\ l.size < l.capacity
  BY ShapeFacts
<1>2. q \in 1..k /\ FreeNode(l) = f[q]
  BY <1>1, FreeNodeIs
<1>3. t = TakeFreeList_indx(l, f[q])
  BY <1>1, <1>2, TakeFreeListTakes
<1> HIDE DEF q
<1>4. Taken(l, t, f[q]) /\ t.data = l.data
  BY <1>2, <1>3, TakenByIndex
<1> HIDE DEF t
<1>5. ASSUME NEW index \in Places(l.capacity), NEW d \in Data
      PROVE  LET t2 == [t EXCEPT !.data[index] = d]
             IN  Taken(l, t2, f[q]) /\ t2.data = [l.data EXCEPT ![index] = d]
  <2> DEFINE t2 == [t EXCEPT !.data[index] = d]
             data == [t.data EXCEPT ![index] = d]
  <2>1. t \in ListOf(l.capacity)
    BY <1>4 DEF Taken
  <2>2. t.data \in [Places(l.capacity) -> Data \cup {ZeroData}]
    BY <1>1, <2>1, ListFields
  <2>3. data \in [Places(l.capacity) -> Data \cup {ZeroData}]
    BY <2>2
  <2>4. t2 = [t EXCEPT !.data = data]
    OBVIOUS
  <2> HIDE DEF data
  <2>5. /\ t2 \in ListOf(l.capacity)
        /\ t2.status = t.status /\ t2.size = t.size /\ t2.next = t.next
        /\ t2.prev = t.prev /\ t2.free = t.free /\ t2.data = data
    BY <2>1, <2>3, <2>4 DEF ListOf
  <2> HIDE DEF t2
  <2> QED
    BY <1>4, <2>5 DEF Taken, data, t2
<1> QED
  BY <1>2, <1>4, <1>5 DEF q, t

\* The same without the names of the rings.
LEMMA FirstIsTaken ==
    ASSUME NEW l, Linked(l), l.size < l.capacity
    PROVE  LET t == TakeFreeList(l)
           IN  /\ Taken(l, t, FreeNode(l)) /\ t.data = l.data
               /\ \A index \in Places(l.capacity), d \in Data :
                    LET t2 == [t EXCEPT !.data[index] = d]
                    IN  Taken(l, t2, FreeNode(l)) /\ t2.data = Set1(l.data, index, d)
<1> DEFINE u == UsedRing(l)
           f == FreeRing(l)
           k == l.capacity - l.size
<1>1. Shape(l, u, f)
  BY DEF Linked
<1> HIDE DEF u, f
<1>2. k \in Nat /\ k > 0 /\ k = l.capacity - l.size
  BY <1>1, ShapeFacts
<1> HIDE DEF k
<1> QED
  BY <1>1, <1>2, TakenFirst DEF Set1

\* InsertRight(..., HEAD_ID) makes d the first element.
LEMMA InsertedFirst ==
    ASSUME NEW l, Linked(l), l.size < l.capacity,
           NEW t, Taken(l, t, FreeNode(l)), NEW d \in Data \cup {ZeroData}
    PROVE  LET n == FreeNode(l)
           IN  Inserts(l, InsertRight(Engage(t, n, d), n, HEAD_ID), n, t.data, 1, d)
<1> DEFINE u == UsedRing(l)
           f == FreeRing(l)
           k == l.capacity - l.size
           s == l.size + 1
           q == IF k = 1 THEN 1 ELSE 2
<1>1. Shape(l, u, f)
  BY DEF Linked
<1> HIDE DEF u, f
<1>2. k \in Nat /\ k > 0 /\ s \in Nat /\ 1 \in 1..s /\ u[1] = HEAD_ID
  BY <1>1, ShapeFacts
<1>3. k = l.capacity - l.size /\ s = l.size + 1
  OBVIOUS
<1> HIDE DEF k, s
<1>4. q \in 1..k /\ FreeNode(l) = f[q]
  BY <1>1, <1>2, <1>3, TakenFirst
<1> HIDE DEF q
<1>5. Inserts(l, InsertRight(Engage(t, f[q], d), f[q], u[1]), f[q], t.data, 1, d)
  <2>1. Insertable(l, u, f, k, q, s, 1, t, d)
    BY <1>1, <1>2, <1>3, <1>4 DEF Insertable
  <2> QED
    BY <2>1, InsertionInserts
<1> QED
  BY <1>2, <1>4, <1>5

\* The list's own ring is still there when a free node has been engaged.
LEMMA RingOfEngaged ==
    ASSUME NEW l, NEW u, NEW f, NEW k, NEW q, NEW s, NEW p, NEW t, NEW d,
           Insertable(l, u, f, k, q, s, p, t, d)
    PROVE  LET e == Engage(t, f[q], d)
           IN  /\ e \in ListOf(l.capacity) /\ e.size = s
               /\ Ring(e.next, e.prev, u, s)
<1> DEFINE c == l.capacity
           n == f[q]
           e == Engage(t, n, d)
<1>0. /\ Shape(l, u, f) /\ Taken(l, t, f[q]) /\ d \in Data \cup {ZeroData}
      /\ k \in Nat /\ k = l.capacity - l.size /\ q \in 1..k
      /\ s \in Nat /\ s = l.size + 1 /\ p \in 1..s
  BY DEF Insertable
<1>1. c \in Nat /\ l.size \in 0..c /\ f \in [1..k -> Places(c)]
  BY <1>0, ShapeFacts
<1>2. n \in Places(c) /\ t \in ListOf(c) /\ t.size = l.size /\ t.size < c
  BY <1>0, <1>1 DEF Taken
<1>3. e \in ListOf(c) /\ e.next = t.next /\ e.prev = t.prev /\ e.size = t.size + 1
  <2> HIDE DEF n, c, e
  <2>1. e = Engage(t, n, d)
    BY DEF e
  <2> QED
    <3>1. /\ c \in Nat /\ t \in ListOf(c) /\ n \in Places(c) /\ t.size < c
          /\ d \in Data \cup {ZeroData}
      BY <1>0, <1>1, <1>2
    <3> QED
      BY <2>1, <3>1, EngageFields
<1> HIDE DEF e
<1>4. Ring(t.next, t.prev, u, s)
  BY <1>0, TakenNode DEF Taken
<1> QED
  BY <1>0, <1>2, <1>3, <1>4 DEF e

\* A position up to one past the end leads to the place before it; the HEAD,
\* position 0, and the position past the end both lead to the last.
LEMMA PlaceBefore ==
    ASSUME NEW next, NEW prev, NEW s \in Nat, s > 0, NEW u, Ring(next, prev, u, s),
           NEW pos \in 0..s
    PROVE  /\ pos = s => Walk(next, u[1], pos) = u[1]
           /\ pos # s => Walk(next, u[1], pos) = u[pos + 1]
           /\ pos = 0 => prev[Walk(next, u[1], pos)] = u[s]
           /\ pos # 0 => prev[Walk(next, u[1], pos)] = u[pos]
<1>1. CASE pos = s
  <2>1. Walk(next, u[1], pos) = u[1]
    BY <1>1, RingWalk
  <2>2. prev[u[1]] = u[s]
    BY DEF Ring
  <2> QED
    BY <1>1, <2>1, <2>2
<1>2. CASE pos # s
  <2>1. pos + 1 \in 1..s /\ (pos + 1) - 1 = pos
    BY <1>2
  <2>2. Walk(next, u[1], (pos + 1) - 1) = u[pos + 1]
    <3>1. \A i \in 1..s : Walk(next, u[1], i - 1) = u[i]
      BY RingWalk
    <3> QED
      BY <2>1, <3>1
  <2>3. prev[u[pos + 1]] = u[IF pos + 1 = 1 THEN s ELSE (pos + 1) - 1]
    BY <2>1 DEF Ring
  <2> QED
    BY <1>2, <2>1, <2>2, <2>3
<1> QED
  BY <1>1, <1>2

\* ListInsert puts d at its position, position 0 standing for the tail, and
\* finds every position past the end wrong.
LEMMA InsertedAtPosition ==
    ASSUME NEW l, Linked(l), l.size < l.capacity, NEW d \in Data \cup {ZeroData},
           NEW k \in Nat, k = l.capacity - l.size, NEW s \in Nat, s = l.size + 1,
           NEW pos \in Nat
    PROVE  LET n == FreeNode(l)
               e == Engage(TakeFreeList(l), n, d)
               dest == GetElemIndex(e, pos)
           IN  IF pos > l.size + 1
               THEN dest = WRONG_POS
               ELSE /\ dest # WRONG_POS
                    /\ Inserts(l, InsertRight(e, n, e.prev[dest]), n, l.data,
                               IF pos = 0 THEN l.size + 1 ELSE pos, d)
<1> DEFINE u == UsedRing(l)
           f == FreeRing(l)
           q == IF k = 1 THEN 1 ELSE 2
           p == IF pos = 0 THEN s ELSE pos
           t == TakeFreeList(l)
           e == Engage(t, FreeNode(l), d)
           dest == GetElemIndex(e, pos)
<1>1. Shape(l, u, f)
  BY DEF Linked
<1> HIDE DEF u, f
<1>2. /\ k > 0 /\ s > 0 /\ u[1] = HEAD_ID /\ l.capacity \in Nat
      /\ u \in [1..s -> Places(l.capacity)]
  BY <1>1, ShapeFacts
<1> HIDE DEF t
<1>4. q \in 1..k /\ FreeNode(l) = f[q] /\ Taken(l, t, f[q]) /\ t.data = l.data
  BY <1>1, <1>2, TakenFirst DEF t
<1> HIDE DEF q
<1>5. Insertable(l, u, f, k, q, s, 1, t, d)
  BY <1>1, <1>2, <1>4 DEF Insertable
<1>6. e.size = s /\ Ring(e.next, e.prev, u, s)
  BY <1>4, <1>5, RingOfEngaged
<1>7. CASE pos > s
  BY <1>6, <1>7 DEF GetElemIndex, t
<1>8. CASE ~(pos > s)
  <2>1. pos \in 0..s /\ p \in 1..s
    BY <1>2, <1>8
  <2>2. dest = Walk(e.next, HEAD_ID, pos)
    BY <1>6, <1>8 DEF GetElemIndex, NodeAt
  <2> HIDE DEF e, dest
  <2>3. dest = u[IF pos = s THEN 1 ELSE pos + 1] /\ e.prev[dest] = u[p]
    <3>1. Ring(e.next, e.prev, u, s)
      BY <1>6
    <3>2. /\ Walk(e.next, u[1], pos) = u[IF pos = s THEN 1 ELSE pos + 1]
          /\ e.prev[Walk(e.next, u[1], pos)] = u[IF pos = 0 THEN s ELSE pos]
      <4> DEFINE nx == e.next
                 pv == e.prev
      <4>1. Ring(nx, pv, u, s)
        BY <3>1
      <4> HIDE DEF nx, pv
      <4>2. /\ pos = s => Walk(nx, u[1], pos) = u[1]
            /\ pos # s => Walk(nx, u[1], pos) = u[pos + 1]
            /\ pos = 0 => pv[Walk(nx, u[1], pos)] = u[s]
            /\ pos # 0 => pv[Walk(nx, u[1], pos)] = u[pos]
        <5>1. pos \in 0..s /\ s > 0
          BY <1>2, <2>1
        <5> QED
          BY <4>1, <5>1, PlaceBefore
      <4> QED
        BY <4>2 DEF nx, pv
    <3> QED
      BY <1>2, <2>2, <3>2
  <2>4. dest # WRONG_POS
    <3>1. (IF pos = s THEN 1 ELSE pos + 1) \in 1..s
      BY <1>2, <2>1
    <3>2. dest \in Places(l.capacity)
      BY <1>2, <2>3, <3>1
    <3> QED
      BY <1>2, <3>2 DEF Places, WRONG_POS
  <2>5. Insertable(l, u, f, k, q, s, p, t, d)
    BY <1>5, <2>1 DEF Insertable
  <2> HIDE DEF p
  <2>6. Inserts(l, InsertRight(Engage(t, f[q], d), f[q], u[p]), f[q], t.data, p, d)
    BY <2>5, InsertionInserts
  <2>7. Inserts(l, InsertRight(e, FreeNode(l), e.prev[dest]), FreeNode(l), l.data, p, d)
    BY <1>4, <2>3, <2>6 DEF e
  <2> QED
    BY <1>8, <2>4, <2>7 DEF e, dest, p, t
<1> QED
  BY <1>7, <1>8

\* A free node that is given by its index is found in the free ring.
LEMMA FreeIsNamed ==
    ASSUME NEW l, NEW u, NEW f, Shape(l, u, f), NEW n \in Places(l.capacity),
           l.status[n] = "FREE"
    PROVE  \E q \in 1..(l.capacity - l.size) : n = f[q]
<1>1. Covered(l.status, l.capacity, l.size, u, f)
  BY ShapeFacts
<1>2. n # HEAD_ID /\ \A i \in 2..(l.size + 1) : u[i] # n
  BY <1>1 DEF Covered
<1> QED
  BY <1>1, <1>2 DEF Covered

\* ListInsertIndex on a free node makes d the last element.
LEMMA InsertedLast ==
    ASSUME NEW l, Linked(l), NEW index \in Places(l.capacity), l.status[index] = "FREE",
           NEW d \in Data \cup {ZeroData}
    PROVE  Inserts(l, InsertLeft(Engage(TakeFreeList_indx(l, index), index, d), index, HEAD_ID),
                   index, l.data, l.size + 1, d)
<1> DEFINE u == UsedRing(l)
           f == FreeRing(l)
           k == l.capacity - l.size
           s == l.size + 1
           t == TakeFreeList_indx(l, index)
           e == Engage(t, index, d)
<1>1. Shape(l, u, f)
  BY DEF Linked
<1> HIDE DEF u, f
<1>2. PICK q \in 1..k : index = f[q]
  BY <1>1, FreeIsNamed
<1>3. /\ k \in Nat /\ s \in Nat /\ s > 0 /\ 1 \in 1..s /\ s \in 1..s /\ u[1] = HEAD_ID
      /\ l.capacity \in Nat /\ u \in [1..s -> Places(l.capacity)]
  BY <1>1, ShapeFacts
<1>4. k = l.capacity - l.size /\ s = l.size + 1
  OBVIOUS
<1>5. \A i \in 1..s : u[i] # index
  BY <1>1, <1>2, NodesApart
<1> HIDE DEF k, s
<1>6. Taken(l, t, index) /\ t.data = l.data
  BY <1>1, <1>2, <1>3, <1>4, TakenByIndex
<1> HIDE DEF t
<1>7. Insertable(l, u, f, k, q, s, s, t, d)
  BY <1>1, <1>2, <1>3, <1>4, <1>6 DEF Insertable
<1>8. e \in ListOf(l.capacity) /\ Ring(e.next, e.prev, u, s)
  BY <1>2, <1>7, RingOfEngaged
<1> HIDE DEF e
<1>9. e.prev[HEAD_ID] = u[s] /\ e.next[u[s]] = HEAD_ID
  BY <1>3, <1>8 DEF Ring
<1>10. InsertLeft(e, index, HEAD_ID) = InsertRight(e, index, u[s])
  <2>1. index # HEAD_ID /\ index # e.prev[HEAD_ID] /\ e.next[e.prev[HEAD_ID]] = HEAD_ID
    BY <1>3, <1>5, <1>9
  <2>2. HEAD_ID \in Places(l.capacity) /\ index \in Places(l.capacity)
    BY <1>3, HeadIsAPlace
  <2> QED
    BY <1>3, <1>8, <1>9, <2>1, <2>2, InsertLeftIsRight
<1>11. Inserts(l, InsertRight(Engage(t, f[q], d), f[q], u[s]), f[q], t.data, s, d)
  BY <1>7, InsertionInserts
<1> QED
  BY <1>2, <1>4, <1>6, <1>10, <1>11 DEF e, t

\* Element i in node i.
Line(size) == [i \in 1..(size + 1) |-> i - 1]

InLine(next, prev, size) ==
    /\ \A n \in 0..size : next[n] = (IF n < size THEN n + 1 ELSE HEAD_ID)
    /\ \A n \in 0..size : prev[n] = (IF n = HEAD_ID THEN size ELSE n - 1)

\* Nodes in line are a ring.
LEMMA LineIsRing ==
    ASSUME NEW size \in Nat, NEW next, NEW prev, InLine(next, prev, size)
    PROVE  /\ Line(size) \in [1..(size + 1) -> 0..size] /\ Line(size)[1] = HEAD_ID
           /\ \A n \in 1..size : \E i \in 2..(size + 1) : Line(size)[i] = n
           /\ Ring(next, prev, Line(size), size + 1)
<1> DEFINE r == Line(size)
<1>1. \A i \in 1..(size + 1) : r[i] = i - 1 /\ r[i] \in 0..size
  BY DEF Line
<1>2. r \in [1..(size + 1) -> 0..size]
  BY DEF Line
<1> HIDE DEF r
<1>3. ASSUME NEW n \in 1..size
      PROVE  \E i \in 2..(size + 1) : r[i] = n
  <2>1. n + 1 \in 2..(size + 1) /\ n + 1 \in 1..(size + 1) /\ (n + 1) - 1 = n
    OBVIOUS
  <2> QED
    BY <1>1, <2>1
<1>4. ASSUME NEW i \in 1..(size + 1)
      PROVE  /\ next[r[i]] = r[IF i = size + 1 THEN 1 ELSE i + 1]
             /\ prev[r[i]] = r[IF i = 1 THEN size + 1 ELSE i - 1]
  <2>1. r[i] = i - 1 /\ i - 1 \in 0..size /\ (i - 1 < size <=> i # size + 1) /\ (i - 1 = 0 <=> i = 1)
    BY <1>1
  <2>2. next[r[i]] = r[IF i = size + 1 THEN 1 ELSE i + 1]
    <3>1. CASE i = size + 1
      <4>1. next[i - 1] = HEAD_ID
        BY <2>1, <3>1 DEF InLine
      <4>2. r[1] = HEAD_ID
        BY <1>1 DEF HEAD_ID
      <4> QED
        BY <2>1, <3>1, <4>1, <4>2
    <3>2. CASE i # size + 1
      <4>1. next[i - 1] = (i - 1) + 1
        BY <2>1, <3>2 DEF InLine
      <4>2. i + 1 \in 1..(size + 1) /\ (i - 1) + 1 = (i + 1) - 1
        BY <3>2
      <4>3. r[i + 1] = (i + 1) - 1
        BY <1>1, <4>2
      <4> QED
        BY <2>1, <3>2, <4>1, <4>2, <4>3
    <3> QED
      BY <3>1, <3>2
  <2>3. prev[r[i]] = r[IF i = 1 THEN size + 1 ELSE i - 1]
    <3>1. CASE i = 1
      <4>1. prev[i - 1] = size
        BY <2>1, <3>1 DEF HEAD_ID, InLine
      <4>2. size + 1 \in 1..(size + 1) /\ (size + 1) - 1 = size
        OBVIOUS
      <4>3. r[size + 1] = (size + 1) - 1
        BY <1>1, <4>2
      <4> QED
        BY <2>1, <3>1, <4>1, <4>2, <4>3
    <3>2. CASE i # 1
      <4>1. prev[i - 1] = (i - 1) - 1
        BY <2>1, <3>2 DEF HEAD_ID, InLine
      <4>2. i - 1 \in 1..(size + 1)
        BY <3>2
      <4>3. r[i - 1] = (i - 1) - 1
        BY <1>1, <4>2
      <4> QED
        BY <2>1, <3>2, <4>1, <4>3
    <3> QED
      BY <3>1, <3>2
  <2> QED
    BY <2>2, <2>3
<1>5. \A i, j \in 1..(size + 1) : r[i] = r[j] => i = j
  BY <1>1
<1>6. r[1] = HEAD_ID
  BY <1>1 DEF HEAD_ID
<1> QED
  BY <1>2, <1>3, <1>4, <1>5, <1>6 DEF Ring, r

\* A list whose nodes are in order can be cut behind them.
LEMMA LineInFront ==
    ASSUME NEW l, NEW f, NEW size \in Nat, Shape(l, Line(size), f), l.size = size
    PROVE  UsedInFront(l, Line(size), size)
<1>1. /\ Ring(l.next, l.prev, Line(size), size + 1)
      /\ Line(size)[1] = HEAD_ID
      /\ l.status[HEAD_ID] = "MASTER"
      /\ \A i \in 2..(size + 1) : l.status[Line(size)[i]] = "ENGAGED"
  BY ShapeFacts DEF Covered
<1>2. ASSUME NEW n \in 1..size
      PROVE  n + 1 \in 2..(size + 1) /\ Line(size)[n + 1] = n
  BY DEF Line
<1>3. Line(size) \in [1..(size + 1) -> 0..size]
  BY DEF Line
<1>4. \A n \in 1..size : \E i \in 2..(size + 1) : Line(size)[i] = n
  BY <1>2
<1>5. \A n \in 1..size : l.status[n] = "ENGAGED"
  BY <1>1, <1>2
<1> QED
  BY <1>1, <1>3, <1>4, <1>5 DEF UsedInFront

\* MakeListGreatAgain puts the elements in order and keeps them.
LEMMA Linearised ==
    ASSUME NEW l, NEW u, NEW f, Shape(l, u, f), NEW size \in Nat, size = l.size,
           NEW c \in Nat, c = l.capacity
    PROVE  LET m == MakeListGreatAgain(l)
           IN  /\ Shape(m, Line(size), Behind(size, c))
               /\ m.capacity = c /\ m.size = size
               /\ InOrder(m.data, Line(size), size) = Contents(l)
<1> DEFINE status == [n \in Nodes(l) |-> IF n = HEAD_ID THEN "MASTER" ELSE "ENGAGED"]
           data == [n \in Nodes(l) |-> IF n \in 1..size THEN l.data[NodeAt(l, n)] ELSE ZeroData]
           next == [n \in Nodes(l) |-> IF n < size THEN n + 1 ELSE HEAD_ID]
           prev == [n \in Nodes(l) |-> IF n = HEAD_ID THEN size ELSE n - 1]
           flat == [l EXCEPT !.status = status, !.data = data, !.next = next, !.prev = prev]
           m == WithFreeRing(flat, size + 1, c)
<1>1. size \in 0..c /\ size <= c /\ Nodes(l) = Places(c) /\ l \in ListOf(c)
  BY ShapeFacts DEF Nodes
<1>2. MakeListGreatAgain(l) = m
  BY DEF MakeListGreatAgain
<1>3. status \in [Places(c) -> {"FREE", "ENGAGED", "MASTER"}]
  BY <1>1
<1>4. data \in [Places(c) -> Data \cup {ZeroData}]
  <2>1. ASSUME NEW n \in 1..size
        PROVE  l.data[NodeAt(l, n)] \in Data \cup {ZeroData}
    <3>1. NodeAt(l, n) = u[n + 1] /\ n + 1 \in 1..(size + 1)
      BY ShapeNodes
    <3>2. u[n + 1] \in Places(c)
      BY <3>1, ShapeFacts
    <3> QED
      BY <1>1, <3>1, <3>2, ListFields
  <2> QED
    BY <1>1, <2>1
<1>5. next \in [Places(c) -> Places(c)]
  BY <1>1 DEF Places, HEAD_ID
<1>6. prev \in [Places(c) -> Places(c)]
  BY <1>1 DEF Places, HEAD_ID
<1>7. InLine(next, prev, size)
  BY <1>1 DEF Places, InLine
<1>8. /\ status[HEAD_ID] = "MASTER"
      /\ \A n \in 1..size : status[n] = "ENGAGED" /\ data[n] = l.data[NodeAt(l, n)]
  BY <1>1 DEF Places, HEAD_ID
<1> HIDE DEF status, data, next, prev
<1>9. /\ flat \in ListOf(c) /\ flat.status = status /\ flat.data = data
      /\ flat.next = next /\ flat.prev = prev /\ flat.size = size
  BY <1>1, <1>3, <1>4, <1>5, <1>6 DEF ListOf
<1> HIDE DEF flat, m
<1>10. UsedInFront(flat, Line(size), size)
  <2>1. /\ Line(size) \in [1..(size + 1) -> 0..size] /\ Line(size)[1] = HEAD_ID
        /\ \A n \in 1..size : \E i \in 2..(size + 1) : Line(size)[i] = n
        /\ Ring(next, prev, Line(size), size + 1)
    BY <1>7, LineIsRing
  <2> QED
    BY <1>8, <1>9, <2>1 DEF UsedInFront
<1>11. /\ Shape(m, Line(size), Behind(size, c)) /\ m.capacity = c /\ m.size = size
       /\ \A n \in 0..size : m.data[n] = flat.data[n]
  <2>1. ResizedTo(m, flat, Line(size), size, c)
    BY <1>1, <1>9, <1>10, FreeRingBehind DEF m
  <2> QED
    BY <2>1 DEF ResizedTo
<1>12. ASSUME NEW i \in 1..size
       PROVE  m.data[Line(size)[i + 1]] = l.data[NodeAt(l, i)]
  <2>1. Line(size)[i + 1] = i
    BY DEF Line
  <2> QED
    BY <1>8, <1>9, <1>11, <2>1
<1>13. InOrder(m.data, Line(size), size) = Contents(l)
  BY <1>12 DEF InOrder, Contents
<1> QED
  BY <1>2, <1>11, <1>13

\* A list in order keeps its elements when it is cut or extended behind them.
LEMMA LineResized ==
    ASSUME NEW l, NEW f, NEW size \in Nat, Shape(l, Line(size), f), l.size = size,
           NEW last \in Nat, size <= last
    PROVE  LET m == WithFreeRing(l, size + 1, last)
           IN  /\ Shape(m, Line(size), Behind(size, last))
               /\ m.capacity = last /\ m.size = size
               /\ Contents(m) = Contents(l)
<1> DEFINE m == WithFreeRing(l, size + 1, last)
           c == l.capacity
<1>1. c \in Nat /\ l \in ListOf(c)
  BY ShapeFacts
<1>2. UsedInFront(l, Line(size), size)
  BY LineInFront
<1> HIDE DEF m, c
<1>3. /\ Shape(m, Line(size), Behind(size, last))
      /\ m.capacity = last /\ m.size = size
      /\ \A n \in 0..size : m.data[n] = l.data[n] /\ m.status[n] = l.status[n]
  <2>1. ResizedTo(m, l, Line(size), size, last)
    BY <1>1, <1>2, FreeRingBehind DEF m
  <2> QED
    BY <2>1 DEF ResizedTo
<1>4. ASSUME NEW i \in 1..size
      PROVE  m.data[Line(size)[i + 1]] = l.data[Line(size)[i + 1]]
  <2>1. Line(size)[i + 1] = i
    BY DEF Line
  <2> QED
    BY <1>3, <2>1
<1>5. InOrder(m.data, Line(size), size) = InOrder(l.data, Line(size), size)
  BY <1>4 DEF InOrder
<1>6. /\ Contents(m) = InOrder(m.data, Line(size), size)
      /\ Contents(l) = InOrder(l.data, Line(size), size)
  BY <1>3, ContentsAre
<1> QED
  BY <1>3, <1>5, <1>6 DEF m

\* ResizeDown, after the elements have been put in order, keeps them.
LEMMA Shrunk ==
    ASSUME NEW l, Linked(l), l.size <= l.capacity \div 2
    PROVE  LET m == ResizeDown(MakeListGreatAgain(l))
           IN  /\ Linked(m) /\ Linked(MakeListGreatAgain(l))
               /\ Contents(m) = Contents(l) /\ Contents(MakeListGreatAgain(l)) = Contents(l)
               /\ m.capacity = l.capacity \div 2 /\ m.size = l.size
<1> DEFINE size == l.size
           c == l.capacity
           g == MakeListGreatAgain(l)
           last == c \div 2
           m == WithFreeRing(g, size + 1, last)
<1>1. Shape(l, UsedRing(l), FreeRing(l))
  BY DEF Linked
<1>2. size \in Nat /\ c \in Nat /\ last \in Nat /\ size <= last
  BY <1>1, ShapeFacts
<1> HIDE DEF g, size, c
<1>3. /\ Shape(g, Line(size), Behind(size, c)) /\ g.capacity = c /\ g.size = size
      /\ InOrder(g.data, Line(size), size) = Contents(l)
  BY <1>1, <1>2, Linearised DEF g, size, c
<1>4. Contents(g) = Contents(l)
  BY <1>3, ContentsAre
<1> HIDE DEF last
<1>5. /\ Shape(m, Line(size), Behind(size, last))
      /\ m.capacity = last /\ m.size = size /\ Contents(m) = Contents(g)
  BY <1>2, <1>3, LineResized
<1>6. ResizeDown(g) = m
  BY <1>3 DEF ResizeDown, last
<1> HIDE DEF m
<1>7. Linked(m) /\ Linked(g)
  BY <1>3, <1>5, ShapeIsLinked
<1> QED
  BY <1>4, <1>5, <1>6, <1>7 DEF g, size, c, last

\* ResizeUp leaves every node of a full list where it is.
LEMMA Grown ==
    ASSUME NEW l, Linked(l), l.size = l.capacity, l.capacity > 0
    PROVE  LET m == ResizeUp(l)
           IN  /\ Linked(m) /\ UsedRing(m) = UsedRing(l) /\ Contents(m) = Contents(l)
               /\ m.capacity = 2 * l.capacity /\ m.size = l.size
               /\ \A n \in Places(l.capacity) : m.data[n] = l.data[n] /\ m.status[n] = l.status[n]
<1> DEFINE size == l.size
           u == UsedRing(l)
           f == FreeRing(l)
           last == 2 * size
           m == WithFreeRing(l, size + 1, last)
<1>1. Shape(l, u, f) /\ l.capacity = size
  BY DEF Linked
<1> HIDE DEF u, f
<1>2. /\ size \in Nat /\ last \in Nat /\ size <= last /\ l \in ListOf(size)
      /\ u \in [1..(size + 1) -> Places(size)] /\ u[1] = HEAD_ID
      /\ Ring(l.next, l.prev, u, size + 1)
      /\ Covered(l.status, size, size, u, f)
  BY <1>1, ShapeFacts
<1>3. UsedInFront(l, u, size)
  <2>1. ASSUME NEW n \in 1..size
        PROVE  l.status[n] = "ENGAGED" /\ \E i \in 2..(size + 1) : u[i] = n
    <3>1. n \in Places(size) \ {HEAD_ID}
      BY <1>2 DEF Places, HEAD_ID
    <3>2. PICK i \in 2..(size + 1) : u[i] = n
      BY <1>2, <3>1 DEF Covered
    <3> QED
      BY <1>2, <3>2 DEF Covered
  <2> QED
    BY <1>2, <2>1 DEF UsedInFront, Covered, Places
<1>4. m = ResizeUp(l)
  BY <1>1 DEF ResizeUp
<1> HIDE DEF last, m
<1>5. /\ Shape(m, u, Behind(size, last))
      /\ m.capacity = last /\ m.size = size
      /\ \A n \in 0..size : m.data[n] = l.data[n] /\ m.status[n] = l.status[n]
  <2>1. size \in Nat /\ l \in ListOf(size) /\ last \in Nat /\ size <= last
    BY <1>2
  <2>2. size = l.size
    BY DEF size
  <2> HIDE DEF size
  <2>3. ResizedTo(m, l, u, size, last)
    BY <1>3, <2>1, <2>2, FreeRingBehind DEF m
  <2> QED
    BY <2>3 DEF ResizedTo
<1>6. Linked(m) /\ UsedRing(m) = u
  BY <1>5, ShapeIsLinked
<1>7. Contents(m) = InOrder(m.data, u, size) /\ Contents(l) = InOrder(l.data, u, size)
  BY <1>1, <1>5, ContentsAre
<1>8. ASSUME NEW i \in 1..size
      PROVE  m.data[u[i + 1]] = l.data[u[i + 1]]
  <2>1. u[i + 1] \in 0..size
    BY <1>2 DEF Places
  <2> QED
    BY <1>5, <2>1
<1>9. InOrder(m.data, u, size) = InOrder(l.data, u, size)
  <2>1. size \in Nat
    BY <1>2
  <2> HIDE DEF size
  <2> QED
    BY <1>8, <2>1 DEF InOrder
<1> QED
  BY <1>1, <1>4, <1>5, <1>6, <1>7, <1>9 DEF u, last, Places

\* Freed, before the array is resized: the element at pos is gone.
LEMMA UnusedDeletes ==
    ASSUME NEW l, Linked(l), NEW size \in Nat, size = l.size, NEW pos \in 1..size
    PROVE  LET m == Unused(l, NodeAt(l, pos))
           IN  /\ Linked(m) /\ m.capacity = l.capacity /\ m.size = size - 1
               /\ Contents(m) = Without(Contents(l), size, pos)
<1> DEFINE c == l.capacity
           u == UsedRing(l)
           f == FreeRing(l)
           k == c - size
           s == size + 1
           p == pos + 1
           n == u[p]
           m == Unused(l, n)
           D == Data \cup {ZeroData}
<1>1. Shape(l, u, f)
  BY DEF Linked
<1> HIDE DEF u, f
<1>2. /\ c \in Nat /\ l \in ListOf(c) /\ u \in [1..s -> Places(c)] /\ k \in Nat /\ s \in Nat
      /\ Ring(l.next, l.prev, u, s)
  BY <1>1, ShapeFacts
<1>3. p \in 2..s /\ p \in 1..s /\ k = l.capacity - l.size /\ s = l.size + 1
  OBVIOUS
<1>4. NodeAt(l, pos) = n
  BY <1>1, ShapeNodes
<1> HIDE DEF k, s, p
<1>5. /\ Shape(m, Removed(u, s, p), Inserted(f, k, k, u[p]))
      /\ m.capacity = c /\ m.size = size - 1
      /\ m.data = Set1(l.data, n, ZeroData)
  <2>1. k \in Nat /\ s \in Nat /\ k = l.capacity - l.size /\ s = l.size + 1 /\ p \in 2..s
    BY <1>2, <1>3
  <2>2. /\ Shape(m, Removed(u, s, p), Inserted(f, k, k, u[p]))
        /\ m.capacity = l.capacity /\ m.size = l.size - 1
        /\ m.data = Set1(l.data, u[p], ZeroData)
    BY <1>1, <2>1, NodeFreed
  <2> QED
    BY <2>2
<1> HIDE DEF m
<1>6. l.data \in [Places(c) -> D] /\ n \in Places(c)
  BY <1>2, <1>3, ListFields
<1>7. m.data \in [Places(c) -> D]
  BY <1>5, <1>6 DEF Set1
<1>8. Contents(m) = InOrder(m.data, Removed(u, s, p), size - 1) /\ Contents(l) = InOrder(l.data, u, size)
  BY <1>1, <1>5, ContentsAre
<1>9. InOrder(m.data, Removed(u, s, p), size - 1) = Without(InOrder(l.data, u, size), size, pos)
  <2> DEFINE old == l.data
             data == m.data
             N == Places(c)
  <2>1. DatumDropped(N, D, old, data, size, u, pos, ZeroData)
    BY <1>2, <1>5, <1>6, <1>7 DEF DatumDropped, Ring, s, p
  <2> HIDE DEF old, data, D, N
  <2>2. InOrder(data, Removed(u, size + 1, pos + 1), size - 1) = Without(InOrder(old, u, size), size, pos)
    BY <2>1, RemovedContents
  <2> QED
    BY <2>2 DEF old, data, s, p
<1>10. Linked(m)
  BY <1>5, ShapeIsLinked
<1> QED
  BY <1>4, <1>5, <1>8, <1>9, <1>10 DEF m

-----------------------------------------------------------------------------
(* The operations                                                          *)

\* The capacity that ListResize gives to a list of n elements in c nodes.
Sized(n, c) ==
    IF n = c THEN 2 * c
    ELSE IF n < c \div 4 /\ c \div 2 >= MinCapacity THEN c \div 2 ELSE c

\* ListResize keeps the elements and gives the array the capacity of ListSpec.
\* Unless the array shrinks, every node stays where it is.
LEMMA Resized ==
    ASSUME NEW l, Linked(l), l.capacity > 0
    PROVE  LET m == ListResize(l)
           IN  /\ Linked(m) /\ m.size = l.size /\ Contents(m) = Contents(l)
               /\ m.capacity = Sized(l.size, l.capacity)
               /\ l.size = l.capacity \/ ~CheckDown(l) =>
                    /\ UsedRing(m) = UsedRing(l)
                    /\ \A n \in Places(l.capacity) : m.data[n] = l.data[n] /\ m.status[n] = l.status[n]
<1> DEFINE m == ListResize(l)
<1>1. l.capacity \in Nat /\ l.size \in 0..l.capacity
  BY ShapeFacts DEF Linked
<1>2. CASE l.size = l.capacity
  <2>1. m = ResizeUp(l)
    BY <1>2 DEF ListResize
  <2> QED
    BY <1>2, <2>1, Grown DEF Sized
<1>3. CASE l.size # l.capacity /\ CheckDown(l)
  <2>1. m = ResizeDown(MakeListGreatAgain(l))
    BY <1>3 DEF ListResize
  <2>2. l.size <= l.capacity \div 2
    BY <1>1, <1>3 DEF CheckDown
  <2>3. m.capacity = l.capacity \div 2 /\ Linked(m) /\ m.size = l.size /\ Contents(m) = Contents(l)
    BY <2>1, <2>2, Shrunk
  <2> QED
    BY <1>3, <2>3 DEF Sized, CheckDown
<1>4. CASE l.size # l.capacity /\ ~CheckDown(l)
  <2>1. m = l
    BY <1>4 DEF ListResize
  <2> QED
    BY <1>4, <2>1 DEF Sized, CheckDown
<1> QED
  BY <1>2, <1>3, <1>4

\* What an insertion finds after ListResize: the same elements in the same
\* nodes, and a free node.
LEMMA ReadyToInsert ==
    ASSUME ListSound
    PROVE  LET l == ListResize(list)
           IN  /\ Linked(l) /\ l.size = list.size /\ Contents(l) = Contents(list)
               /\ l.capacity = Sized(list.size, list.capacity)
               /\ l.size < l.capacity /\ list.capacity <= l.capacity
               /\ UsedRing(l) = UsedRing(list)
               /\ \A n \in Places(list.capacity) :
                    l.data[n] = list.data[n] /\ l.status[n] = list.status[n]
<1>1. /\ Linked(list) /\ list.capacity \in Nat /\ list.size \in 0..list.capacity
      /\ MinCapacity \in Nat \ {0} /\ list.capacity >= MinCapacity /\ ~CheckDown(list)
  BY ListAssumption, ShapeFacts DEF ListSound, Linked
<1>2. list.capacity > 0
  BY <1>1
<1>3. Sized(list.size, list.capacity) = IF list.size = list.capacity THEN 2 * list.capacity ELSE list.capacity
  BY <1>1 DEF Sized, CheckDown
<1>4. /\ list.size < Sized(list.size, list.capacity)
      /\ list.capacity <= Sized(list.size, list.capacity)
  BY <1>1, <1>2, <1>3
<1> QED
  BY <1>1, <1>2, <1>4, Resized

\* What every insertion leaves.
LEMMA AfterInsertion ==
    ASSUME ListSound, NEW m, NEW n, NEW data, NEW p, NEW d,
           Inserts(ListResize(list), m, n, data, p, d),
           data \in [Places(ListResize(list).capacity) -> Data \cup {ZeroData}]
    PROVE  /\ Linked(m) /\ ~CheckDown(m) /\ m.capacity >= MinCapacity
           /\ m.capacity = Sized(list.size, list.capacity)
           /\ m.size = list.size + 1
           /\ Contents(m) = With(InOrder(data, UsedRing(list), list.size), list.size, p, d)
           /\ \A x \in Places(list.capacity) : list.status[x] = "ENGAGED" =>
                    m.status[x] = "ENGAGED" /\ m.data[x] = data[x]
           /\ \A x \in Places(list.capacity) : x \in Places(m.capacity)
<1> DEFINE l == ListResize(list)
           c == l.capacity
<1>1. /\ Linked(l) /\ l.size = list.size /\ c = Sized(list.size, list.capacity)
      /\ l.size < c /\ list.capacity <= c
      /\ UsedRing(l) = UsedRing(list)
      /\ \A x \in Places(list.capacity) : l.status[x] = list.status[x]
  BY ReadyToInsert
<1>2. /\ Linked(m) /\ m.capacity = c /\ m.size = l.size + 1
      /\ n \in Places(c) /\ l.status[n] = "FREE"
      /\ m.status = Set1(l.status, n, "ENGAGED") /\ m.data = Set1(data, n, d)
      /\ Contents(m) = With(InOrder(data, UsedRing(l), l.size), l.size, p, d)
  BY DEF Inserts
<1>3. /\ list.capacity \in Nat /\ list.size \in 0..list.capacity
      /\ MinCapacity \in Nat \ {0} /\ list.capacity >= MinCapacity /\ ~CheckDown(list)
  BY ListAssumption, ShapeFacts DEF ListSound, Linked
<1>4. c \in Nat /\ l.status \in [Places(c) -> {"FREE", "ENGAGED", "MASTER"}]
  BY <1>1, ShapeFacts DEF Linked
<1> HIDE DEF l
<1>5. c = IF list.size = list.capacity THEN 2 * list.capacity ELSE list.capacity
  BY <1>1, <1>3 DEF Sized, CheckDown
<1> HIDE DEF c
<1>6. ~CheckDown(m)
  <2>1. ~(list.size + 1 < c \div 4 /\ c \div 2 >= MinCapacity)
    BY <1>3, <1>5 DEF CheckDown
  <2> QED
    BY <1>1, <1>2, <2>1 DEF CheckDown
<1>7. ASSUME NEW x \in Places(list.capacity)
      PROVE  x \in Places(c)
  BY <1>1, <1>3, <1>4 DEF Places
<1>8. ASSUME NEW x \in Places(list.capacity), list.status[x] = "ENGAGED"
      PROVE  m.status[x] = "ENGAGED" /\ m.data[x] = data[x]
  <2>1. x \in Places(c) /\ x # n
    BY <1>1, <1>2, <1>7, <1>8
  <2>2. data \in [Places(c) -> Data \cup {ZeroData}]
    BY DEF c, l
  <2>3. m.status[x] = l.status[x] /\ m.data[x] = data[x]
    BY <1>2, <1>4, <2>1, <2>2 DEF Set1
  <2> QED
    BY <1>1, <1>8, <2>3
<1>9. m.capacity >= MinCapacity
  BY <1>1, <1>2, <1>3, <1>4
<1> QED
  BY <1>1, <1>2, <1>6, <1>7, <1>8, <1>9

\* What every deletion leaves.
LEMMA AfterDeletion ==
    ASSUME ListSound, NEW pos \in 1..list.size
    PROVE  LET m == Freed(list, NodeAt(list, pos))
           IN  /\ Linked(m) /\ ~CheckDown(m) /\ m.capacity >= MinCapacity
               /\ m.capacity = Sized(list.size - 1, list.capacity)
               /\ m.size = list.size - 1
               /\ Contents(m) = Without(Contents(list), list.size, pos)
<1> DEFINE size == list.size
           c == list.capacity
           g == Unused(list, NodeAt(list, pos))
           m == ListResize(g)
<1>1. /\ Linked(list) /\ c \in Nat /\ size \in 0..c
      /\ MinCapacity \in Nat \ {0} /\ c >= MinCapacity /\ ~CheckDown(list)
  BY ListAssumption, ShapeFacts DEF ListSound, Linked
<1>2. /\ Linked(g) /\ g.capacity = c /\ g.size = size - 1
      /\ Contents(g) = Without(Contents(list), size, pos)
  <2>1. size \in Nat
    BY <1>1
  <2> QED
    BY <1>1, <2>1, UnusedDeletes
<1>3. Freed(list, NodeAt(list, pos)) = m
  BY DEF Freed, Unused
<1> HIDE DEF g
<1>4. /\ Linked(m) /\ m.size = size - 1 /\ Contents(m) = Contents(g)
      /\ m.capacity = Sized(size - 1, c)
  <2>1. g.capacity > 0
    BY <1>1, <1>2
  <2> QED
    BY <1>2, <2>1, Resized
<1> HIDE DEF m
<1>5. /\ Sized(size - 1, c) >= MinCapacity
      /\ ~(size - 1 < Sized(size - 1, c) \div 4 /\ Sized(size - 1, c) \div 2 >= MinCapacity)
  <2>1. ~(size < c \div 4 /\ c \div 2 >= MinCapacity)
    BY <1>1 DEF CheckDown
  <2>2. size - 1 # c
    BY <1>1
  <2> HIDE DEF size, c
  <2>3. CASE size - 1 < c \div 4 /\ c \div 2 >= MinCapacity
    <3>1. Sized(size - 1, c) = c \div 2
      BY <2>2, <2>3 DEF Sized
    <3> DEFINE h == c \div 2
    <3>2. h \in Nat /\ h >= MinCapacity /\ size >= c \div 4
      BY <1>1, <2>1, <2>3 DEF size
    <3>3. ~(size - 1 < h \div 4 /\ h \div 2 >= MinCapacity)
      BY <1>1, <3>2 DEF size
    <3> QED
      BY <3>1, <3>2, <3>3
  <2>4. CASE ~(size - 1 < c \div 4 /\ c \div 2 >= MinCapacity)
    <3>1. Sized(size - 1, c) = c
      BY <2>2, <2>4 DEF Sized
    <3> QED
      BY <1>1, <2>4, <3>1
  <2> QED
    BY <2>3, <2>4
<1>6. ~CheckDown(m) /\ m.capacity >= MinCapacity
  BY <1>4, <1>5 DEF CheckDown
<1> QED
  BY <1>2, <1>3, <1>4, <1>6

\* A used node that is given by its index has a position.
LEMMA UsedHasPosition ==
    ASSUME NEW l, Linked(l), NEW n \in Places(l.capacity), n # HEAD_ID, l.status[n] # "FREE"
    PROVE  \E pos \in 1..l.size : NodeAt(l, pos) = n
<1> DEFINE u == UsedRing(l)
           f == FreeRing(l)
<1>1. Shape(l, u, f)
  BY DEF Linked
<1> HIDE DEF u, f
<1>2. Covered(l.status, l.capacity, l.size, u, f) /\ l.size \in Nat
  BY <1>1, ShapeFacts
<1>3. PICK i \in 2..(l.size + 1) : u[i] = n
  BY <1>2 DEF Covered
<1>4. i - 1 \in 1..l.size /\ i - 1 \in 0..l.size /\ (i - 1) + 1 = i
  BY <1>2, <1>3
<1>5. NodeAt(l, i - 1) = u[(i - 1) + 1]
  BY <1>1, <1>4, ShapeNodes
<1> QED
  BY <1>3, <1>4, <1>5

\* The node at a position is a used one, and no two positions share a node.
LEMMA PositionIsUsed ==
    ASSUME NEW l, Linked(l), NEW pos \in 1..l.size
    PROVE  /\ NodeAt(l, pos) \in Places(l.capacity) /\ NodeAt(l, pos) # HEAD_ID
           /\ l.status[NodeAt(l, pos)] = "ENGAGED"
           /\ Contents(l)[pos] = l.data[NodeAt(l, pos)]
           /\ \A i \in 1..l.size : NodeAt(l, i) = NodeAt(l, pos) => i = pos
<1> DEFINE u == UsedRing(l)
           f == FreeRing(l)
<1>1. Shape(l, u, f)
  BY DEF Linked
<1> HIDE DEF u, f
<1>2. /\ l.size \in Nat /\ u \in [1..(l.size + 1) -> Places(l.capacity)] /\ u[1] = HEAD_ID
      /\ Ring(l.next, l.prev, u, l.size + 1)
      /\ \A i \in 2..(l.size + 1) : l.status[u[i]] = "ENGAGED"
  BY <1>1, ShapeFacts DEF Covered
<1>3. \A i \in 1..l.size : i \in 0..l.size /\ i + 1 \in 2..(l.size + 1) /\ i + 1 \in 1..(l.size + 1) /\ i + 1 # 1
  BY <1>2
<1>4. \A i \in 1..l.size : NodeAt(l, i) = u[i + 1]
  BY <1>1, <1>3, ShapeNodes
<1>5. ASSUME NEW i \in 1..l.size, NodeAt(l, i) = NodeAt(l, pos)
      PROVE  i = pos
  <2>1. u[i + 1] = u[pos + 1]
    BY <1>4, <1>5
  <2>2. i + 1 = pos + 1
    BY <1>2, <1>3, <2>1 DEF Ring
  <2> QED
    BY <1>2, <2>2
<1>6. u[pos + 1] # HEAD_ID
  <2>1. 1 \in 1..(l.size + 1)
    BY <1>2
  <2>2. u[pos + 1] # u[1]
    BY <1>3, <2>1, <1>2 DEF Ring
  <2> QED
    BY <1>2, <2>2
<1>7. Contents(l)[pos] = l.data[NodeAt(l, pos)]
  BY DEF Contents
<1> QED
  BY <1>2, <1>3, <1>4, <1>5, <1>6, <1>7

\* The list has gained d at position p, and no element has moved.
InsertStep(p, d) ==
    /\ ret' = "SUCCESS"
    /\ Linked(list') /\ ~CheckDown(list') /\ list'.capacity >= MinCapacity
    /\ list'.capacity = Sized(list.size, list.capacity)
    /\ list'.size = list.size + 1
    /\ Contents(list') = With(Contents(list), list.size, p, d)
    /\ \A n \in Places(list.capacity) : list.status[n] = "ENGAGED" =>
            list'.status[n] = "ENGAGED" /\ list'.data[n] = list.data[n]

\* d has taken the node of the element at pos, which has moved to the front.
DisplaceStep(pos, d) ==
    /\ ret' = "SUCCESS"
    /\ Linked(list') /\ ~CheckDown(list') /\ list'.capacity >= MinCapacity
    /\ list'.capacity = Sized(list.size, list.capacity)
    /\ list'.size = list.size + 1
    /\ Contents(list') = With(Set1(Contents(list), pos, d), list.size, 1, Contents(list)[pos])
    /\ \A n \in Places(list.capacity) : list.status[n] = "ENGAGED" =>
            list'.status[n] = "ENGAGED" /\ (n # NodeAt(list, pos) => list'.data[n] = list.data[n])

\* The list has lost the element at pos.
DeleteStep(pos) ==
    /\ ret' = "SUCCESS"
    /\ Linked(list') /\ ~CheckDown(list') /\ list'.capacity >= MinCapacity
    /\ list'.capacity = Sized(list.size - 1, list.capacity)
    /\ list'.size = list.size - 1
    /\ Contents(list') = Without(Contents(list), list.size, pos)

\* The operation has reported an error and done nothing.
ErrorStep == list' = list /\ ret' \in ErrCodes \ {"SUCCESS", "UNDEFINED"}

\* The data of a list that is ready for an insertion.
LEMMA ReadyData ==
    ASSUME ListSound
    PROVE  LET l == ListResize(list)
           IN  /\ l.data \in [Places(l.capacity) -> Data \cup {ZeroData}]
               /\ InOrder(l.data, UsedRing(list), list.size) = Contents(list)
               /\ \A n \in Places(list.capacity) : n \in Places(l.capacity)
<1> DEFINE l == ListResize(list)
           u == UsedRing(l)
           f == FreeRing(l)
<1>1. /\ Linked(l) /\ l.size = list.size /\ Contents(l) = Contents(list)
      /\ u = UsedRing(list) /\ list.capacity <= l.capacity
  BY ReadyToInsert
<1>2. list.capacity \in Nat
  BY ShapeFacts DEF ListSound, Linked
<1> HIDE DEF l
<1>3. Shape(l, u, f)
  BY <1>1 DEF Linked
<1> HIDE DEF u, f
<1>4. l.capacity \in Nat /\ l \in ListOf(l.capacity)
  BY <1>3, ShapeFacts
<1>5. l.data \in [Places(l.capacity) -> Data \cup {ZeroData}]
  BY <1>4, ListFields
<1>6. InOrder(l.data, u, l.size) = Contents(l)
  BY <1>3, ContentsAre
<1>7. \A n \in Places(list.capacity) : n \in Places(l.capacity)
  BY <1>1, <1>2, <1>4 DEF Places
<1> QED
  BY <1>1, <1>5, <1>6, <1>7 DEF l

\* An insertion that ListResize has made ready for.
LEMMA InsertsIsInsertStep ==
    ASSUME ListSound, NEW n, NEW p, NEW d,
           Inserts(ListResize(list), list', n, ListResize(list).data, p, d), ret' = "SUCCESS"
    PROVE  InsertStep(p, d)
<1> DEFINE data == ListResize(list).data
<1>1. /\ data \in [Places(ListResize(list).capacity) -> Data \cup {ZeroData}]
      /\ InOrder(data, UsedRing(list), list.size) = Contents(list)
  BY ReadyData
<1>2. \A x \in Places(list.capacity) : data[x] = list.data[x]
  BY ReadyToInsert
<1> HIDE DEF data
<1>3. /\ Linked(list') /\ ~CheckDown(list') /\ list'.capacity >= MinCapacity
      /\ list'.capacity = Sized(list.size, list.capacity)
      /\ list'.size = list.size + 1
      /\ Contents(list') = With(InOrder(data, UsedRing(list), list.size), list.size, p, d)
      /\ \A x \in Places(list.capacity) : list.status[x] = "ENGAGED" =>
                list'.status[x] = "ENGAGED" /\ list'.data[x] = data[x]
  BY <1>1, AfterInsertion DEF data
<1> QED
  BY <1>1, <1>2, <1>3 DEF InsertStep

\* ListInsertHead makes d the first element.
LEMMA InsertHeadStep ==
    ASSUME ListSound, NEW d \in Data, ListInsertHead(d)
    PROVE  InsertStep(1, d)
<1> DEFINE l == ListResize(list)
           n == FreeNode(l)
           t == TakeFreeList(l)
<1>1. Linked(l) /\ l.size < l.capacity
  BY ReadyToInsert
<1>2. list' = InsertRight(Engage(t, n, d), n, HEAD_ID) /\ ret' = "SUCCESS"
  BY DEF ListInsertHead, Returns
<1> HIDE DEF l
<1>3. Taken(l, t, n) /\ t.data = l.data
  BY <1>1, FirstIsTaken
<1> HIDE DEF n, t
<1>4. Inserts(l, list', n, l.data, 1, d)
  BY <1>1, <1>2, <1>3, InsertedFirst DEF n
<1> QED
  BY <1>2, <1>4, InsertsIsInsertStep DEF l

\* ListInsert makes d the element at its position, the last one when that is
\* 0, and is undefined for a position past the end.
LEMMA InsertPositionStep ==
    ASSUME ListSound, NEW d \in Data, NEW pos \in Nat, ListInsert(pos, d)
    PROVE  \/ ret' = "UNDEFINED" /\ pos > list.size + 1
           \/ pos <= list.size + 1 /\ InsertStep(IF pos = 0 THEN list.size + 1 ELSE pos, d)
<1> DEFINE l == ListResize(list)
           n == FreeNode(l)
           e == Engage(TakeFreeList(l), n, d)
           dest == GetElemIndex(e, pos)
<1>1. Linked(l) /\ l.size < l.capacity /\ l.size = list.size
  BY ReadyToInsert
<1>2. l.size \in Nat /\ l.capacity \in Nat
  BY <1>1, ShapeFacts DEF Linked
<1>3. IF dest = WRONG_POS
      THEN ret' = "UNDEFINED"
      ELSE ret' = "SUCCESS" /\ list' = InsertRight(e, n, e.prev[dest])
  BY DEF ListInsert, Returns
<1> HIDE DEF l
<1>4. IF pos > l.size + 1
      THEN dest = WRONG_POS
      ELSE /\ dest # WRONG_POS
           /\ Inserts(l, InsertRight(e, n, e.prev[dest]), n, l.data,
                      IF pos = 0 THEN l.size + 1 ELSE pos, d)
  <2> DEFINE k == l.capacity - l.size
             s == l.size + 1
  <2>1. k \in Nat /\ s \in Nat
    BY <1>1, <1>2
  <2>2. k = l.capacity - l.size /\ s = l.size + 1
    OBVIOUS
  <2> HIDE DEF k, s
  <2> QED
    BY <1>1, <2>1, <2>2, InsertedAtPosition
<1> HIDE DEF n, e, dest
<1>5. CASE pos > l.size + 1
  BY <1>1, <1>3, <1>4, <1>5
<1>6. CASE ~(pos > l.size + 1)
  <2> DEFINE p == IF pos = 0 THEN list.size + 1 ELSE pos
  <2>1. Inserts(l, list', n, l.data, p, d) /\ ret' = "SUCCESS"
    BY <1>1, <1>3, <1>4, <1>6
  <2> HIDE DEF p
  <2>2. InsertStep(p, d)
    BY <2>1, InsertsIsInsertStep DEF l
  <2> QED
    BY <1>1, <1>2, <1>6, <2>2 DEF p
<1> QED
  BY <1>5, <1>6

\* Another datum in a used node is another element at its position.
LEMMA DatumReplaced ==
    ASSUME NEW N, NEW D, NEW old \in [N -> D], NEW size \in Nat, NEW u \in [1..(size + 1) -> N],
           \A i, j \in 1..(size + 1) : u[i] = u[j] => i = j,
           NEW pos \in 1..size, NEW n \in N, n = u[pos + 1], NEW d \in D
    PROVE  InOrder(Set1(old, n, d), u, size) = Set1(InOrder(old, u, size), pos, d)
<1> DEFINE data == Set1(old, n, d)
           seq == InOrder(old, u, size)
<1>1. \A x \in N : data[x] = IF x = n THEN d ELSE old[x]
  BY DEF Set1
<1> HIDE DEF data
<1>2. \A i \in 1..size : u[i + 1] \in N /\ seq[i] = old[u[i + 1]]
  BY DEF InOrder
<1>3. ASSUME NEW i \in 1..size
      PROVE  data[u[i + 1]] = IF i = pos THEN d ELSE seq[i]
  <2>1. CASE i = pos
    BY <1>1, <2>1
  <2>2. CASE i # pos
    <3>1. i + 1 \in 1..(size + 1) /\ pos + 1 \in 1..(size + 1) /\ i + 1 # pos + 1
      BY <2>2
    <3>2. u[i + 1] # u[pos + 1]
      BY <3>1
    <3> QED
      BY <1>1, <1>2, <2>2, <3>2
  <2> QED
    BY <2>1, <2>2
<1>4. Set1(seq, pos, d) = [i \in 1..size |-> IF i = pos THEN d ELSE seq[i]]
  BY DEF Set1, InOrder
<1>5. InOrder(data, u, size) = [i \in 1..size |-> IF i = pos THEN d ELSE seq[i]]
  BY <1>3 DEF InOrder
<1> QED
  BY <1>4, <1>5 DEF data

\* The displaced element goes to the front.
LEMMA InsertsIsDisplaceStep ==
    ASSUME ListSound, NEW n, NEW d \in Data, NEW pos \in 1..list.size,
           Inserts(ListResize(list), list', n,
                   Set1(ListResize(list).data, NodeAt(list, pos), d), 1,
                   ListResize(list).data[NodeAt(list, pos)]),
           ret' = "SUCCESS"
    PROVE  DisplaceStep(pos, d)
<1> DEFINE l == ListResize(list)
           index == NodeAt(list, pos)
           data == Set1(l.data, index, d)
           x == l.data[index]
           N == Places(l.capacity)
           D == Data \cup {ZeroData}
           u == UsedRing(list)
<1>1. /\ l.data \in [N -> D] /\ InOrder(l.data, u, list.size) = Contents(list)
      /\ \A m \in Places(list.capacity) : m \in N /\ l.data[m] = list.data[m]
  BY ReadyData, ReadyToInsert
<1>2. /\ index \in Places(list.capacity) /\ Contents(list)[pos] = list.data[index]
  BY PositionIsUsed DEF ListSound
<1>3. data \in [N -> D] /\ \A m \in N : data[m] = IF m = index THEN d ELSE l.data[m]
  BY <1>1 DEF Set1
<1>4. x = Contents(list)[pos]
  BY <1>1, <1>2
<1>5. InOrder(data, u, list.size) = Set1(Contents(list), pos, d)
  <2> DEFINE size == list.size
             f == FreeRing(l)
  <2>1. /\ Shape(list, u, FreeRing(list)) /\ UsedRing(l) = u /\ l.size = size
        /\ Shape(l, u, f)
    BY ReadyToInsert DEF ListSound, Linked
  <2> HIDE DEF u, f, l
  <2>2. /\ size \in Nat /\ u \in [1..(size + 1) -> N]
        /\ \A i, j \in 1..(size + 1) : u[i] = u[j] => i = j
    BY <2>1, ShapeFacts DEF Ring
  <2>3. index = u[pos + 1]
    BY <2>1, ShapeNodes
  <2> DEFINE old == l.data
  <2>4. old \in [N -> D] /\ index \in N /\ d \in D
    BY <1>1, <1>2
  <2> HIDE DEF old, index, N, D, size
  <2>5. pos \in 1..size
    BY DEF size
  <2>6. InOrder(Set1(old, index, d), u, size) = Set1(InOrder(old, u, size), pos, d)
    BY <2>2, <2>3, <2>4, <2>5, DatumReplaced
  <2> QED
    BY <1>1, <2>6 DEF old, size, l
<1> HIDE DEF data, x, index
<1>6. /\ Linked(list') /\ ~CheckDown(list') /\ list'.capacity >= MinCapacity
      /\ list'.capacity = Sized(list.size, list.capacity)
      /\ list'.size = list.size + 1
      /\ Contents(list') = With(InOrder(data, UsedRing(list), list.size), list.size, 1, x)
      /\ \A m \in Places(list.capacity) : list.status[m] = "ENGAGED" =>
                list'.status[m] = "ENGAGED" /\ list'.data[m] = data[m]
  <2>1. Inserts(ListResize(list), list', n, data, 1, x)
    BY DEF data, x, index
  <2> HIDE DEF l
  <2> QED
    BY <1>3, <2>1, AfterInsertion DEF l
<1>7. \A m \in Places(list.capacity) : m # index => data[m] = list.data[m]
  BY <1>1, <1>3
<1> QED
  BY <1>4, <1>5, <1>6, <1>7 DEF DisplaceStep, index

\* ListInsertIndex on a free node appends, on a used one displaces.
LEMMA InsertIndexStep ==
    ASSUME ListSound, NEW d \in Data, NEW index \in Nat, ListInsertIndex(index, d)
    PROVE  \/ ErrorStep /\ (index = HEAD_ID \/ index > list.capacity)
           \/ /\ index \in 1..list.capacity /\ list.status[index] = "FREE"
              /\ InsertStep(list.size + 1, d)
           \/ /\ index \in 1..list.capacity /\ list.status[index] # "FREE"
              /\ \E pos \in 1..list.size : NodeAt(list, pos) = index /\ DisplaceStep(pos, d)
<1> DEFINE l == ListResize(list)
           n == FreeNode(l)
           t == TakeFreeList(l)
           t2 == [t EXCEPT !.data[index] = d]
<1>1. /\ Linked(l) /\ l.size < l.capacity /\ l.size = list.size
      /\ \A x \in Places(list.capacity) : l.status[x] = list.status[x]
  BY ReadyToInsert
<1>2. /\ l.data \in [Places(l.capacity) -> Data \cup {ZeroData}]
      /\ \A x \in Places(list.capacity) : x \in Places(l.capacity)
  BY ReadyData
<1>3. Linked(list) /\ list.capacity \in Nat
  BY ShapeFacts DEF ListSound, Linked
<1>4. CASE index = HEAD_ID
  <2>1. index \notin 1..list.capacity /\ ~(index > list.capacity)
    BY <1>3, <1>4 DEF HEAD_ID
  <2>2. ret' = "HEAD_INSERT" /\ list' = list
    BY <1>4, <2>1 DEF ListInsertIndex, Returns
  <2> QED
    BY <1>4, <2>2 DEF ErrorStep, ErrCodes
<1>5. CASE index # HEAD_ID /\ index > list.capacity
  BY <1>3, <1>5 DEF ListInsertIndex, Returns, ErrorStep, ErrCodes, HEAD_ID
<1>6. CASE index # HEAD_ID /\ ~(index > list.capacity)
  <2>1. index \in 1..list.capacity /\ index \in Places(list.capacity)
    BY <1>3, <1>6 DEF HEAD_ID, Places
  <2>2. l.status[index] = list.status[index] /\ index \in Places(l.capacity)
    BY <1>1, <1>2, <2>1
  <2>3. CASE l.status[index] = "FREE"
    <3>1. /\ ret' = "SUCCESS"
          /\ list' = InsertLeft(Engage(TakeFreeList_indx(l, index), index, d), index, HEAD_ID)
      BY <1>6, <2>1, <2>3 DEF ListInsertIndex, Returns
    <3> HIDE DEF l
    <3>2. Inserts(l, list', index, l.data, l.size + 1, d)
      BY <1>1, <2>2, <2>3, <3>1, InsertedLast
    <3>3. InsertStep(list.size + 1, d)
      BY <1>1, <3>1, <3>2, InsertsIsInsertStep DEF l
    <3> QED
      BY <2>1, <2>2, <2>3, <3>3
  <2>4. CASE l.status[index] # "FREE"
    <3>1. /\ ret' = "SUCCESS"
          /\ list' = InsertRight(Engage(t2, n, l.data[index]), n, HEAD_ID)
      BY <1>6, <2>1, <2>4 DEF ListInsertIndex, Returns
    <3>2. PICK pos \in 1..list.size : NodeAt(list, pos) = index
      BY <1>3, <1>6, <2>1, <2>2, <2>4, UsedHasPosition
    <3> HIDE DEF l
    <3>3. Taken(l, t2, n) /\ t2.data = Set1(l.data, index, d)
      BY <1>1, <2>2, FirstIsTaken
    <3>4. l.data[index] \in Data \cup {ZeroData}
      BY <1>2, <2>2
    <3> HIDE DEF n, t2
    <3>5. Inserts(l, list', n, t2.data, 1, l.data[index])
      BY <1>1, <3>1, <3>3, <3>4, InsertedFirst DEF n
    <3>6. DisplaceStep(pos, d)
      BY <3>1, <3>2, <3>3, <3>5, InsertsIsDisplaceStep DEF l
    <3> QED
      BY <2>1, <2>2, <2>4, <3>2, <3>6
  <2> QED
    BY <2>3, <2>4
<1> QED
  BY <1>4, <1>5, <1>6

\* A node is freed that is given by its position.
LEMMA FreedStep ==
    ASSUME ListSound, NEW pos \in 1..list.size, list' = Freed(list, NodeAt(list, pos)),
           ret' = "SUCCESS"
    PROVE  DeleteStep(pos)
BY AfterDeletion DEF DeleteStep

\* ListDelete removes the element at its position, or reports an error.
LEMMA DeletePositionStep ==
    ASSUME ListSound, NEW pos \in Nat, ListDelete(pos)
    PROVE  \/ ErrorStep /\ pos \notin 1..list.size
           \/ pos \in 1..list.size /\ DeleteStep(pos)
<1> DEFINE n == GetElemIndex(list, pos)
<1>1. Linked(list) /\ list.size \in Nat /\ list.capacity \in Nat
  BY ShapeFacts DEF ListSound, Linked
<1>2. CASE pos > list.size
  <2>1. n = WRONG_POS
    BY <1>2 DEF GetElemIndex
  <2> QED
    BY <1>1, <1>2, <2>1 DEF ListDelete, Returns, ErrorStep, ErrCodes
<1>3. CASE ~(pos > list.size)
  <2>1. n = NodeAt(list, pos)
    BY <1>3 DEF GetElemIndex
  <2>2. CASE pos = 0
    <3>1. n = HEAD_ID
      <4>1. Shape(list, UsedRing(list), FreeRing(list)) /\ 0 \in 0..list.size
        BY <1>1 DEF Linked
      <4>2. NodeAt(list, 0) = UsedRing(list)[1] /\ UsedRing(list)[1] = HEAD_ID
        BY <4>1, ShapeNodes, ShapeFacts
      <4> QED
        BY <2>1, <2>2, <4>2
    <3>2. ret' = "HEAD_DELEATE" /\ list' = list
      BY <3>1 DEF ListDelete, Returns, HEAD_ID, WRONG_POS
    <3> QED
      BY <2>2, <3>2 DEF ErrorStep, ErrCodes
  <2>3. CASE pos # 0
    <3>1. pos \in 1..list.size
      BY <1>1, <1>3, <2>3
    <3>2. n # HEAD_ID /\ n # WRONG_POS
      BY <1>1, <2>1, <3>1, PositionIsUsed DEF Places, WRONG_POS
    <3>3. ret' = "SUCCESS" /\ list' = Freed(list, n)
      BY <3>2 DEF ListDelete, Returns
    <3> QED
      BY <2>1, <3>1, <3>3, FreedStep
  <2> QED
    BY <2>2, <2>3
<1> QED
  BY <1>2, <1>3

\* ListDeleteIndex removes the element in its node, or reports an error.
LEMMA DeleteIndexStep ==
    ASSUME ListSound, NEW index \in Nat, ListDeleteIndex(index)
    PROVE  \/ ErrorStep /\ (index = HEAD_ID \/ index > list.capacity \/ list.status[index] = "FREE")
           \/ /\ index \in 1..list.capacity /\ list.status[index] # "FREE"
              /\ \E pos \in 1..list.size : NodeAt(list, pos) = index /\ DeleteStep(pos)
<1>1. Linked(list) /\ list.capacity \in Nat
  BY ShapeFacts DEF ListSound, Linked
<1>2. CASE index > list.capacity \/ (index \in Nodes(list) /\ list.status[index] = "FREE")
  BY <1>2 DEF ListDeleteIndex, Returns, ErrorStep, ErrCodes
<1>3. CASE ~(index > list.capacity \/ (index \in Nodes(list) /\ list.status[index] = "FREE"))
  <2>1. index \in Places(list.capacity) /\ list.status[index] # "FREE"
    BY <1>1, <1>3 DEF Nodes, Places
  <2>2. CASE index = HEAD_ID
    BY <1>3, <2>2 DEF ListDeleteIndex, Returns, ErrorStep, ErrCodes
  <2>3. CASE index # HEAD_ID
    <3>1. ret' = "SUCCESS" /\ list' = Freed(list, index)
      BY <1>3, <2>3 DEF ListDeleteIndex, Returns
    <3>2. PICK pos \in 1..list.size : NodeAt(list, pos) = index
      BY <1>1, <2>1, <2>3, UsedHasPosition
    <3>3. DeleteStep(pos)
      BY <3>1, <3>2, FreedStep
    <3>4. index \in 1..list.capacity
      BY <1>1, <2>1, <2>3 DEF Places, HEAD_ID
    <3> QED
      BY <2>1, <3>2, <3>3, <3>4
  <2> QED
    BY <2>2, <2>3
<1> QED
  BY <1>2, <1>3

-----------------------------------------------------------------------------
(* The inductive invariant                                                 *)

\* What an operation can have done.
StepOutcome ==
    \/ ErrorStep
    \/ ret' = "UNDEFINED"
    \/ \E d \in Data, pos \in 1..(list.size + 1) : InsertStep(pos, d)
    \/ \E d \in Data, pos \in 1..list.size : DisplaceStep(pos, d)
    \/ \E pos \in 1..list.size : DeleteStep(pos)

\* Every operation has one of these outcomes.
LEMMA NextOutcome ==
    ASSUME ListSound, Next
    PROVE  StepOutcome
<1>1. list.size \in Nat /\ list.capacity \in Nat /\ PastEnd \in Nat
  BY ShapeFacts, ListAssumption DEF ListSound, Linked
<1>2. ASSUME NEW d \in Data, ListInsertHead(d)
      PROVE  StepOutcome
  <2>1. InsertStep(1, d) /\ 1 \in 1..(list.size + 1)
    BY <1>1, <1>2, InsertHeadStep
  <2> QED
    BY <2>1 DEF StepOutcome
<1>3. ASSUME NEW d \in Data, NEW pos \in 0..(list.size + PastEnd), ListInsert(pos, d)
      PROVE  StepOutcome
  <2>1. pos \in Nat
    BY <1>1
  <2>2. CASE pos > list.size + 1
    BY <1>1, <1>3, <2>1, <2>2, InsertPositionStep DEF StepOutcome
  <2>3. CASE pos <= list.size + 1
    <3>1. InsertStep(IF pos = 0 THEN list.size + 1 ELSE pos, d)
      BY <1>1, <1>3, <2>1, <2>3, InsertPositionStep
    <3>2. (IF pos = 0 THEN list.size + 1 ELSE pos) \in 1..(list.size + 1)
      BY <1>1, <2>1, <2>3
    <3> QED
      BY <3>1, <3>2 DEF StepOutcome
  <2> QED
    BY <1>1, <2>1, <2>2, <2>3
<1>4. ASSUME NEW d \in Data, NEW index \in 0..(list.capacity + 1), ListInsertIndex(index, d)
      PROVE  StepOutcome
  <2>1. index \in Nat /\ list.size + 1 \in 1..(list.size + 1)
    BY <1>1
  <2> QED
    BY <1>4, <2>1, InsertIndexStep DEF StepOutcome
<1>5. ASSUME NEW pos \in 0..(list.size + 1), ListDelete(pos)
      PROVE  StepOutcome
  <2>1. pos \in Nat
    OBVIOUS
  <2> QED
    BY <1>5, <2>1, DeletePositionStep DEF StepOutcome
<1>6. ASSUME NEW index \in 0..(list.capacity + 1), ListDeleteIndex(index)
      PROVE  StepOutcome
  <2>1. index \in Nat
    OBVIOUS
  <2> QED
    BY <1>6, <2>1, DeleteIndexStep DEF StepOutcome
<1> QED
  BY <1>2, <1>3, <1>4, <1>5, <1>6 DEF Next

\* Every outcome keeps the rings, up to an insertion past the end.
LEMMA OutcomeKeepsInductive ==
    ASSUME ListSound, StepOutcome
    PROVE  ListInductive'
<1>1. CASE ErrorStep
  BY <1>1 DEF ListInductive, ListSound, ErrorStep
<1>2. CASE ret' = "UNDEFINED"
  BY <1>2 DEF ListInductive, Defined, ErrCodes
<1>3. CASE ~ErrorStep /\ ret' # "UNDEFINED"
  <2>1. /\ ret' = "SUCCESS"
        /\ Linked(list') /\ ~CheckDown(list') /\ list'.capacity >= MinCapacity
    BY <1>3 DEF StepOutcome, InsertStep, DisplaceStep, DeleteStep
  <2> QED
    BY <2>1 DEF ListInductive, ListSound, ErrCodes
<1> QED
  BY <1>1, <1>2, <1>3

\* ListInit makes a HEAD that is linked to itself and n free nodes.
LEMMA NewListIsLinked ==
    ASSUME NEW n \in Nat, n > 0
    PROVE  /\ Linked(NewList(n)) /\ NewList(n).capacity = n /\ NewList(n).size = 0
           /\ Contents(NewList(n)) = << >>
<1> DEFINE l0 == [status |-> [i \in {HEAD_ID} |-> "MASTER"],
                  data   |-> [i \in {HEAD_ID} |-> ZeroData],
                  next   |-> [i \in {HEAD_ID} |-> HEAD_ID],
                  prev   |-> [i \in {HEAD_ID} |-> HEAD_ID],
                  free |-> HEAD_ID, size |-> 0, capacity |-> 0]
           u == [i \in 1..1 |-> 0]
           m == WithFreeRing(l0, 1, n)
<1>1. l0 \in ListOf(0) /\ l0.size = 0
  <2>1. Places(0) = {HEAD_ID}
    BY DEF Places, HEAD_ID
  <2> QED
    BY <2>1 DEF ListOf
<1>2. UsedInFront(l0, u, 0)
  <2>1. l0.status = [i \in {0} |-> "MASTER"] /\ l0.next = [i \in {0} |-> 0] /\ l0.prev = [i \in {0} |-> 0]
    BY DEF HEAD_ID
  <2> HIDE DEF l0
  <2>2. Ring(l0.next, l0.prev, u, 0 + 1)
    BY <2>1 DEF Ring
  <2>3. u \in [1..(0 + 1) -> 0..0] /\ u[1] = HEAD_ID
    BY DEF HEAD_ID
  <2> HIDE DEF u
  <2> QED
    BY <2>1, <2>2, <2>3 DEF UsedInFront, HEAD_ID
<1>3. m = NewList(n)
  BY DEF NewList
<1> HIDE DEF l0, u, m
<1>4. /\ Shape(m, u, Behind(0, n)) /\ m.capacity = n /\ m.size = 0
  <2>1. 0 \in Nat /\ 0 <= n /\ 0 + 1 = 1
    OBVIOUS
  <2>2. ResizedTo(m, l0, u, 0, n)
    BY <1>1, <1>2, <2>1, FreeRingBehind DEF m
  <2> QED
    BY <2>2 DEF ResizedTo
<1>5. Contents(m) = << >>
  <2>1. Contents(m) = InOrder(m.data, u, m.size)
    BY <1>4, ContentsAre
  <2> QED
    BY <1>4, <2>1 DEF InOrder
<1> QED
  BY <1>3, <1>4, <1>5, ShapeIsLinked

\* ListInit makes the rings.
LEMMA InitInductive ==
    ASSUME Init
    PROVE  ListInductive
<1>1. MinCapacity \in Nat /\ MinCapacity > 0
  BY ListAssumption
<1>2. /\ Linked(list) /\ list.capacity = MinCapacity /\ list.size = 0
  BY <1>1, NewListIsLinked DEF Init
<1>3. ~CheckDown(list)
  BY <1>1, <1>2 DEF CheckDown
<1> QED
  BY <1>1, <1>2, <1>3 DEF ListInductive, ListSound, Init, ErrCodes

\* Nothing changes, nothing is lost.
LEMMA StutterKeepsInductive ==
    ASSUME ListInductive, UNCHANGED vars
    PROVE  ListInductive'
BY DEF ListInductive, ListSound, Defined, vars

\* Whatever sequence of operations has been called, the links make one ring of
\* the used nodes, in the order of the list, and one of the free nodes.
THEOREM ListInvariant == Spec => []ListInductive
<1>1. ListInductive /\ [Next]_vars => ListInductive'
  <2>1. ASSUME ListInductive, Next
        PROVE  ListInductive'
    <3>1. ListSound
      BY <2>1 DEF ListInductive, Next
    <3> QED
      BY <2>1, <3>1, NextOutcome, OutcomeKeepsInductive
  <2> QED
    BY <2>1, StutterKeepsInductive
<1> QED
  BY <1>1, InitInductive, PTL DEF Spec

\* An operation meets a sound list, and so does whoever looks at a defined one.
LEMMA SoundBefore ==
    ASSUME ListInductive
    PROVE  (Next \/ Defined) => ListSound
BY DEF ListInductive, Next

-----------------------------------------------------------------------------
(* What the operations keep                                                *)

\* The list is always a well-formed array that is no smaller than at first.
THEOREM ListTypeOK == Spec => []TypeOK
<1>1. ListInductive => TypeOK
  <2> SUFFICES ASSUME ListInductive PROVE TypeOK
    OBVIOUS
  <2>1. ASSUME Defined
        PROVE  ListSound /\ list.capacity \in Nat /\ list \in ListOf(list.capacity)
    BY <2>1, SoundBefore, ShapeFacts DEF ListSound, Linked
  <2> QED
    BY <2>1, ListFields DEF ListInductive, ListSound, TypeOK, Nodes
<1> QED
  BY <1>1, ListInvariant, PTL

\* A list that has grown and been emptied again gives its memory back.
THEOREM ListGivesBack == Spec => []SpaceBounded
<1>1. ListInductive => SpaceBounded
  <2> SUFFICES ASSUME ListInductive, Defined, list.capacity >= 2 * MinCapacity
               PROVE  list.capacity <= 4 * list.size + 3
    BY DEF SpaceBounded
  <2>1. /\ list.capacity \in Nat /\ list.size \in Nat /\ MinCapacity \in Nat
        /\ ~(list.size < list.capacity \div 4 /\ list.capacity \div 2 >= MinCapacity)
    BY SoundBefore, ShapeFacts, ListAssumption DEF ListSound, Linked, CheckDown
  <2> QED
    BY <2>1
<1> QED
  BY <1>1, ListInvariant, PTL

\* An insertion leaves every element in its node, but for the one whose node it
\* was given.
THEOREM ListInsertions == Spec => InsertKeepsNodes
<1> DEFINE Kept(n) == /\ list'.status[n] = "ENGAGED"
                      /\ list'.data[n] = list.data[n] \/ \E d \in Data : ListInsertIndex(n, d)
           AllKept == \A n \in Nodes(list) : list.status[n] = "ENGAGED" => Kept(n)
<1>1. ASSUME ListInductive, Next, Defined', list'.size > list.size
      PROVE  AllKept
  <2>1. ListSound
    BY <1>1, SoundBefore
  <2>2. list.size \in Nat /\ list.capacity \in Nat /\ PastEnd \in Nat
    BY <2>1, ShapeFacts, ListAssumption DEF ListSound, Linked
  <2>3. ~ErrorStep /\ ~ \E pos \in 1..list.size : DeleteStep(pos)
    BY <1>1, <2>2 DEF ErrorStep, DeleteStep
  <2>4. ret' # "UNDEFINED"
    BY <1>1 DEF Defined
  <2>5. ASSUME NEW p, NEW d, InsertStep(p, d)
        PROVE  AllKept
    BY <2>5 DEF InsertStep, Nodes
  <2>6. ASSUME NEW d \in Data, ListInsertHead(d)
        PROVE  AllKept
    <3>1. InsertStep(1, d)
      BY <2>1, <2>6, InsertHeadStep
    <3> QED
      BY <2>5, <3>1
  <2>7. ASSUME NEW d \in Data, NEW pos \in 0..(list.size + PastEnd), ListInsert(pos, d)
        PROVE  AllKept
    <3>1. pos \in Nat
      BY <2>2
    <3>2. InsertStep(IF pos = 0 THEN list.size + 1 ELSE pos, d)
      BY <2>1, <2>4, <2>7, <3>1, InsertPositionStep
    <3> QED
      BY <2>5, <3>2
  <2>8. ASSUME NEW d \in Data, NEW index \in 0..(list.capacity + 1), ListInsertIndex(index, d)
        PROVE  AllKept
    <3>1. index \in Nat
      BY <2>2
    <3>2. CASE InsertStep(list.size + 1, d)
      BY <2>5, <3>2
    <3>3. CASE \E pos \in 1..list.size : NodeAt(list, pos) = index /\ DisplaceStep(pos, d)
      <4>1. \A n \in Places(list.capacity) : list.status[n] = "ENGAGED" =>
                list'.status[n] = "ENGAGED" /\ (n # index => list'.data[n] = list.data[n])
        BY <3>3 DEF DisplaceStep
      <4> QED
        BY <2>8, <4>1 DEF Nodes
    <3> QED
      BY <2>1, <2>3, <2>8, <3>1, <3>2, <3>3, InsertIndexStep
  <2>9. ASSUME NEW pos \in 0..(list.size + 1), ListDelete(pos)
        PROVE  AllKept
    <3>1. pos \in Nat
      BY <2>2
    <3> QED
      BY <2>1, <2>3, <2>9, <3>1, DeletePositionStep
  <2>10. ASSUME NEW index \in 0..(list.capacity + 1), ListDeleteIndex(index)
         PROVE  AllKept
    <3>1. index \in Nat
      BY <2>2
    <3> QED
      BY <2>1, <2>3, <2>10, <3>1, DeleteIndexStep
  <2> HIDE DEF AllKept
  <2> QED
    BY <1>1, <2>6, <2>7, <2>8, <2>9, <2>10 DEF Next
<1>2. ListInductive /\ [Next]_vars => [Defined' /\ list'.size > list.size => AllKept]_vars
  BY <1>1 DEF vars
<1> QED
  BY <1>2, ListInvariant, PTL DEF Spec, InsertKeepsNodes

-----------------------------------------------------------------------------
(* The two rings as the validator sees them                                *)

\* A walk that starts in a ring never leaves it.
LEMMA WalkStays ==
    ASSUME NEW next, NEW prev, NEW k \in Nat, NEW r, Ring(next, prev, r, k), k > 0
    PROVE  \A i \in Nat : Walk(next, r[1], i) \in Named(r, k)
<1> DEFINE S == {i \in Nat : Walk(next, r[1], i) \notin Named(r, k)}
<1>1. SUFFICES ASSUME S # {} PROVE FALSE
  OBVIOUS
<1>2. S \subseteq Nat
  OBVIOUS
<1>3. PICK i \in S : \A j \in S : i <= j
  BY <1>1, <1>2, LeastNumber
<1>4. i \in Nat /\ Walk(next, r[1], i) \notin Named(r, k)
  OBVIOUS
<1>5. i # 0
  <2>1. Walk(next, r[1], 0) = r[1]
    BY WalkSteps
  <2>2. r[1] \in Named(r, k)
    BY DEF Named
  <2> QED
    BY <1>4, <2>1, <2>2
<1>6. i - 1 \in Nat /\ ~(i <= i - 1) /\ (i - 1) + 1 = i
  BY <1>4, <1>5
<1>7. Walk(next, r[1], i - 1) \in Named(r, k)
  BY <1>3, <1>6
<1>8. Walk(next, r[1], (i - 1) + 1) = next[Walk(next, r[1], i - 1)]
  <2>1. \A j \in Nat : Walk(next, r[1], j + 1) = next[Walk(next, r[1], j)]
    BY WalkSteps
  <2> QED
    BY <1>6, <2>1
<1>9. \A x \in Named(r, k) : next[x] \in Named(r, k)
  <2>1. ASSUME NEW j \in 1..k
        PROVE  next[r[j]] \in Named(r, k)
    BY <2>1, NeighboursInRing
  <2> QED
    BY <2>1 DEF Named
<1> QED
  BY <1>4, <1>6, <1>7, <1>8, <1>9

\* Every node is in one of the rings.
LEMMA EveryNodeIsNamed ==
    ASSUME NEW l, NEW u, NEW f, Shape(l, u, f), NEW n \in Places(l.capacity)
    PROVE  \/ \E i \in 1..(l.size + 1) : n = u[i]
           \/ \E i \in 1..(l.capacity - l.size) : n = f[i]
<1>1. /\ Covered(l.status, l.capacity, l.size, u, f) /\ l.size \in Nat /\ u[1] = HEAD_ID
      /\ \A i \in 2..(l.size + 1) : i \in 1..(l.size + 1)
      /\ 1 \in 1..(l.size + 1)
  BY ShapeFacts
<1> QED
  BY <1>1 DEF Covered

\* A ring of free nodes is what a walk from free_head_id visits.
LEMMA FreeWalk ==
    ASSUME NEW l, NEW u, NEW f, Shape(l, u, f)
    PROVE  {n \in Places(l.capacity) : l.status[n] = "FREE"} =
             (IF l.free = HEAD_ID THEN {} ELSE {Walk(l.next, l.free, i) : i \in 0..l.capacity})
<1> DEFINE c == l.capacity
           k == c - l.size
<1>1. /\ c \in Nat /\ l.size \in 0..c /\ k \in Nat /\ f \in [1..k -> Places(c)]
      /\ l.free = IF l.size = c THEN HEAD_ID ELSE f[1]
      /\ Ring(l.next, l.prev, f, k) /\ Covered(l.status, c, l.size, u, f) /\ u[1] = HEAD_ID
  BY ShapeFacts
<1>2. CASE l.size = c
  <2>1. ASSUME NEW n \in Places(c), l.status[n] = "FREE"
        PROVE  FALSE
    BY <1>1, <1>2, <2>1, FreeIsNamed
  <2> QED
    BY <1>1, <1>2, <2>1
<1>3. CASE l.size # c
  <2>1. k > 0 /\ 1 \in 1..k /\ 1 \in 1..(l.size + 1) /\ l.free = f[1]
    BY <1>1, <1>3
  <2>2. l.free # HEAD_ID
    BY <1>1, <2>1, NodesApart
  <2>3. \A i \in 1..k : i - 1 \in 0..c /\ Walk(l.next, f[1], i - 1) = f[i]
    BY <1>1, <2>1, RingWalk
  <2>4. \A i \in 0..c : Walk(l.next, f[1], i) \in Named(f, k)
    BY <1>1, <2>1, WalkStays
  <2>5. \A i \in 1..k : f[i] \in Places(c) /\ l.status[f[i]] = "FREE"
    BY <1>1 DEF Covered
  <2>6. \A n \in Places(c) : l.status[n] = "FREE" => \E i \in 1..k : n = f[i]
    BY FreeIsNamed
  <2> HIDE DEF c, k
  <2>7. ASSUME NEW n \in Places(c), l.status[n] = "FREE"
        PROVE  n \in {Walk(l.next, l.free, i) : i \in 0..c}
    <3>1. PICK i \in 1..k : n = f[i]
      BY <2>6, <2>7
    <3>2. n = Walk(l.next, f[1], i - 1) /\ i - 1 \in 0..c
      BY <2>3, <3>1
    <3> QED
      BY <2>1, <3>2
  <2>8. ASSUME NEW i \in 0..c
        PROVE  Walk(l.next, l.free, i) \in {n \in Places(c) : l.status[n] = "FREE"}
    BY <2>1, <2>4, <2>5 DEF Named
  <2>9. {n \in Places(c) : l.status[n] = "FREE"} = {Walk(l.next, l.free, i) : i \in 0..c}
    BY <2>7, <2>8
  <2> QED
    BY <2>2, <2>9 DEF c
<1> QED
  BY <1>2, <1>3

\* The two rings are what RingsIntact asks for.
LEMMA LinkedIsIntact ==
    ASSUME NEW l, Linked(l)
    PROVE  RingsIntact(l)
<1> DEFINE u == UsedRing(l)
           f == FreeRing(l)
           c == l.capacity
           s == l.size + 1
           k == c - l.size
<1>1. Shape(l, u, f)
  BY DEF Linked
<1> HIDE DEF u, f
<1>2. /\ c \in Nat /\ l.size \in 0..c /\ k \in Nat /\ s \in Nat
      /\ Ring(l.next, l.prev, u, s) /\ Ring(l.next, l.prev, f, k)
      /\ u[1] = HEAD_ID
      /\ Covered(l.status, c, l.size, u, f)
  BY <1>1, ShapeFacts
<1>3. \A n \in Places(c) : l.prev[l.next[n]] = n /\ l.next[l.prev[n]] = n
  <2>1. ASSUME NEW n \in Places(c)
        PROVE  l.prev[l.next[n]] = n /\ l.next[l.prev[n]] = n
    <3>1. CASE \E i \in 1..s : n = u[i]
      BY <1>2, <3>1, LinksAreInverse
    <3>2. CASE \E i \in 1..k : n = f[i]
      BY <1>2, <3>2, LinksAreInverse
    <3> QED
      BY <1>1, <3>1, <3>2, EveryNodeIsNamed
  <2> QED
    BY <2>1
<1>4. {n \in Places(c) : l.status[n] = "MASTER"} = {HEAD_ID}
  <2>1. HEAD_ID \in Places(c) /\ l.status[HEAD_ID] = "MASTER"
    BY <1>2, HeadIsAPlace DEF Covered
  <2>2. \A n \in Places(c) : n # HEAD_ID => l.status[n] # "MASTER"
    BY <1>2 DEF Covered
  <2> QED
    BY <2>1, <2>2
<1>5. {NodeAt(l, i) : i \in 1..l.size} = {n \in Places(c) : l.status[n] = "ENGAGED"}
  <2>1. \A i \in 1..l.size : NodeAt(l, i) \in Places(c) /\ l.status[NodeAt(l, i)] = "ENGAGED"
    BY PositionIsUsed
  <2>2. ASSUME NEW n \in Places(c), l.status[n] = "ENGAGED"
        PROVE  \E i \in 1..l.size : NodeAt(l, i) = n
    <3>1. n # HEAD_ID
      BY <1>2, <2>2 DEF Covered
    <3> QED
      BY <2>2, <3>1, UsedHasPosition
  <2> HIDE DEF c
  <2> QED
    BY <2>1, <2>2
<1>6. NodeAt(l, l.size + 1) = HEAD_ID
  BY <1>1, ShapeNodes
<1>7. {n \in Places(c) : l.status[n] = "FREE"} =
          (IF l.free = HEAD_ID THEN {} ELSE {Walk(l.next, l.free, i) : i \in 0..l.capacity})
  BY <1>1, FreeWalk
<1> QED
  BY <1>3, <1>4, <1>5, <1>6, <1>7 DEF RingsIntact, Nodes

\* MakeListGreatAgain keeps the elements, whatever the size of the list.
LEMMA OrderedIsLinked ==
    ASSUME NEW l, Linked(l)
    PROVE  LET m == MakeListGreatAgain(l)
           IN  Linked(m) /\ Contents(m) = Contents(l)
<1> DEFINE size == l.size
           c == l.capacity
           m == MakeListGreatAgain(l)
<1>1. Shape(l, UsedRing(l), FreeRing(l))
  BY DEF Linked
<1>2. size \in Nat /\ c \in Nat
  BY <1>1, ShapeFacts
<1> HIDE DEF m, size, c
<1>3. /\ Shape(m, Line(size), Behind(size, c)) /\ m.size = size
      /\ InOrder(m.data, Line(size), size) = Contents(l)
  BY <1>1, <1>2, Linearised DEF m, size, c
<1>4. Contents(m) = Contents(l) /\ Linked(m)
  BY <1>3, ContentsAre, ShapeIsLinked
<1> QED
  BY <1>4 DEF m

\* Putting the elements in order and cutting the array behind them keeps the
\* elements, their order and the two rings.
THEOREM ListShrinks == Spec => []ShrinkKeepsContents
<1>1. ListInductive => ShrinkKeepsContents
  <2> SUFFICES ASSUME ListSound PROVE ShrinkKeepsContents
    BY SoundBefore DEF ShrinkKeepsContents
  <2> DEFINE flat == MakeListGreatAgain(list)
             small == ResizeDown(flat)
  <2>1. Linked(list)
    BY DEF ListSound
  <2>2. Contents(flat) = Contents(list) /\ Linked(flat)
    BY <2>1, OrderedIsLinked
  <2>3. list.size <= list.capacity \div 2 => Contents(small) = Contents(list) /\ Linked(small)
    BY <2>1, Shrunk
  <2> HIDE DEF flat, small
  <2> QED
    BY <2>2, <2>3, LinkedIsIntact DEF ShrinkKeepsContents, flat, small
<1> QED
  BY <1>1, ListInvariant, PTL

\* The size of a set that is named without repetition.
LEMMA CountNamed ==
    ASSUME NEW n \in Nat, NEW S, NEW r \in [1..n -> S],
           \A i, j \in 1..n : r[i] = r[j] => i = j,
           \A x \in S : \E i \in 1..n : r[i] = x
    PROVE  Cardinality(S) = n
<1>1. r \in Bijection(1..n, S)
  BY DEF Bijection, Injection, Surjection, IsInjective
<1> QED
  BY <1>1, FS_CountingElements DEF ExistsBijection

\* The counters of the validator.
LEMMA LinkedCounts ==
    ASSUME NEW l, Linked(l)
    PROVE  /\ Cardinality({n \in Nodes(l) : l.status[n] = "ENGAGED"}) = l.size
           /\ Cardinality({n \in Nodes(l) : l.status[n] = "FREE"}) = l.capacity - l.size
<1> DEFINE u == UsedRing(l)
           f == FreeRing(l)
           c == l.capacity
           k == c - l.size
           E == {n \in Places(c) : l.status[n] = "ENGAGED"}
           F == {n \in Places(c) : l.status[n] = "FREE"}
           r == [i \in 1..l.size |-> NodeAt(l, i)]
<1>1. Shape(l, u, f)
  BY DEF Linked
<1> HIDE DEF u, f
<1>2. /\ l.size \in Nat /\ k \in Nat /\ f \in [1..k -> Places(c)]
      /\ Ring(l.next, l.prev, f, k)
      /\ Covered(l.status, c, l.size, u, f)
  BY <1>1, ShapeFacts
<1>3. Cardinality(E) = l.size
  <2>1. \A i \in 1..l.size : r[i] \in E
    BY PositionIsUsed
  <2>2. \A i, j \in 1..l.size : r[i] = r[j] => i = j
    BY PositionIsUsed
  <2>3. \A n \in E : \E i \in 1..l.size : r[i] = n
    <3>1. ASSUME NEW n \in Places(c), l.status[n] = "ENGAGED"
          PROVE  \E i \in 1..l.size : NodeAt(l, i) = n
      <4>1. n # HEAD_ID
        BY <1>2, <3>1 DEF Covered
      <4> QED
        BY <3>1, <4>1, UsedHasPosition
    <3> QED
      BY <3>1
  <2>4. r \in [1..l.size -> E]
    BY <2>1
  <2> HIDE DEF r, E
  <2> QED
    BY <1>2, <2>2, <2>3, <2>4, CountNamed
<1>4. Cardinality(F) = k
  <2>1. \A i \in 1..k : f[i] \in F
    BY <1>2 DEF Covered
  <2>2. \A i, j \in 1..k : f[i] = f[j] => i = j
    BY <1>2 DEF Ring
  <2>3. \A n \in F : \E i \in 1..k : f[i] = n
    BY <1>1, FreeIsNamed
  <2> HIDE DEF F
  <2>4. f \in [1..k -> F]
    BY <1>2, <2>1
  <2> HIDE DEF k
  <2> QED
    BY <1>2, <2>2, <2>3, <2>4, CountNamed
<1> QED
  BY <1>3, <1>4 DEF Nodes

\* The validator accepts the list after every operation.
THEOREM ListIsValid == Spec => []ListValid
<1>1. ListInductive => ListValid
  <2> SUFFICES ASSUME ListSound PROVE ListValid
    BY SoundBefore DEF ListValid
  <2> DEFINE u == UsedRing(list)
             f == FreeRing(list)
             s == list.size + 1
             k == list.capacity - list.size
  <2>1. Shape(list, u, f) /\ Linked(list) /\ list.capacity >= MinCapacity
    BY DEF ListSound, Linked
  <2> HIDE DEF u, f
  <2>2. /\ list.capacity \in Nat /\ list.size \in 0..list.capacity /\ k \in Nat
        /\ s \in Nat /\ s > 0 /\ 1 \in 1..s
        /\ list.free = IF list.size = list.capacity THEN HEAD_ID ELSE f[1]
        /\ Ring(list.next, list.prev, u, s) /\ u[1] = HEAD_ID
        /\ Ring(list.next, list.prev, f, k)
    BY <2>1, ShapeFacts
  <2>3. list.size <= list.capacity /\ list.capacity > 0
    BY <2>1, <2>2, ListAssumption
  <2>4. list.size > 1 => list.next[HEAD_ID] # HEAD_ID
    <3>1. list.next[u[1]] = u[1] <=> s = 1
      BY <2>2, AloneInRing
    <3> QED
      BY <2>2, <3>1
  <2>5. Walk(list.next, HEAD_ID, s) = HEAD_ID /\ Walk(list.prev, HEAD_ID, s) = HEAD_ID
    <3> HIDE DEF s
    <3>1. Walk(list.next, u[1], s) = u[1] /\ Walk(list.prev, u[1], s) = u[1]
      <4>1. s \in Nat /\ s > 0 /\ Ring(list.next, list.prev, u, s)
        BY <2>2
      <4> QED
        BY <4>1, RingWalk
    <3> QED
      BY <2>2, <3>1
  <2>6. ASSUME k > 0
        PROVE  /\ k > 1 => list.next[list.free] # list.free
               /\ Walk(list.next, list.free, k) = list.free
               /\ Walk(list.prev, list.free, k) = list.free
    <3>1. list.free = f[1] /\ 1 \in 1..k
      BY <2>2, <2>6
    <3> HIDE DEF k
    <3>2. k \in Nat /\ k > 0 /\ Ring(list.next, list.prev, f, k)
      BY <2>2, <2>6
    <3>3. Walk(list.next, f[1], k) = f[1] /\ Walk(list.prev, f[1], k) = f[1]
      BY <3>2, RingWalk
    <3>4. list.next[f[1]] = f[1] <=> k = 1
      BY <3>1, <3>2, AloneInRing
    <3> QED
      BY <3>1, <3>2, <3>3, <3>4
  <2>7. /\ Cardinality({n \in Nodes(list) : list.status[n] = "ENGAGED"}) = list.size
        /\ Cardinality({n \in Nodes(list) : list.status[n] = "FREE"}) = k
    BY <2>1, LinkedCounts
  <2>8. k > 1 => k > 0
    BY <2>2
  <2> QED
    BY <2>3, <2>4, <2>5, <2>6, <2>7, <2>8 DEF ListValid
<1> QED
  BY <1>1, ListInvariant, PTL

-----------------------------------------------------------------------------
(* The sequence that the list implements                                   *)

\* The elements as a sequence.
LEMMA ContentsIsASequence ==
    ASSUME NEW l, Linked(l)
    PROVE  /\ l.size \in Nat /\ l.capacity \in Nat
           /\ Contents(l) \in [1..l.size -> Data \cup {ZeroData}]
           /\ Contents(l) \in Seq(Data \cup {ZeroData})
           /\ Len(Contents(l)) = l.size
<1>1. /\ l.size \in Nat /\ l.capacity \in Nat
      /\ l.data \in [Places(l.capacity) -> Data \cup {ZeroData}]
  BY ShapeFacts, ListFields DEF Linked
<1>2. \A pos \in 1..l.size : l.data[NodeAt(l, pos)] \in Data \cup {ZeroData}
  BY <1>1, PositionIsUsed
<1>3. Contents(l) \in [1..l.size -> Data \cup {ZeroData}]
  BY <1>2 DEF Contents
<1> HIDE DEF Contents
<1> QED
  BY <1>1, <1>3

\* With and Inserted, Without and Removed are the same operators.
LEMMA InsertIsAbstract ==
    ASSUME ListSound, NEW p, NEW d, InsertStep(p, d)
    PROVE  Abstract!InsertAt(p, d)
<1>1. Len(Contents(list)) = list.size
  BY ContentsIsASequence DEF ListSound
<1>2. Contents(list') = With(Contents(list), list.size, p, d)
      /\ list'.capacity = Sized(list.size, list.capacity)
  BY DEF InsertStep
<1> QED
  BY <1>1, <1>2 DEF Abstract!InsertAt, Abstract!Inserted, Abstract!ResizedFor, With, Sized

\* Without, of the proofs, is Removed of ListSpec.
LEMMA DeleteIsAbstract ==
    ASSUME ListSound, NEW p \in 1..list.size, DeleteStep(p)
    PROVE  Abstract!DeleteAt(p)
<1>1. Len(Contents(list)) = list.size
  BY ContentsIsASequence DEF ListSound
<1>2. Contents(list') = Without(Contents(list), list.size, p)
      /\ list'.capacity = Sized(list.size - 1, list.capacity)
  BY DEF DeleteStep
<1> QED
  BY <1>1, <1>2 DEF Abstract!DeleteAt, Abstract!Removed, Abstract!ResizedFor, Without, Sized

\* With, at position 1, puts its element in front.
LEMMA InFront ==
    ASSUME NEW D, NEW n \in Nat, NEW seq \in Seq(D), Len(seq) = n, NEW x \in D, NEW d
    PROVE  With(seq, n, 1, x) = <<x>> \o seq
BY DEF With

\* What ListInsertIndex does to a used node is Displace of ListSpec.
LEMMA DisplaceIsAbstract ==
    ASSUME ListSound, NEW p \in 1..list.size, NEW d \in Data, DisplaceStep(p, d)
    PROVE  Abstract!Displace(p, d)
<1> DEFINE c == Contents(list)
           D == Data \cup {ZeroData}
           r == [c EXCEPT ![p] = d]
<1>1. /\ list.size \in Nat /\ c \in [1..list.size -> D] /\ c \in Seq(D) /\ Len(c) = list.size
  BY ContentsIsASequence DEF ListSound
<1>2. /\ Contents(list') = With(Set1(c, p, d), list.size, 1, c[p])
      /\ list'.capacity = Sized(list.size, list.capacity)
  BY DEF DisplaceStep
<1>3. r \in Seq(D) /\ Len(r) = list.size /\ c[p] \in D /\ Set1(c, p, d) = r
  BY <1>1 DEF Set1
<1>4. Contents(list') = <<c[p]>> \o r
  <2> HIDE DEF c, r, D
  <2> QED
    BY <1>1, <1>2, <1>3, InFront
<1>5. list'.capacity = Abstract!ResizedFor(Len(c))
  BY <1>1, <1>2 DEF Abstract!ResizedFor, Sized
<1> QED
  BY <1>1, <1>4, <1>5 DEF Abstract!Displace

\* A new list implements the empty sequence.
LEMMA AbstractStart ==
    ASSUME Init
    PROVE  Abstract!ListInit
<1>1. list = NewList(MinCapacity) /\ MinCapacity \in Nat /\ MinCapacity > 0
  BY ListAssumption DEF Init
<1>2. Contents(list) = << >> /\ list.capacity = MinCapacity
  BY <1>1, NewListIsLinked
<1> QED
  BY <1>2 DEF Abstract!ListInit

\* Every operation is one of ListSpec or leaves sequence and capacity.
LEMMA AbstractStep ==
    ASSUME ListInductive, Next, Defined'
    PROVE  UNCHANGED << Contents(list), list.capacity >> \/ Abstract!Next
<1>1. ListSound
  BY SoundBefore
<1>2. list.size \in Nat /\ Len(Contents(list)) = list.size
  BY <1>1, ContentsIsASequence DEF ListSound
<1>3. CASE ErrorStep
  BY <1>3 DEF ErrorStep
<1>4. CASE \E d \in Data, pos \in 1..(list.size + 1) : InsertStep(pos, d)
  BY <1>1, <1>2, <1>4, InsertIsAbstract DEF Abstract!Next
<1>5. CASE \E d \in Data, pos \in 1..list.size : DisplaceStep(pos, d)
  BY <1>1, <1>2, <1>5, DisplaceIsAbstract DEF Abstract!Next
<1>6. CASE \E pos \in 1..list.size : DeleteStep(pos)
  BY <1>1, <1>2, <1>6, DeleteIsAbstract DEF Abstract!Next
<1>7. StepOutcome /\ ret' # "UNDEFINED"
  BY <1>1, NextOutcome DEF Defined
<1> QED
  BY <1>3, <1>4, <1>5, <1>6, <1>7 DEF StepOutcome

\* The linked array is a sequence to its users: the links, the free ring and the
\* resizing never show.
THEOREM ListIsASequence == Spec => ImplementsListSpec
<1> DEFINE Step == UNCHANGED << Contents(list), list.capacity >> \/ Abstract!Next
<1>1. Init => Abstract!ListInit
  BY AbstractStart
<1>2. ListInductive /\ [Next]_vars => [Defined' => Step]_vars
  <2> HIDE DEF Step
  <2>1. ASSUME ListInductive, Next, Defined'
        PROVE  Step
    BY <2>1, AbstractStep DEF Step
  <2> QED
    BY <2>1
<1> QED
  BY <1>1, <1>2, ListInvariant, PTL DEF Spec, ImplementsListSpec

\* A used node has one position.
LEMMA PlaceOf ==
    ASSUME NEW l, Linked(l), NEW pos \in 1..l.size
    PROVE  pos = CHOOSE p \in 1..l.size : NodeAt(l, p) = NodeAt(l, pos)
BY PositionIsUsed

\* Each operation does to the sequence what its name says.
THEOREM ListOperations == Spec => OperationsAreExact
<1> DEFINE n == list.size
           Place(index) == CHOOSE pos \in 1..n : NodeAt(list, pos) = index
           Exact == 
             /\ \A d \in Data : ListInsertHead(d) => Abstract!InsertAt(1, d)
             /\ \A d \in Data, pos \in 1..(n + 1) :
                    ListInsert(pos, d) => Abstract!InsertAt(pos, d)
             /\ \A d \in Data : ListInsert(0, d) => Abstract!InsertAt(n + 1, d)
             /\ \A pos \in 1..n : ListDelete(pos) => Abstract!DeleteAt(pos)
             /\ \A index \in 1..list.capacity :
                    /\ ListDeleteIndex(index) => Abstract!DeleteAt(Place(index))
                    /\ \A d \in Data : ListInsertIndex(index, d) =>
                          IF list.status[index] = "FREE" THEN Abstract!InsertAt(n + 1, d)
                          ELSE Abstract!Displace(Place(index), d)
<1>1. ASSUME ListSound, ret' = "SUCCESS"
      PROVE  Exact
  <2>1. n \in Nat /\ Linked(list) /\ ~ErrorStep /\ list.capacity \in Nat
    BY <1>1, ContentsIsASequence DEF ListSound, ErrorStep
  <2>2. ASSUME NEW d \in Data, ListInsertHead(d)
        PROVE  Abstract!InsertAt(1, d)
    BY <1>1, <2>2, InsertHeadStep, InsertIsAbstract
  <2>3. ASSUME NEW d \in Data, NEW pos \in 1..(n + 1), ListInsert(pos, d)
        PROVE  Abstract!InsertAt(pos, d)
    <3>1. pos \in Nat /\ pos # 0
      BY <2>1
    <3>2. InsertStep(pos, d)
      BY <1>1, <2>1, <2>3, <3>1, InsertPositionStep
    <3> QED
      BY <1>1, <3>2, InsertIsAbstract
  <2>4. ASSUME NEW d \in Data, ListInsert(0, d)
        PROVE  Abstract!InsertAt(n + 1, d)
    <3>1. InsertStep(n + 1, d)
      BY <1>1, <2>1, <2>4, InsertPositionStep
    <3> QED
      BY <1>1, <3>1, InsertIsAbstract
  <2>5. ASSUME NEW pos \in 1..n, ListDelete(pos)
        PROVE  Abstract!DeleteAt(pos)
    <3>1. pos \in Nat
      BY <2>1
    <3>2. DeleteStep(pos)
      BY <1>1, <2>1, <2>5, <3>1, DeletePositionStep
    <3> QED
      BY <1>1, <3>2, DeleteIsAbstract
  <2>6. ASSUME NEW index \in 1..list.capacity, ListDeleteIndex(index)
        PROVE  Abstract!DeleteAt(Place(index))
    <3>1. index \in Nat
      BY <2>1
    <3>2. PICK pos \in 1..n : NodeAt(list, pos) = index /\ DeleteStep(pos)
      BY <1>1, <2>1, <2>6, <3>1, DeleteIndexStep
    <3>3. pos = Place(index)
      BY <2>1, <3>2, PlaceOf
    <3>4. Abstract!DeleteAt(pos)
      BY <1>1, <3>2, DeleteIsAbstract
    <3> QED
      BY <3>3, <3>4
  <2>7. ASSUME NEW index \in 1..list.capacity, NEW d \in Data, ListInsertIndex(index, d)
        PROVE  IF list.status[index] = "FREE" THEN Abstract!InsertAt(n + 1, d)
               ELSE Abstract!Displace(Place(index), d)
    <3>1. index \in Nat
      BY <2>1
    <3>2. CASE list.status[index] = "FREE"
      <4>1. InsertStep(n + 1, d)
        BY <1>1, <2>1, <2>7, <3>1, <3>2, InsertIndexStep
      <4> QED
        BY <1>1, <3>2, <4>1, InsertIsAbstract
    <3>3. CASE list.status[index] # "FREE"
      <4>1. PICK pos \in 1..n : NodeAt(list, pos) = index /\ DisplaceStep(pos, d)
        BY <1>1, <2>1, <2>7, <3>1, <3>3, InsertIndexStep
      <4>2. pos = Place(index)
        BY <2>1, <4>1, PlaceOf
      <4>3. Abstract!Displace(pos, d)
        BY <1>1, <4>1, DisplaceIsAbstract
      <4> QED
        BY <3>3, <4>2, <4>3
    <3> QED
      BY <3>2, <3>3
  <2> HIDE DEF n, Place
  <2> QED
    BY <2>2, <2>3, <2>4, <2>5, <2>6, <2>7
<1>2. ListInductive /\ [Next]_vars => [ret' = "SUCCESS" => Exact]_vars
  <2> HIDE DEF Exact
  <2> QED
    BY <1>1, SoundBefore
<1> QED
  BY <1>2, ListInvariant, PTL DEF Spec, OperationsAreExact

====
