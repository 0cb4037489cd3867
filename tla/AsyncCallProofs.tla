--------------------------- MODULE AsyncCallProofs --------------------------
(***************************************************************************)
(* Proofs about requests through one async handle, for any number of       *)
(* requests and of accepts.                                                *)
(***************************************************************************)
EXTENDS AsyncCall, TLAPS

LEMMA InitHolds == Init => AsyncInductive
<1>1. SUFFICES ASSUME Init
               PROVE  AsyncInductive
  OBVIOUS
<1>2. /\ slot = 0 /\ pending = FALSE /\ firing = FALSE /\ posting = FALSE
      /\ posted = 0 /\ ran = << >>
  BY <1>1 DEF Init, A!AsyncInitial, NoRequest
<1>3. << pending, firing, posting >> \in BOOLEAN \X BOOLEAN \X BOOLEAN
  BY <1>2
<1>4. Outstanding = 0
  BY <1>2 DEF Outstanding
<1>5. Len(ran) = 0 /\ ran \in Seq(0..posted)
  BY <1>2
<1> QED
  BY <1>2, <1>3, <1>4, <1>5
  DEF AsyncInductive, RunAtMostThrice, NoRequest

\* Signals that are outstanding are counted by a number.
LEMMA OutstandingIs ==
    ASSUME AsyncInductive
    PROVE  Outstanding \in 0..3 /\ (firing => Outstanding \in 1..3)
  BY DEF AsyncInductive, Outstanding

\* A new request has not run, whatever signals are on their way to it.
LEMMA StoreKeeps ==
    ASSUME AsyncInductive, StoreRequest
    PROVE  AsyncInductive'
<1>1. /\ ~posting /\ posting' /\ posted' = posted + 1 /\ slot' = posted + 1
      /\ UNCHANGED << pending, firing, ran >>
  BY DEF StoreRequest, A!Store, AsyncInductive
<1>2. Outstanding' = Outstanding + 1 /\ Outstanding \in 0..3
  BY <1>1 DEF AsyncInductive, Outstanding
<1>3. ran' \in Seq(0..posted') /\ \A i \in 1..Len(ran') : ran'[i] # slot'
  <2>1. \A i \in 1..Len(ran) : ran[i] \in 0..posted
    BY DEF AsyncInductive
  <2>2. 0..posted \subseteq 0..posted'
    BY <1>1 DEF AsyncInductive
  <2> QED
    BY <1>1, <2>1, <2>2 DEF AsyncInductive
<1>4. RunAtMostThrice'
  BY <1>1 DEF AsyncInductive, RunAtMostThrice, NoRequest
<1>5. (slot \in {NoRequest, posted})' /\ posted' \in Nat
  BY <1>1 DEF AsyncInductive
<1>6. << pending', firing', posting' >> \in BOOLEAN \X BOOLEAN \X BOOLEAN
  BY <1>1 DEF StoreRequest, AsyncInductive
<1> QED
  BY <1>3, <1>4, <1>5, <1>6 DEF AsyncInductive

\* A signal moves on from the poster to the mark and to the callback, or is lost.
LEMMA SignalKeeps ==
    ASSUME AsyncInductive, UNCHANGED << slot, posted, ran >>,
           << pending', firing', posting' >> \in BOOLEAN \X BOOLEAN \X BOOLEAN,
           Outstanding' <= Outstanding, Outstanding' \in 0..3
    PROVE  AsyncInductive'
<1>1. Outstanding \in 0..3
  BY OutstandingIs
<1>2. RunAtMostThrice'
  BY DEF AsyncInductive, RunAtMostThrice, NoRequest
<1>3. (slot # NoRequest =>
         \A i \in 1..Len(ran) : ran[i] = slot =>
             /\ Len(ran) - i + Outstanding <= 2
             /\ \A k \in i..Len(ran) : ran[k] = slot)'
  BY <1>1 DEF AsyncInductive, NoRequest
<1> QED
  BY <1>2, <1>3 DEF AsyncInductive, NoRequest

LEMMA RunKeeps ==
    ASSUME AsyncInductive, RunCallback
    PROVE  AsyncInductive'
<1>1. /\ firing /\ ~firing' /\ ran' = Append(ran, slot)
      /\ UNCHANGED << slot, pending, posting, posted >>
  BY DEF RunCallback, A!Run, AsyncInductive
<1>2. Outstanding' = Outstanding - 1 /\ Outstanding \in 1..3
  BY <1>1 DEF AsyncInductive, Outstanding
<1>3. /\ ran \in Seq(0..posted) /\ slot \in 0..posted /\ Len(ran) \in Nat
      /\ posted \in Nat
  BY DEF AsyncInductive, NoRequest
<1>4. /\ ran' \in Seq(0..posted') /\ Len(ran') = Len(ran) + 1
      /\ ran'[Len(ran) + 1] = slot
      /\ \A i \in 1..Len(ran) : ran'[i] = ran[i]
  BY <1>1, <1>3
<1>5. slot # NoRequest =>
        \A i \in 1..Len(ran) : ran[i] = slot =>
            Len(ran) - i + Outstanding <= 2 /\ \A k \in i..Len(ran) : ran[k] = slot
  BY DEF AsyncInductive
<1>6. ASSUME NEW i \in 1..Len(ran'), slot # NoRequest, ran'[i] = slot
      PROVE  Len(ran') - i + Outstanding' <= 2 /\ \A k \in i..Len(ran') : ran'[k] = slot
  <2>1. CASE i = Len(ran) + 1
    BY <1>2, <1>3, <1>4, <2>1
  <2>2. CASE i # Len(ran) + 1
    <3>1. i \in 1..Len(ran) /\ ran[i] = slot
      BY <1>3, <1>4, <1>6, <2>2
    <3>2. Len(ran) - i + Outstanding <= 2 /\ \A k \in i..Len(ran) : ran[k] = slot
      BY <1>5, <1>6, <3>1
    <3>3. ASSUME NEW k \in i..Len(ran')
          PROVE  ran'[k] = slot
      <4>1. k = Len(ran) + 1 \/ (k \in i..Len(ran) /\ k \in 1..Len(ran))
        BY <1>3, <1>4, <3>1
      <4> QED
        BY <1>4, <3>2, <4>1
    <3> QED
      BY <1>2, <1>3, <1>4, <3>1, <3>2, <3>3
  <2> QED
    BY <2>1, <2>2
<1>7. RunAtMostThrice'
  <2>1. SUFFICES ASSUME NEW i \in 1..Len(ran'), NEW j \in 1..Len(ran'), i < j,
                        ran'[i] = ran'[j], ran'[i] # NoRequest
                 PROVE  j - i <= 2 /\ \A k \in i..j : ran'[k] = ran'[i]
    BY DEF RunAtMostThrice, NoRequest
  <2>2. i \in 1..Len(ran) /\ j \in 1..(Len(ran) + 1)
    BY <1>3, <1>4, <2>1
  <2>3. CASE j # Len(ran) + 1
    <3>1. j \in 1..Len(ran)
      BY <1>3, <2>2, <2>3
    <3>2. ran[i] = ran[j] /\ ran[i] # NoRequest
      BY <1>4, <2>1, <2>2, <3>1
    <3>3. j - i <= 2 /\ \A k \in i..j : ran[k] = ran[i]
      BY <2>1, <2>2, <3>1, <3>2 DEF AsyncInductive, RunAtMostThrice
    <3>4. \A k \in i..j : k \in 1..Len(ran)
      BY <1>3, <2>2, <3>1
    <3> QED
      BY <1>4, <2>2, <3>3, <3>4
  <2>4. CASE j = Len(ran) + 1
    <3>1. ran'[i] = slot /\ slot # NoRequest
      BY <1>4, <2>1, <2>4
    <3>2. Len(ran') - i + Outstanding' <= 2 /\ \A k \in i..Len(ran') : ran'[k] = slot
      BY <1>6, <3>1
    <3> QED
      BY <1>2, <1>3, <1>4, <2>2, <2>4, <3>1, <3>2
  <2> QED
    BY <2>3, <2>4
<1>8. (slot # NoRequest =>
         \A i \in 1..Len(ran) : ran[i] = slot =>
             /\ Len(ran) - i + Outstanding <= 2
             /\ \A k \in i..Len(ran) : ran[k] = slot)'
  BY <1>1, <1>6 DEF NoRequest
<1>9. << pending', firing', posting' >> \in BOOLEAN \X BOOLEAN \X BOOLEAN
  <2>1. firing' = FALSE
    BY DEF RunCallback, A!Run
  <2> QED
    BY <1>1, <2>1 DEF AsyncInductive
<1> QED
  BY <1>1, <1>4, <1>7, <1>8, <1>9 DEF AsyncInductive, NoRequest

\* uv_async_init forgets the request and the mark.
LEMMA AcceptKeeps ==
    ASSUME AsyncInductive, Accept
    PROVE  AsyncInductive'
<1>1. /\ slot' = NoRequest /\ ~pending' /\ pending' \in BOOLEAN
      /\ UNCHANGED << firing, posting, posted, ran >>
  BY DEF Accept, A!Reinit
<1>2. RunAtMostThrice'
  BY <1>1 DEF AsyncInductive, RunAtMostThrice, NoRequest
<1> QED
  BY <1>1, <1>2 DEF AsyncInductive, NoRequest

LEMMA NextKeeps == AsyncInductive /\ [Next]_vars => AsyncInductive'
<1> SUFFICES ASSUME AsyncInductive, [Next]_vars
             PROVE  AsyncInductive'
  OBVIOUS
<1>1. CASE StoreRequest
  BY <1>1, StoreKeeps
<1>2. CASE SendRequest
  <2>1. /\ posting /\ ~posting' /\ pending' /\ UNCHANGED << slot, firing, posted, ran >>
        /\ << pending', firing', posting' >> \in BOOLEAN \X BOOLEAN \X BOOLEAN
    BY <1>2 DEF SendRequest, A!Send, AsyncInductive
  <2>2. Outstanding' <= Outstanding /\ Outstanding' \in 0..3
    BY <2>1 DEF AsyncInductive, Outstanding
  <2> QED
    BY <2>1, <2>2, SignalKeeps
<1>3. CASE FireCallback
  <2>1. /\ pending /\ ~firing /\ ~pending' /\ firing'
        /\ UNCHANGED << slot, posting, posted, ran >>
        /\ << pending', firing', posting' >> \in BOOLEAN \X BOOLEAN \X BOOLEAN
    BY <1>3 DEF FireCallback, A!Fire, AsyncInductive
  <2>2. Outstanding' <= Outstanding /\ Outstanding' \in 0..3
    BY <2>1 DEF AsyncInductive, Outstanding
  <2> QED
    BY <2>1, <2>2, SignalKeeps
<1>4. CASE RunCallback
  BY <1>4, RunKeeps
<1>5. CASE Accept
  BY <1>5, AcceptKeeps
<1>6. CASE UNCHANGED vars
  BY <1>6 DEF vars, AsyncInductive, RunAtMostThrice, Outstanding, NoRequest
<1> QED
  BY <1>1, <1>2, <1>3, <1>4, <1>5, <1>6 DEF Next, LoopStep

LEMMA AsyncInvariant == Spec => []AsyncInductive
  BY InitHolds, NextKeeps, PTL DEF Spec

\* However signals and requests overtake each other, no request is run more than
\* three times, and its runs come one after the other.
THEOREM NoRequestRunsFourTimes == Spec => []RunAtMostThrice
<1>1. AsyncInductive => RunAtMostThrice
  BY DEF AsyncInductive
<1> QED
  BY <1>1, AsyncInvariant, PTL
=============================================================================
