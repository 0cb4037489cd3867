------------------------------ MODULE AsyncCall -----------------------------
(***************************************************************************)
(* Requests from one thread to the event loop through a uv_async_t         *)
(* (src/networking.cpp): the sender's writes, or the interface's closes.   *)
(* Requests are numbered in the order in which they are posted.  A client  *)
(* initialises its handles once, in on_connect (MaxReinits = 0); a server  *)
(* initialises the same three handles again in every on_acceptance.        *)
(***************************************************************************)
EXTENDS Naturals, Sequences

CONSTANTS MaxPosts,     \* bound: requests
          MaxReinits    \* bound: connections accepted after the first

ASSUME AsyncAssumption == MaxPosts \in Nat /\ MaxReinits \in Nat

VARIABLES slot, pending, firing,
          posting,      \* the poster is between its two steps
          posted,       \* requests stored so far
          ran,          \* the requests the callback was run with, in order
          reinits       \* how often the handle was initialised again

vars == << slot, pending, firing, posting, posted, ran, reinits >>

NoRequest == 0
Request == 1..MaxPosts

A == INSTANCE AsyncHandle

Init ==
    /\ A!AsyncInitial
    /\ posting = FALSE
    /\ posted = 0
    /\ ran = << >>
    /\ reinits = 0

-----------------------------------------------------------------------------
(* call_async_write, call_async_close                                      *)

StoreRequest ==
    /\ ~posting
    /\ posted < MaxPosts
    /\ A!Store(posted + 1)
    /\ posted' = posted + 1
    /\ posting' = TRUE
    /\ UNCHANGED << ran, reinits >>

\* Mutant: the signal is forgotten.
SendNothing ==
    /\ posting
    /\ posting' = FALSE
    /\ UNCHANGED << slot, pending, firing, posted, ran, reinits >>

\* Mutant: the signal is repeated.
SendRequestAgain ==
    /\ posting
    /\ A!Send
    /\ posting' \in BOOLEAN
    /\ UNCHANGED << posted, ran, reinits >>

SendRequest ==
    /\ posting
    /\ A!Send
    /\ posting' = FALSE
    /\ UNCHANGED << posted, ran, reinits >>

-----------------------------------------------------------------------------
(* The loop thread                                                         *)

FireCallback ==
    /\ A!Fire
    /\ UNCHANGED << posting, posted, ran, reinits >>

\* async_send, async_close
RunCallback ==
    /\ A!Run
    /\ ran' = Append(ran, slot)
    /\ UNCHANGED << posting, posted, reinits >>

\* on_acceptance
Accept ==
    /\ reinits < MaxReinits
    /\ reinits' = reinits + 1
    /\ A!Reinit
    /\ UNCHANGED << posting, posted, ran >>

LoopStep == FireCallback \/ RunCallback

Next == StoreRequest \/ SendRequest \/ LoopStep \/ Accept

\* A started call is finished and the loop goes round.
Fairness == WF_vars(SendRequest) /\ WF_vars(LoopStep)

Spec == Init /\ [][Next]_vars

FairSpec == Spec /\ Fairness

-----------------------------------------------------------------------------
(* Properties                                                              *)

\* What is still to come: a signal that is about to be sent, one that is marked,
\* and one whose callback is about to run.
Outstanding ==
    (IF posting THEN 1 ELSE 0) + (IF pending THEN 1 ELSE 0) + (IF firing THEN 1 ELSE 0)

\* A request is run at most three times, and without another one in between:
\* by the callbacks of the two signals before its own, which may find it in
\* the slot already, and by its own.
RunAtMostThrice ==
    \A i, j \in 1..Len(ran) :
        i < j /\ ran[i] = ran[j] /\ ran[i] # NoRequest =>
            j - i <= 2 /\ \A k \in i..j : ran[k] = ran[i]

\* The inductive invariant behind it (proved in AsyncCallProofs): the request in
\* the slot is the newest one, nothing else has run since it first was, and the
\* longer ago that is, the fewer signals are left to run it again.
AsyncInductive ==
    /\ slot \in {NoRequest, posted}
    /\ << pending, firing, posting >> \in BOOLEAN \X BOOLEAN \X BOOLEAN
    /\ posted \in Nat
    /\ ran \in Seq(0..posted)
    /\ RunAtMostThrice
    /\ slot # NoRequest =>
         \A i \in 1..Len(ran) : ran[i] = slot =>
             /\ Len(ran) - i + Outstanding <= 2
             /\ \A k \in i..Len(ran) : ran[k] = slot

\* The newest request gets run, unless a later one or an accept comes between:
\* what coalescing and late callbacks cost is never the latest state.
LatestRuns ==
    \A r \in Request, k \in 0..MaxReinits :
        (slot = r /\ reinits = k)
            ~> (Len(ran) > 0 /\ ran[Len(ran)] >= r) \/ reinits # k
=============================================================================
