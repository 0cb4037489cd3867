------------------------------- MODULE Channel ------------------------------
(***************************************************************************)
(* What one direction of a connection promises the two programs at its     *)
(* ends.  It is not a queue of messages, because each call of on_read      *)
(* makes exactly one message of the bytes it gets:                         *)
(*   - a call that starts where a message starts and gets all of it        *)
(*     delivers that message, and loses whatever came with it;             *)
(*   - a call that gets less delivers something else, and goes astray;     *)
(*   - a call that starts astray delivers something else or ends the       *)
(*     process, and may find back to the start of a message.               *)
(* The place of the next message only grows, so none is delivered twice or *)
(* after a later one.                                                      *)
(***************************************************************************)
EXTENDS Naturals, Sequences

CONSTANT Damaged        \* something that is not one of the messages sent

VARIABLES sent,         \* messages written, in order
          next,         \* the place in sent of the next message to begin
          astray,       \* the next call does not start where it starts
          got,          \* what was delivered last
          dead          \* the process has ended

vars == << sent, next, astray, got, dead >>

Init ==
    /\ sent = << >> /\ got = Damaged
    /\ next = 1 /\ astray = FALSE
    /\ dead = FALSE

Grows(s, t) == Len(t) = Len(s) + 1 /\ SubSeq(t, 1, Len(s)) = s

Send ==
    /\ Grows(sent, sent')
    /\ UNCHANGED << next, astray, got, dead >>

Skip == next' \in next..(Len(sent) + 1) /\ astray' \in BOOLEAN /\ UNCHANGED sent

Deliver ==
    /\ ~astray
    /\ next <= Len(sent)
    /\ Skip /\ next' > next
    /\ got' = sent[next]
    /\ UNCHANGED dead

Cut ==
    /\ ~astray
    /\ next <= Len(sent)
    /\ Skip /\ next' = next + 1 /\ astray'
    /\ got' = Damaged
    /\ UNCHANGED dead

Stray ==
    /\ astray
    /\ Skip
    /\ \/ got' = Damaged /\ UNCHANGED dead
       \/ dead' = TRUE /\ UNCHANGED got

Next == ~dead /\ (Send \/ Deliver \/ Cut \/ Stray)

Spec == Init /\ [][Next]_vars
=============================================================================
