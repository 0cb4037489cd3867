------------------------------- MODULE MCWire -------------------------------
(* Fields of three bytes.  A name and a password of one character, a name  *)
(* that goes past its field, and a password that fills its field and so    *)
(* has its terminator behind it.                                           *)
EXTENDS Wire

MCByte == 0..255

MCUser == {<< 97 >>, << 98, 99, 100, 101 >>}
MCSecret == {<< 112 >>, << 113, 114, 115 >>}
MCOwner == {<< 97 >>, << 98, 99, 100 >>}
MCLine == {[i \in 1..MsgSize |-> IF i < MsgSize THEN 104 ELSE 0]}
MCStat == {Word(5)}
=============================================================================
