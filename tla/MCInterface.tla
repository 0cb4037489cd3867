----------------------------- MODULE MCInterface ----------------------------
(* Four users, the names of two of which collide under the hash, with two  *)
(* passwords and two connections; the base has room for two of them.       *)
EXTENDS Interface, TLC

CONSTANTS ann, bob, eve, kim, none, s1, s2, x, y, noPswd

MCName == {ann, bob, eve, kim}
MCPswd == {x, y}
MCStream == {s1, s2}
MCHash == (ann :> 11) @@ (bob :> 12) @@ (eve :> 12) @@ (kim :> 13) @@ (none :> 10)
            @@ (x :> 21) @@ (y :> 22)

MCSymmetry == Permutations(MCStream)
=============================================================================
