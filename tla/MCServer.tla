------------------------------ MODULE MCServer ------------------------------
(* Two users with one password each and two connection addresses.          *)
EXTENDS Server, TLC

CONSTANTS ann, bob, none, s1, s2, noStream, x, y, noPswd

MCName == {ann, bob}
MCPswd == {x, y}
MCStream == {s1, s2}
MCHash == (ann :> 11) @@ (bob :> 12) @@ (none :> 10) @@ (x :> 21) @@ (y :> 22)

\* Two users register and talk; one comes and goes; an impostor tries her name.
MCRequest == {Registr(noStream, ann, x), Registr(noStream, bob, y), Text(noStream, ann, bob),
              LogIn(noStream, ann, x), LogIn(noStream, ann, y), LogOut(noStream, ann)}

MCSymmetry == Permutations(MCStream)
=============================================================================
