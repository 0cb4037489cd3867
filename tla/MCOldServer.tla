----------------------------- MODULE MCOldServer ----------------------------
(* Three users, three names, and two addresses of connections, of which    *)
(* three are accepted in all.                                              *)
EXTENDS OldServer, TLC

CONSTANTS ann, bob, carl, c1, c2, x

MCName == {ann, bob, carl}
MCPswd == {x}
MCConnection == {c1, c2}

MCSymmetry == Permutations(MCName) \cup Permutations(MCConnection)
=============================================================================
