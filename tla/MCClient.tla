------------------------------ MODULE MCClient ------------------------------
(* One client and one connection; the bounds are in the configurations.    *)
EXTENDS Client
=============================================================================
