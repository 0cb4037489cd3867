----------------------------- MODULE MCAsyncCall ----------------------------
(* One poster and the loop; the bounds are in the configurations.          *)
EXTENDS AsyncCall
=============================================================================
