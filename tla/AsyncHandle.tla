----------------------------- MODULE AsyncHandle ----------------------------
(***************************************************************************)
(* One uv_async_t as src/networking.cpp uses it.  call_async_write and     *)
(* call_async_close put their argument into the handle's next_closing      *)
(* field and then call uv_async_send; the loop thread runs the callback,   *)
(* which takes the argument from the field.  Of libuv only what these      *)
(* functions rely on is modelled: uv_async_send marks the handle, the loop *)
(* clears the mark before it runs the callback, and uv_async_init clears   *)
(* both the mark and next_closing.                                         *)
(***************************************************************************)
CONSTANT NoRequest      \* NULL

VARIABLES slot,         \* next_closing
          pending,      \* uv_async_send was called since the last callback
          firing        \* the loop is about to enter the callback

AsyncInitial == slot = NoRequest /\ pending = FALSE /\ firing = FALSE

Store(request) ==
    /\ slot' = request
    /\ UNCHANGED << pending, firing >>

\* uv_async_send
Send ==
    /\ pending' = TRUE
    /\ UNCHANGED << slot, firing >>

\* The loop finds the mark.
Fire ==
    /\ pending
    /\ ~firing
    /\ pending' = FALSE
    /\ firing' = TRUE
    /\ UNCHANGED slot

\* The callback runs and uses slot.
Run ==
    /\ firing
    /\ firing' = FALSE
    /\ UNCHANGED << slot, pending >>

\* uv_async_init on a handle that may be in use.
Reinit ==
    /\ ~firing
    /\ slot' = NoRequest
    /\ pending' = FALSE
    /\ UNCHANGED firing
=============================================================================
