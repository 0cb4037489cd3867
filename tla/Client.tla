------------------------------- MODULE Client -------------------------------
(***************************************************************************)
(* The client program: the user's front end, the interface thread          *)
(* (src/client.cpp), the sender thread (src/sender.cpp) and the loop       *)
(* thread (src/networking.cpp), joined by two mailboxes and by the async   *)
(* handles for writing and for stopping the loop.  Unlike the server, a    *)
(* client starts its threads before it has a connection and takes itself   *)
(* down when the connection closes.                                        *)
(*                                                                         *)
(* What the user types and what the server sends are all "text" here: the  *)
(* threads only tell it from the two messages the program sends itself.    *)
(* fault records how the process went down; nothing happens after that.    *)
(***************************************************************************)
EXTENDS Naturals, Sequences

CONSTANTS MaxTyped,     \* bound: messages the user types
          MaxTexts      \* bound: messages the server sends

ASSUME ClientAssumption == MaxTyped \in Nat /\ MaxTexts \in Nat

VARIABLES inItems, inPhase, inGot,      \* incoming_msg and the interface's copy
          outItems, outPhase, outGot,   \* outgoing_msg and the sender's copy
          status,       \* client->status
          interface,    \* where the interface thread is
          sender,       \* where the sender thread is
          dest,         \* the sender's copy of client->server_dest
          sendSlot, sendPending, sendFiring,    \* async_send_message
          written,      \* the request in sendSlot has been given to uv_write
          initialised,  \* on_connect has initialised the async handles
          stopPending,  \* async_stop_networking has been signalled
          loop,         \* state of the loop thread
          handle,       \* state of the uv_tcp_t
          serverDest,   \* client->server_dest
          peer,         \* the server is at the other end
          typed, texts, \* counters of the bounds
          fault,
          early         \* history: a write was routed before on_connect

NULL == "NULL"
Server == "server"
NoWrite == "NoWrite"

In == INSTANCE Mailbox WITH Message <- {}, Garbage <- "text", SafeBacklog <- 10,
        items <- inItems, phase <- inPhase, got <- inGot

Out == INSTANCE Mailbox WITH Message <- {}, Garbage <- "text", SafeBacklog <- 10,
         items <- outItems, phase <- outPhase, got <- outGot

Send == INSTANCE AsyncHandle WITH NoRequest <- NoWrite,
          slot <- sendSlot, pending <- sendPending, firing <- sendFiring

inVars == << inItems, inPhase, inGot >>
outVars == << outItems, outPhase, outGot >>
sendVars == << sendSlot, sendPending, sendFiring >>
interfaceVars == << status, interface >>
senderVars == << sender, dest, early >>
netVars == << initialised, loop, handle, serverDest >>
worldVars == << peer, typed, texts >>

vars == << inVars, outVars, sendVars, written, interfaceVars, senderVars, netVars,
           stopPending, worldVars, fault >>

Init ==
    /\ In!Init /\ Out!Init /\ Send!AsyncInitial
    /\ status = "ONLINE" /\ interface = "reading"
    /\ sender = "reading" /\ dest = NULL /\ early = FALSE
    /\ written = FALSE /\ initialised = FALSE /\ stopPending = FALSE
    /\ loop = "starting" /\ handle = "none" /\ serverDest = NULL
    /\ peer = FALSE /\ typed = 0 /\ texts = 0
    /\ fault = "none"

-----------------------------------------------------------------------------
(* front_for_test_only                                                     *)

\* A command or a message for another user; the front end never ends.
Type ==
    /\ typed < MaxTyped
    /\ typed' = typed + 1
    /\ Out!Put("text")
    /\ UNCHANGED << inVars, sendVars, written, interfaceVars, senderVars, netVars,
                    stopPending, peer, texts, fault >>

-----------------------------------------------------------------------------
(* start_client_interface                                                  *)

InterfacePeek ==
    /\ interface = "reading"
    /\ In!Peek
    /\ UNCHANGED << outVars, sendVars, written, interfaceVars, senderVars, netVars,
                    stopPending, worldVars, fault >>

\* delete_head and what follows it up to the first call.
InterfaceHandle ==
    /\ interface = "reading"
    /\ In!Drop
    /\ IF inGot = "ON_CLOSE" THEN status' = "OFFLINE" /\ interface' = "finalizing"
                             ELSE UNCHANGED interfaceVars
    /\ UNCHANGED << outVars, sendVars, written, senderVars, netVars, stopPending,
                    worldVars, fault >>

call_sender_finalization ==
    /\ interface = "finalizing"
    /\ Out!Put("SHUTDOWN_SEND")
    /\ interface' = "stopping"
    /\ UNCHANGED << inVars, sendVars, written, status, senderVars, netVars, stopPending,
                    worldVars, fault >>

\* uv_loop_alive: a TCP handle that is not closed yet, or the async handles,
\* which are never closed.
LoopAlive == handle \in {"connecting", "open", "closing"} \/ initialised

\* Mutant: the loop is expected to end with its connection.
NoNetworkingFinalization ==
    /\ interface = "stopping"
    /\ interface' = "ended"
    /\ UNCHANGED << inVars, outVars, sendVars, written, status, senderVars, netVars,
                    stopPending, worldVars, fault >>

\* The thread then leaves its loop.
call_networking_finalization ==
    /\ interface = "stopping"
    /\ interface' = "ended"
    /\ stopPending' = LoopAlive
    /\ fault' = IF LoopAlive /\ ~initialised THEN "uninitialised handle" ELSE "none"
    /\ UNCHANGED << inVars, outVars, sendVars, written, status, senderVars, netVars,
                    worldVars >>

-----------------------------------------------------------------------------
(* run_sender, send_message, call_async_write                              *)

SenderPeek ==
    /\ sender = "reading"
    /\ Out!Peek
    /\ UNCHANGED << inVars, sendVars, written, interfaceVars, senderVars, netVars,
                    stopPending, worldVars, fault >>

SenderDrop ==
    /\ sender = "reading"
    /\ Out!Drop
    /\ sender' = IF outGot = "SHUTDOWN_SEND" THEN "ended" ELSE "routing"
    /\ UNCHANGED << inVars, sendVars, written, interfaceVars, dest, early, netVars,
                    stopPending, worldVars, fault >>

\* send_message reads client->server_dest, which the loop thread writes.
SenderRoute ==
    /\ sender = "routing"
    /\ sender' = "storing"
    /\ dest' = serverDest
    /\ early' = (early \/ ~initialised)
    /\ UNCHANGED << inVars, outVars, sendVars, written, interfaceVars, netVars,
                    stopPending, worldVars, fault >>

\* Mutant: the signal comes first.
SenderStoreNothing ==
    /\ sender = "storing"
    /\ sender' = "sending"
    /\ initialised
    /\ Send!Send
    /\ written' = FALSE
    /\ UNCHANGED << inVars, outVars, interfaceVars, dest, early, netVars, stopPending,
                    worldVars, fault >>

SenderStoreWrite ==
    /\ sender = "storing"
    /\ sender' = "sending"
    /\ Send!Store(dest)
    /\ written' = FALSE
    /\ UNCHANGED << inVars, outVars, interfaceVars, dest, early, netVars, stopPending,
                    worldVars, fault >>

\* uv_async_send follows the handle's loop pointer, which is NULL before
\* on_connect.
SenderSendWrite ==
    /\ sender = "sending"
    /\ sender' = "reading"
    /\ Send!Send
    /\ fault' = IF initialised THEN "none" ELSE "uninitialised handle"
    /\ UNCHANGED << inVars, outVars, written, interfaceVars, dest, early, netVars,
                    stopPending, worldVars >>

-----------------------------------------------------------------------------
(* Loop thread                                                             *)

\* The loop runs, or finishes its last turn; callbacks do not nest.
Polling == loop \in {"running", "stopping"} /\ ~sendFiring

\* Mutant: server_dest is left for on_connect, which does not set it.
StartNetworkingLate ==
    /\ loop = "starting"
    /\ loop' = "running" /\ handle' = "connecting"
    /\ UNCHANGED << inVars, outVars, sendVars, written, interfaceVars, senderVars,
                    initialised, serverDest, stopPending, worldVars, fault >>

\* run_networking up to uv_run; uv_tcp_connect may fail at once.
StartNetworking ==
    /\ loop = "starting"
    /\ \/ loop' = "running" /\ handle' = "connecting" /\ serverDest' = Server
       \/ loop' = "ended" /\ UNCHANGED << handle, serverDest >>
    /\ UNCHANGED << inVars, outVars, sendVars, written, interfaceVars, senderVars,
                    initialised, stopPending, worldVars, fault >>

OnConnect ==
    /\ Polling
    /\ handle = "connecting"
    /\ \/ /\ handle' = "open" /\ peer' = TRUE /\ initialised' = TRUE
          /\ Send!Reinit
       \/ /\ handle' = "closing"
          /\ UNCHANGED << sendVars, peer, initialised >>
    /\ UNCHANGED << inVars, outVars, written, interfaceVars, senderVars, loop, serverDest,
                    stopPending, typed, texts, fault >>

\* on_read with a message.
Read ==
    /\ Polling
    /\ handle = "open" /\ peer /\ texts < MaxTexts
    /\ texts' = texts + 1
    /\ In!Put("text")
    /\ UNCHANGED << outVars, sendVars, written, interfaceVars, senderVars, netVars,
                    stopPending, peer, typed, fault >>

\* The server closes the connection, or it breaks.
Disconnect ==
    /\ peer
    /\ peer' = FALSE
    /\ UNCHANGED << inVars, outVars, sendVars, written, interfaceVars, senderVars, netVars,
                    stopPending, typed, texts, fault >>

\* Mutant: ON_CLOSE is sent as soon as the connection is lost.
ReadErrorConfirming ==
    /\ Polling
    /\ handle = "open" /\ ~peer
    /\ handle' = "closing"
    /\ In!Put("ON_CLOSE")
    /\ UNCHANGED << outVars, sendVars, written, interfaceVars, senderVars, initialised, loop,
                    serverDest, stopPending, worldVars, fault >>

\* on_read with nread < 0.
ReadError ==
    /\ Polling
    /\ handle = "open" /\ ~peer
    /\ handle' = "closing"
    /\ UNCHANGED << inVars, outVars, sendVars, written, interfaceVars, senderVars,
                    initialised, loop, serverDest, stopPending, worldVars, fault >>

\* on_close_connection
FinishClose ==
    /\ Polling
    /\ handle = "closing"
    /\ handle' = "freed" /\ peer' = FALSE
    /\ In!Put("ON_CLOSE")
    /\ UNCHANGED << outVars, sendVars, written, interfaceVars, senderVars, initialised, loop,
                    serverDest, stopPending, typed, texts, fault >>

FireSend ==
    /\ Polling
    /\ initialised
    /\ Send!Fire
    /\ UNCHANGED << inVars, outVars, written, interfaceVars, senderVars, netVars, stopPending,
                    worldVars, fault >>

\* What becomes of the request in the slot; see Server.
WriteOutcomes ==
    CASE sendSlot = NoWrite -> {"null request"}
      [] sendSlot = NULL -> {"null endpoint"}
      [] sendSlot = Server /\ written -> {"request reused"}
      [] sendSlot = Server /\ ~written /\ handle = "freed" -> {"freed handle"}
      [] sendSlot = Server /\ ~written /\ handle = "closing" -> {"closed twice"}
      [] OTHER -> {"none"} \cup (IF peer THEN {} ELSE {"failed write"})

\* async_send
RunSend ==
    /\ Send!Run
    /\ fault' \in WriteOutcomes
    /\ written' = TRUE
    /\ UNCHANGED << inVars, outVars, interfaceVars, senderVars, netVars, stopPending,
                    worldVars >>

\* async_stop: uv_stop takes effect at the end of the loop's turn; uv_loop_close
\* refuses to close a loop that has handles.
RunStop ==
    /\ Polling
    /\ stopPending
    /\ stopPending' = FALSE
    /\ loop' = "stopping"
    /\ UNCHANGED << inVars, outVars, sendVars, written, interfaceVars, senderVars,
                    initialised, handle, serverDest, worldVars, fault >>

\* uv_run returns when it was stopped or has nothing left to wait for.
LoopEnds ==
    /\ Polling
    /\ loop = "stopping" \/ ~LoopAlive
    /\ loop' = "ended"
    /\ UNCHANGED << inVars, outVars, sendVars, written, interfaceVars, senderVars,
                    initialised, handle, serverDest, stopPending, worldVars, fault >>

-----------------------------------------------------------------------------
Alive == fault = "none"

\* What the threads do by themselves between two reads of their lists.
InterfaceStep ==
    Alive /\ (InterfaceHandle \/ call_sender_finalization \/ call_networking_finalization)

SenderStep ==
    Alive /\ (SenderDrop \/ SenderRoute \/ SenderStoreWrite \/ SenderSendWrite)

LoopStep ==
    Alive /\ (StartNetworking \/ OnConnect \/ ReadError \/ FinishClose \/ FireSend
                \/ RunSend \/ RunStop \/ LoopEnds)

Environment == Alive /\ (Type \/ Read \/ Disconnect)

Next ==
    \/ InterfaceStep \/ SenderStep \/ LoopStep \/ Environment
    \/ Alive /\ (InterfacePeek \/ SenderPeek)

Spec == Init /\ [][Next]_vars

\* Every thread that can run is scheduled.  A reader of a ts_list is not bound
\* to find what is in it (see BacklogDrained in TsList).
Fairness == WF_vars(InterfaceStep) /\ WF_vars(SenderStep) /\ WF_vars(LoopStep)

FairSpec == Spec /\ Fairness

-----------------------------------------------------------------------------
(* Properties                                                              *)

Faults == {"none", "uninitialised handle", "null request", "null endpoint",
           "request reused", "freed handle", "closed twice", "failed write"}

BoxesTypeOK ==
    /\ inItems \in Seq({"text", "ON_CLOSE"}) /\ inGot \in {"text", "ON_CLOSE"}
    /\ outItems \in Seq({"text", "SHUTDOWN_SEND"}) /\ outGot \in {"text", "SHUTDOWN_SEND"}
    /\ inPhase \in {"idle", "got"} /\ outPhase \in {"idle", "got"}

ThreadsTypeOK ==
    /\ status \in {"ONLINE", "OFFLINE"}
    /\ interface \in {"reading", "finalizing", "stopping", "ended"}
    /\ sender \in {"reading", "routing", "storing", "sending", "ended"}
    /\ sendSlot \in {NoWrite, NULL, Server}
    /\ serverDest \in {NULL, Server} /\ dest \in {NULL, Server}
    /\ loop \in {"starting", "running", "stopping", "ended"}
    /\ handle \in {"none", "connecting", "open", "closing", "freed"}
    /\ serverDest = NULL <=> handle = "none"
    /\ fault \in Faults

\* The variables have their types; server_dest is set whenever there is a
\* connection to send to.
ClientTypeOK == BoxesTypeOK /\ ThreadsTypeOK

\* The threads end in the order of the shutdown chain: a loop that was told to
\* stop and a sender that has ended follow an interface that gave up, and it
\* gives up only on a connection that is closed and freed - although messages
\* get lost, or are read twice, on both lists on the way.
EndsInOrder ==
    /\ loop = "stopping" \/ sender = "ended" => status = "OFFLINE"
    /\ status = "OFFLINE" => handle = "freed"

\* on_connect empties the slot and only then can the loop be signalled, so a
\* write that is routed when there is a connection cannot meet an unprepared
\* handle, an empty slot or a NULL stream.
OnlyEarlyWritesUnprepared ==
    fault \in {"uninitialised handle", "null request", "null endpoint"} => early

\* The inductive invariant behind these (proved in ClientProofs).  Of the lists:
\* nobody is told to end before the connection is freed.
Boxes ==
    /\ BoxesTypeOK
    /\ handle # "freed" => inItems \in Seq({"text"}) /\ inGot = "text"
    /\ status = "ONLINE" => outItems \in Seq({"text"}) /\ outGot = "text"

\* Of the threads: they are told to end by one that has ended, and a connection
\* is not made twice.
Ends ==
    /\ EndsInOrder
    /\ status = "OFFLINE" <=> interface # "reading"
    /\ stopPending => status = "OFFLINE"
    /\ loop = "starting" => handle = "none"

\* Of the writes: what is routed after on_connect finds an endpoint and a prepared
\* handle.
Prepared ==
    /\ OnlyEarlyWritesUnprepared
    /\ initialised => handle \in {"open", "closing", "freed"}
    /\ sender \in {"storing", "sending"} /\ ~initialised => early
    /\ sender = "storing" /\ dest = NULL => early
    /\ sendSlot = NULL => early
    /\ (sender = "sending" \/ sendPending \/ sendFiring) /\ sendSlot = NoWrite => early

Control == ThreadsTypeOK /\ Ends /\ Prepared

ClientInductive == Boxes /\ Control

\* The loop thread outlives the interface's finalization only by crashing,
\* whether the connection was ever made or not.
LoopStops == status = "OFFLINE" ~> loop = "ended" \/ ~Alive
=============================================================================
