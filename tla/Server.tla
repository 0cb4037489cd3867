------------------------------- MODULE Server -------------------------------
(***************************************************************************)
(* The running server: the loop thread (src/networking.cpp), the interface *)
(* thread (start_interface in src/server.cpp) and the sender thread        *)
(* (run_sender in src/sender.cpp), joined by two mailboxes (incoming_msg   *)
(* and outgoing_msg, see Mailbox and TsList) and two async handles         *)
(* (async_send_message and async_close_connection, see AsyncHandle).  The  *)
(* interface handles messages as Interface says.  Connections are          *)
(* uv_tcp_t handles, whose addresses come from calloc and are used again   *)
(* after they have been freed.  Every action is one step of one thread.    *)
(*                                                                         *)
(* fault records how the process went down; nothing happens after that.    *)
(***************************************************************************)
EXTENDS Interface

CONSTANTS Request,      \* the messages clients send, their endpoint left out
          MaxAccepts,   \* bound: calls of on_acceptance
          MaxReads      \* bound: messages ever read

VARIABLES inItems, inPhase, inGot,      \* incoming_msg and the interface's copy
          outItems, outPhase, outGot,   \* outgoing_msg and the sender's copy
          interface,    \* where the interface thread is
          sender,       \* where the sender thread is
          emitted,      \* how many messages of effect.out have been pushed
          dest,         \* the stream the sender has looked up
          sendSlot, sendPending, sendFiring,
          written,      \* the request in sendSlot has been given to uv_write
          closeSlot, closePending, closeFiring,
          handle,       \* state of each uv_tcp_t address
          peer,         \* a client program is at the other end
          accepts, refused,     \* calls of on_acceptance: connections, and failures
          reads,        \* messages read
          fault,
          conn,         \* history: the number of the latest connection of an address
          heirs,        \* history: connections given an address that was still referred to
          presented,    \* history: the credentials read on each connection
          delivered,    \* history: for whom messages were written to each connection
          left          \* history: a client has logged out or is gone

ASSUME ServerAssumption == Request \subseteq ClientMessage(NoStream)

\* NULL, in async_send_message.next_closing: a request that names no stream.
NoWrite == [endpoint |-> NoStream, to |-> NoName]

In == INSTANCE Mailbox WITH Message <- {}, Garbage <- OnClose, SafeBacklog <- 10,
        items <- inItems, phase <- inPhase, got <- inGot

Out == INSTANCE Mailbox WITH Message <- {}, Garbage <- OnClose, SafeBacklog <- 10,
         items <- outItems, phase <- outPhase, got <- outGot

Send == INSTANCE AsyncHandle WITH NoRequest <- NoWrite,
          slot <- sendSlot, pending <- sendPending, firing <- sendFiring

Close == INSTANCE AsyncHandle WITH NoRequest <- NoStream,
           slot <- closeSlot, pending <- closePending, firing <- closeFiring

inVars == << inItems, inPhase, inGot >>
outVars == << outItems, outPhase, outGot >>
sendVars == << sendSlot, sendPending, sendFiring >>
closeVars == << closeSlot, closePending, closeFiring >>
interfaceVars == << base, msg, effect, interface, emitted >>
senderVars == << sender, dest >>
netVars == << handle, peer, accepts, refused, reads >>
histories == << conn, heirs, presented, delivered, left >>

serverVars == << inVars, outVars, sendVars, written, closeVars, interfaceVars,
                 senderVars, netVars, fault, histories >>

ServerInit ==
    /\ Init
    /\ In!Init /\ Out!Init
    /\ Send!AsyncInitial /\ Close!AsyncInitial
    /\ interface = "reading" /\ emitted = 0
    /\ sender = "reading" /\ dest = NoStream
    /\ written = FALSE
    /\ handle = [s \in Stream |-> "free"]
    /\ peer = [s \in Stream |-> FALSE]
    /\ accepts = 0 /\ refused = 0 /\ reads = 0
    /\ fault = "none"
    /\ conn = [s \in Stream |-> 0]
    /\ heirs = {} /\ presented = {} /\ delivered = {} /\ left = FALSE

-----------------------------------------------------------------------------
(* Interface thread                                                        *)

\* wait and get_head()->data.
InterfacePeek ==
    /\ interface = "reading"
    /\ In!Peek
    /\ UNCHANGED << outVars, sendVars, written, closeVars, interfaceVars, senderVars,
                    netVars, fault, histories >>

InterfaceDrop ==
    /\ interface = "reading"
    /\ In!Drop
    /\ interface' = "operating"
    /\ UNCHANGED << outVars, sendVars, written, closeVars, base, msg, effect, emitted,
                    senderVars, netVars, fault, histories >>

\* After n insertions: the next one, the call of call_async_close, or the loop's
\* next turn.
AfterEmitting(n, e) ==
    IF n < Len(e.out) THEN "emitting"
    ELSE IF e.close # NoStream THEN "storing" ELSE "reading"

\* operate_request: what it does to the base.
InterfaceOperate ==
    /\ interface = "operating"
    /\ Operate(inGot)
    /\ fault' = effect'.fault
    /\ emitted' = 0
    /\ interface' = AfterEmitting(0, effect')
    /\ UNCHANGED << inVars, outVars, sendVars, written, closeVars, senderVars, netVars,
                    histories >>

\* Its insertions into outgoing_msg, one by one.
InterfaceEmit ==
    /\ interface = "emitting"
    /\ Out!Put(effect.out[emitted + 1])
    /\ emitted' = emitted + 1
    /\ interface' = AfterEmitting(emitted + 1, effect)
    /\ UNCHANGED << inVars, sendVars, written, closeVars, base, msg, effect, senderVars,
                    netVars, fault, histories >>

\* call_async_close, in two steps.
InterfaceStoreClose ==
    /\ interface = "storing"
    /\ Close!Store(effect.close)
    /\ interface' = "sending"
    /\ UNCHANGED << inVars, outVars, sendVars, written, base, msg, effect, emitted,
                    senderVars, netVars, fault, histories >>

InterfaceSendClose ==
    /\ interface = "sending"
    /\ Close!Send
    /\ interface' = "reading"
    /\ UNCHANGED << inVars, outVars, sendVars, written, base, msg, effect, emitted,
                    senderVars, netVars, fault, histories >>

-----------------------------------------------------------------------------
(* Sender thread                                                           *)

SenderPeek ==
    /\ sender = "reading"
    /\ Out!Peek
    /\ UNCHANGED << inVars, sendVars, written, closeVars, interfaceVars, senderVars,
                    netVars, fault, histories >>

SenderDrop ==
    /\ sender = "reading"
    /\ Out!Drop
    /\ sender' = "routing"
    /\ UNCHANGED << inVars, sendVars, written, closeVars, interfaceVars, dest, netVars,
                    fault, histories >>

\* Mutant: the newest client is taken for the addressee.
SenderRouteNewest ==
    /\ sender = "routing"
    /\ IF base = << >> THEN sender' = "reporting" /\ dest' = NoStream
                       ELSE sender' = "storing" /\ dest' = base[Len(base)].stream
    /\ UNCHANGED << inVars, outVars, sendVars, written, closeVars, interfaceVars,
                    netVars, fault, histories >>

\* send_message: get_client and client->client_stream, with no lock on the base.
SenderRoute ==
    /\ sender = "routing"
    /\ LET i == GetClientByName(base, outGot.to)
       IN  IF i = 0 THEN sender' = "reporting" /\ dest' = NoStream
                    ELSE sender' = "storing" /\ dest' = base[i].stream
    /\ UNCHANGED << inVars, outVars, sendVars, written, closeVars, interfaceVars,
                    netVars, fault, histories >>

\* No such client: an ERROR_MSG to the interface.
SenderReport ==
    /\ sender = "reporting"
    /\ In!Put(UnknownClient)
    /\ sender' = "reading"
    /\ UNCHANGED << outVars, sendVars, written, closeVars, interfaceVars, dest, netVars,
                    fault, histories >>

\* Mutant: the signal comes first.
SenderStoreNothing ==
    /\ sender = "storing"
    /\ Send!Send
    /\ written' = FALSE
    /\ dest' = NoStream
    /\ sender' = "sending"
    /\ UNCHANGED << inVars, outVars, closeVars, interfaceVars, netVars, fault, histories >>

\* call_async_write, in two steps.
SenderStoreWrite ==
    /\ sender = "storing"
    /\ Send!Store([endpoint |-> dest, to |-> outGot.to])
    /\ written' = FALSE
    /\ dest' = NoStream
    /\ sender' = "sending"
    /\ UNCHANGED << inVars, outVars, closeVars, interfaceVars, netVars, fault, histories >>

SenderSendWrite ==
    /\ sender = "sending"
    /\ Send!Send
    /\ sender' = "reading"
    /\ UNCHANGED << inVars, outVars, written, closeVars, interfaceVars, dest, netVars,
                    fault, histories >>

-----------------------------------------------------------------------------
(* Loop thread                                                             *)

\* Callbacks do not nest.
Polling == ~sendFiring /\ ~closeFiring

\* Messages in which on_read has put an address into the base's way: those in
\* incoming_msg, and the interface's copy until it has been handled.
Waiting ==
    {inItems[i] : i \in 1..Len(inItems)}
    \cup (IF inPhase = "got" \/ interface = "operating" THEN {inGot} ELSE {})

\* A record, a message that may set one, or the sender holds the address s.
Referred(s) ==
    \/ \E i \in 1..Len(base) : base[i].stream = s
    \/ \E m \in Waiting : m.cmd \in {"LOG_IN", "REGISTR"} /\ m.endpoint = s
    \/ dest = s

\* on_acceptance.  All async handles are initialised again.
Accept(s) ==
    /\ Polling
    /\ accepts + refused < MaxAccepts
    /\ handle[s] = "free"
    /\ handle' = [handle EXCEPT ![s] = "open"]
    /\ peer' = [peer EXCEPT ![s] = TRUE]
    /\ accepts' = accepts + 1
    /\ conn' = [conn EXCEPT ![s] = accepts + 1]
    /\ heirs' = IF Referred(s) THEN heirs \cup {accepts + 1} ELSE heirs
    /\ Send!Reinit /\ Close!Reinit
    /\ UNCHANGED << inVars, outVars, written, interfaceVars, senderVars, refused, reads,
                    fault, presented, delivered, left >>

\* on_acceptance when uv_accept fails: the new handle is closed at once.
AcceptFails(s) ==
    /\ Polling
    /\ accepts + refused < MaxAccepts
    /\ handle[s] = "free"
    /\ handle' = [handle EXCEPT ![s] = "closing"]
    /\ refused' = refused + 1
    /\ UNCHANGED << inVars, outVars, sendVars, written, closeVars, interfaceVars,
                    senderVars, peer, accepts, reads, fault, histories >>

\* on_read with a message.
Read(s, r) ==
    /\ Polling
    /\ reads < MaxReads
    /\ handle[s] = "open" /\ peer[s]
    /\ In!Put([r EXCEPT !.endpoint = s])
    /\ reads' = reads + 1
    /\ presented' = IF r.cmd \in {"LOG_IN", "REGISTR"}
                    THEN presented \cup {[stream |-> s, conn |-> conn[s],
                                          name |-> r.name, pswd |-> r.pswd]}
                    ELSE presented
    /\ left' = (left \/ r.cmd = "LOG_OUT")
    /\ UNCHANGED << outVars, sendVars, written, closeVars, interfaceVars, senderVars,
                    handle, peer, accepts, refused, fault, conn, heirs, delivered >>

\* The client program ends, or the connection breaks.
Disconnect(s) ==
    /\ peer[s]
    /\ peer' = [peer EXCEPT ![s] = FALSE]
    /\ left' = TRUE
    /\ UNCHANGED << inVars, outVars, sendVars, written, closeVars, interfaceVars,
                    senderVars, handle, accepts, refused, reads, fault, conn, heirs,
                    presented, delivered >>

\* on_read with nread < 0: the CONNECTION_LOST message is built, not inserted.
ReadError(s) ==
    /\ Polling
    /\ handle[s] = "open" /\ ~peer[s]
    /\ handle' = [handle EXCEPT ![s] = "closing"]
    /\ UNCHANGED << inVars, outVars, sendVars, written, closeVars, interfaceVars,
                    senderVars, peer, accepts, refused, reads, fault, histories >>

\* on_close_connection.
FinishClose(s) ==
    /\ Polling
    /\ handle[s] = "closing"
    /\ handle' = [handle EXCEPT ![s] = "free"]
    /\ peer' = [peer EXCEPT ![s] = FALSE]
    /\ In!Put(OnClose)
    /\ UNCHANGED << outVars, sendVars, written, closeVars, interfaceVars, senderVars,
                    accepts, refused, reads, fault, histories >>

FireSend ==
    /\ Polling
    /\ Send!Fire
    /\ UNCHANGED << inVars, outVars, written, closeVars, interfaceVars, senderVars,
                    netVars, fault, histories >>

\* What uv_write makes of the request in the slot.  On a stream that is being
\* closed it returns an error, and async_send closes the stream again, which
\* uv_close refuses with an assertion.  When a write fails, on_write closes
\* send_handle, which is NULL.
WriteOutcomes ==
    CASE sendSlot = NoWrite                      -> {"null request"}
      [] sendSlot # NoWrite /\ written           -> {"request reused"}
      [] sendSlot # NoWrite /\ ~written          ->
           CASE handle[sendSlot.endpoint] = "free"    -> {"freed handle"}
             [] handle[sendSlot.endpoint] = "closing" -> {"closed twice"}
             [] OTHER -> {"none"} \cup
                         (IF peer[sendSlot.endpoint] THEN {} ELSE {"failed write"})

\* async_send
RunSend ==
    /\ Send!Run
    /\ fault' \in WriteOutcomes
    /\ written' = TRUE
    /\ delivered' = IF fault' = "none" /\ peer[sendSlot.endpoint]
                    THEN delivered \cup {[stream |-> sendSlot.endpoint,
                                          conn |-> conn[sendSlot.endpoint],
                                          to |-> sendSlot.to]}
                    ELSE delivered
    /\ UNCHANGED << inVars, outVars, closeVars, interfaceVars, senderVars, netVars,
                    conn, heirs, presented, left >>

FireClose ==
    /\ Polling
    /\ Close!Fire
    /\ UNCHANGED << inVars, outVars, sendVars, written, interfaceVars, senderVars,
                    netVars, fault, histories >>

CloseOutcome ==
    CASE closeSlot = NoStream -> "null handle"
      [] closeSlot # NoStream /\ handle[closeSlot] = "free" -> "freed handle"
      [] closeSlot # NoStream /\ handle[closeSlot] = "closing" -> "closed twice"
      [] OTHER -> "none"

\* async_close
RunClose ==
    /\ Close!Run
    /\ fault' = CloseOutcome
    /\ handle' = IF CloseOutcome = "none" THEN [handle EXCEPT ![closeSlot] = "closing"]
                 ELSE handle
    /\ UNCHANGED << inVars, outVars, sendVars, written, interfaceVars, senderVars, peer,
                    accepts, refused, reads, histories >>

-----------------------------------------------------------------------------
InterfaceStep ==
    \/ InterfacePeek \/ InterfaceDrop \/ InterfaceOperate \/ InterfaceEmit
    \/ InterfaceStoreClose \/ InterfaceSendClose

SenderStep ==
    \/ SenderPeek \/ SenderDrop \/ SenderRoute \/ SenderReport
    \/ SenderStoreWrite \/ SenderSendWrite

LoopStep ==
    \/ \E s \in Stream : ReadError(s) \/ FinishClose(s)
    \/ FireSend \/ RunSend \/ FireClose \/ RunClose

Environment ==
    \E s \in Stream :
        Accept(s) \/ AcceptFails(s) \/ Disconnect(s) \/ \E r \in Request : Read(s, r)

ServerNext ==
    /\ fault = "none"
    /\ InterfaceStep \/ SenderStep \/ LoopStep \/ Environment

ServerSpec == ServerInit /\ [][ServerNext]_serverVars

-----------------------------------------------------------------------------
(* Properties                                                              *)

Faults == {"none", "null client", "assert client", "null request", "request reused",
           "freed handle", "closed twice", "failed write", "null handle"}

\* The variables have their types.  In particular the sender never posts a
\* write without a stream, the interface emits only what it has made, and an
\* address whose connection lasts is not free to be given to another.
ServerTypeOK ==
    /\ TypeOK
    /\ effect \in EffectType
    /\ inPhase \in {"idle", "got"} /\ outPhase \in {"idle", "got"}
    /\ inItems \in Seq(Incoming) /\ inGot \in Incoming
    /\ outItems \in Seq(chat_message_t) /\ outGot \in chat_message_t
    /\ interface \in {"reading", "operating", "emitting", "storing", "sending"}
    /\ sender \in {"reading", "routing", "reporting", "storing", "sending"}
    /\ emitted \in 0..Len(effect.out)
    /\ interface = "emitting" => emitted # Len(effect.out)
    /\ dest \in (IF sender = "storing" THEN Stream ELSE {NoStream})
    /\ sendSlot \in {NoWrite} \cup [endpoint : Stream, to : Name \cup {NoName}]
    /\ closeSlot \in Stream \cup {NoStream}
    /\ handle \in [Stream -> {"free", "open", "closing"}]
    /\ peer \in [Stream -> BOOLEAN]
    /\ \A s \in Stream : peer[s] => handle[s] # "free"
    /\ fault \in Faults

\* On connection k of the address s somebody has shown the name (or one with
\* the same hash) and the password on a client's record.  A connection that was
\* given its address too early (in hs) answers for those that had it before.
Presented(cs, hs, s, k, client) ==
    \E c \in cs : /\ c.stream = s /\ (c.conn = k \/ k \in hs)
                  /\ Hash[c.name] = client.nameHash /\ Hash[c.pswd] = client.pswdHash

\* The same for the record of the client called name.
Shown(bs, cs, hs, s, k, name) ==
    \E i \in 1..Len(bs) : bs[i].nameHash = Hash[name] /\ Presented(cs, hs, s, k, bs[i])

\* A message is written to a connection only if its addressee's name and
\* password, as they are on record, were shown on that connection, whatever the
\* mailboxes lose or repeat and the async handles drop, double or reset on the
\* way, and although the sender reads the base without a lock.  The exception is
\* a connection that calloc gives an address which a record, a waiting message
\* or the sender still holds: it may also get what is for clients who showed
\* theirs on an earlier connection of that address.
DeliveredToClient ==
    \A d \in delivered : Shown(base, presented, heirs, d.stream, d.conn, d.to)

\* A record points to a connection on which somebody has shown its name and
\* password, but for connections that were given an address still referred to:
\* a record is not taken off its connection when that is closed.
StreamPresented ==
    \A i \in 1..Len(base) :
        Presented(presented, heirs, base[i].stream, conn[base[i].stream], base[i])

\* As long as no client logs out and none goes away, no handle is written to or
\* closed that is closed or freed already, no write fails, and no callback closes
\* NULL: refusals, failed log ins, lost, repeated and unroutable messages,
\* coalesced signals, further connections and failing accepts do none of this.
BreaksNeedLeaving ==
    fault \in {"freed handle", "closed twice", "failed write", "null handle"} => left

\* The credentials of a message that waits have been presented.
Backed(m, cs, hs, cn) ==
    m.cmd \in {"LOG_IN", "REGISTR"} =>
        \E c \in cs : /\ c.stream = m.endpoint /\ c.name = m.name /\ c.pswd = m.pswd
                      /\ c.conn = cn[m.endpoint] \/ cn[m.endpoint] \in hs

\* The inductive invariant behind DeliveredToClient and StreamPresented (proved
\* in ServerProofs): what is on its way from on_read to the base, and from a
\* record to uv_write, carries what was presented with it.
ServerInductive ==
    /\ Inductive
    /\ inItems \in Seq(Incoming) /\ inGot \in Incoming
    /\ \A m \in Waiting : Backed(m, presented, heirs, conn)
    /\ DOMAIN conn = Stream
    /\ StreamPresented
    /\ dest \in (IF sender = "storing" THEN Stream ELSE {NoStream})
    /\ sendSlot # NoWrite => sendSlot.endpoint \in Stream
    /\ dest # NoStream => Shown(base, presented, heirs, dest, conn[dest], outGot.to)
    /\ sendSlot # NoWrite =>
          Shown(base, presented, heirs, sendSlot.endpoint, conn[sendSlot.endpoint], sendSlot.to)
    /\ DeliveredToClient

Alive(s) == handle[s] = "open" /\ peer[s]

\* The inductive invariant behind BreaksNeedLeaving (proved in ServerProofs):
\* until somebody leaves, no close is on its way, and every address the server
\* holds is that of a connection that lasts.
LeavingInductive ==
    /\ BreaksNeedLeaving
    /\ ~left =>
         /\ \A s \in Stream : handle[s] = "open" => peer[s]
         /\ \A i \in 1..Len(base) : Alive(base[i].stream)
         /\ \A m \in Waiting : m.cmd # "LOG_OUT" /\ (m.endpoint # NoStream => Alive(m.endpoint))
         /\ dest # NoStream => Alive(dest)
         /\ sendSlot # NoWrite => Alive(sendSlot.endpoint)
         /\ effect.close = NoStream /\ interface \notin {"storing", "sending"}
         /\ closeSlot = NoStream /\ ~closePending /\ ~closeFiring

\* Nothing has happened: no connection lasts, and no thread has anything to do
\* but to take note of connections that were closed.
Untouched ==
    /\ \A s \in Stream : handle[s] # "open" /\ ~peer[s]
    /\ interface \in {"reading", "operating"} /\ inGot = OnClose
    /\ inItems \in Seq({OnClose})
    /\ sender = "reading" /\ outPhase = "idle" /\ outItems = << >>
    /\ ~sendPending /\ ~sendFiring /\ ~closePending /\ ~closeFiring

\* Up to the second accept, which resets the handles under the other threads'
\* hands, no callback of the loop finds its slot empty.
NullNeedsSecondAccept ==
    fault \in {"null request", "null handle"} => accepts > 1

\* Its inductive invariant (proved in ServerProofs): the first accept meets no
\* request, and until the second a signal is on its way only to a full slot.
NullsInductive ==
    /\ NullNeedsSecondAccept
    /\ accepts \in Nat
    /\ accepts = 0 => Untouched
    /\ interface = "storing" => effect.close # NoStream
    /\ accepts <= 1 =>
         /\ sender = "sending" \/ sendPending \/ sendFiring => sendSlot # NoWrite
         /\ interface = "sending" \/ closePending \/ closeFiring => closeSlot # NoStream

-----------------------------------------------------------------------------
(* What the program's comments say                                         *)

Quiet ==
    /\ interface = "reading" /\ inPhase = "idle" /\ inItems = << >>
    /\ sender = "reading" /\ outPhase = "idle" /\ outItems = << >>

\* An "accidently disconnected user" is taken OFFLINE: when all messages have
\* been handled, nobody is ONLINE on a connection that is gone.
DisconnectedGoesOffline ==
    Quiet => \A i \in 1..Len(base) :
                base[i].status = "ONLINE" => handle[base[i].stream] # "free"
=============================================================================
