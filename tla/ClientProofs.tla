---------------------------- MODULE ClientProofs ----------------------------
(***************************************************************************)
(* Proofs about the client program, for any number of messages typed and   *)
(* read.  Boxes says what may be in the two lists, Control what the        *)
(* threads may be doing; the lemma of each thread shows that its actions   *)
(* keep both.                                                              *)
(***************************************************************************)
EXTENDS Client, TLAPS

USE DEF inVars, outVars, sendVars, interfaceVars, senderVars, netVars, worldVars,
        NULL, Server, NoWrite

\* An insertion puts a message among messages of its kind.
LEMMA PutKeepsKind ==
    ASSUME NEW Kind, NEW items \in Seq(Kind), NEW m \in Kind
    PROVE  << m >> \o items \in Seq(Kind)
  OBVIOUS

\* What a reader copies and what it leaves are messages of their kind.
LEMMA HeadAndTail ==
    ASSUME NEW Kind, NEW items \in Seq(Kind), items # << >>
    PROVE  items[1] \in Kind /\ Tail(items) \in Seq(Kind)
  OBVIOUS

\* Lists that nobody touches may go on holding what they hold.
LEMMA BoxesStay ==
    ASSUME Boxes, UNCHANGED << inVars, outVars >>,
           handle' # "freed" => handle # "freed",
           status' = "ONLINE" => status = "ONLINE"
    PROVE  Boxes'
  BY DEF Boxes, BoxesTypeOK

\* Threads that nobody moves go on as they are.
LEMMA EndsStay ==
    ASSUME Ends, UNCHANGED << interfaceVars, sender, loop, handle, stopPending >>
    PROVE  Ends'
  BY DEF Ends, EndsInOrder

\* So do writes.
LEMMA PreparedStay ==
    ASSUME Prepared,
           UNCHANGED << sendVars, senderVars, initialised, handle, fault >>
    PROVE  Prepared'
  BY DEF Prepared, OnlyEarlyWritesUnprepared

LEMMA InitHolds == Init => ClientInductive
<1> SUFFICES ASSUME Init
             PROVE  ClientInductive
  OBVIOUS
<1>1. /\ inItems = << >> /\ inGot = "text" /\ inPhase = "idle"
      /\ outItems = << >> /\ outGot = "text" /\ outPhase = "idle"
  BY DEF Init, In!Init, Out!Init
<1>2. Boxes
  BY <1>1 DEF Boxes, BoxesTypeOK
<1>3. ThreadsTypeOK /\ Ends
  BY DEF Init, Send!AsyncInitial, ThreadsTypeOK, Faults, Ends, EndsInOrder
<1>4. Prepared
  BY DEF Init, Send!AsyncInitial, Prepared, OnlyEarlyWritesUnprepared
<1> QED
  BY <1>2, <1>3, <1>4 DEF ClientInductive, Control

-----------------------------------------------------------------------------
\* The interface tells the others to end, and only after ON_CLOSE.
LEMMA InterfaceKeeps ==
    ASSUME Boxes, Control, Alive, InterfaceStep \/ InterfacePeek
    PROVE  Boxes' /\ Control'
<1>1. CASE InterfacePeek
  <2>1. Boxes'
    <3>1. /\ inItems # << >> /\ inGot' = inItems[1]
          /\ inPhase' = "got"
          /\ UNCHANGED << inItems, outVars, handle, status >>
      BY <1>1 DEF InterfacePeek, In!Peek
    <3>2. /\ inItems \in Seq({"text", "ON_CLOSE"}) => inGot' \in {"text", "ON_CLOSE"}
          /\ inItems \in Seq({"text"}) => inGot' \in {"text"}
      BY <3>1, HeadAndTail
    <3> QED
      BY <3>1, <3>2 DEF Boxes, BoxesTypeOK
  <2>2. ThreadsTypeOK'
    BY <1>1 DEF InterfacePeek, Control, ThreadsTypeOK
  <2>3. Ends'
    BY <1>1, EndsStay DEF InterfacePeek, Control
  <2>4. Prepared'
    BY <1>1, PreparedStay DEF InterfacePeek, Control
  <2> QED
    BY <2>1, <2>2, <2>3, <2>4 DEF Control
<1>2. CASE InterfaceHandle
  <2>1. Boxes'
    BY <1>2, HeadAndTail DEF InterfaceHandle, In!Drop, Boxes, BoxesTypeOK, Control,
                             Ends, EndsInOrder
  <2>2. ThreadsTypeOK'
    BY <1>2 DEF InterfaceHandle, Control, ThreadsTypeOK
  <2>3. Ends'
    <3>1. inGot = "ON_CLOSE" => handle = "freed"
      BY DEF Boxes
    <3> QED
      BY <1>2, <3>1 DEF InterfaceHandle, Control, Ends, EndsInOrder
  <2>4. Prepared'
    BY <1>2, PreparedStay DEF InterfaceHandle, Control
  <2> QED
    BY <2>1, <2>2, <2>3, <2>4 DEF Control
<1>3. CASE call_sender_finalization
  <2>1. Boxes'
    BY <1>3, PutKeepsKind DEF call_sender_finalization, Out!Put, Boxes, BoxesTypeOK,
                              Control, Ends, EndsInOrder
  <2>2. ThreadsTypeOK'
    BY <1>3 DEF call_sender_finalization, Control, ThreadsTypeOK
  <2>3. Ends'
    BY <1>3 DEF call_sender_finalization, Control, Ends, EndsInOrder
  <2>4. Prepared'
    BY <1>3, PreparedStay DEF call_sender_finalization, Control
  <2> QED
    BY <2>1, <2>2, <2>3, <2>4 DEF Control
<1>4. CASE call_networking_finalization
  <2>1. Boxes'
    BY <1>4, BoxesStay DEF call_networking_finalization, Control, Ends, EndsInOrder,
                           ThreadsTypeOK
  <2>2. ThreadsTypeOK'
    <3>1. fault' \in Faults
      BY <1>4 DEF call_networking_finalization, Faults
    <3> QED
      BY <1>4, <3>1 DEF call_networking_finalization, Control, ThreadsTypeOK
  <2>3. Ends'
    BY <1>4 DEF call_networking_finalization, Control, Ends, EndsInOrder
  <2>4. Prepared'
    <3>1. handle = "freed"
      BY <1>4 DEF call_networking_finalization, Control, ThreadsTypeOK, Ends,
                  EndsInOrder
    <3>2. LoopAlive => initialised
      BY <3>1 DEF LoopAlive
    <3>3. /\ fault' = "none"
          /\ UNCHANGED << sendVars, senderVars, initialised, handle >>
      BY <1>4, <3>2 DEF call_networking_finalization
    <3> QED
      BY <3>3 DEF Control, Prepared, OnlyEarlyWritesUnprepared
  <2> QED
    BY <2>1, <2>2, <2>3, <2>4 DEF Control
<1> QED
  BY <1>1, <1>2, <1>3, <1>4 DEF InterfaceStep

\* The sender ends when it is told to, and routes to the endpoint there is.
LEMMA SenderKeeps ==
    ASSUME Boxes, Control, Alive, SenderStep \/ SenderPeek
    PROVE  Boxes' /\ Control'
<1>1. CASE SenderPeek
  <2>1. Boxes'
    <3>1. /\ outItems # << >> /\ outGot' = outItems[1]
          /\ outPhase' = "got"
          /\ UNCHANGED << outItems, inVars, handle, status >>
      BY <1>1 DEF SenderPeek, Out!Peek
    <3>2. /\ outItems \in Seq({"text", "SHUTDOWN_SEND"}) => outGot' \in {"text", "SHUTDOWN_SEND"}
          /\ outItems \in Seq({"text"}) => outGot' \in {"text"}
      BY <3>1, HeadAndTail
    <3> QED
      BY <3>1, <3>2 DEF Boxes, BoxesTypeOK
  <2>2. ThreadsTypeOK'
    BY <1>1 DEF SenderPeek, Control, ThreadsTypeOK
  <2>3. Ends'
    BY <1>1, EndsStay DEF SenderPeek, Control
  <2>4. Prepared'
    BY <1>1, PreparedStay DEF SenderPeek, Control
  <2> QED
    BY <2>1, <2>2, <2>3, <2>4 DEF Control
<1>2. CASE SenderDrop
  <2>1. Boxes'
    BY <1>2, HeadAndTail DEF SenderDrop, Out!Drop, Boxes, BoxesTypeOK, Control, Ends,
                             EndsInOrder
  <2>2. ThreadsTypeOK'
    BY <1>2 DEF SenderDrop, Control, ThreadsTypeOK
  <2>3. Ends'
    <3>1. outGot = "SHUTDOWN_SEND" => status # "ONLINE"
      BY DEF Boxes
    <3> QED
      BY <1>2, <3>1 DEF SenderDrop, Control, ThreadsTypeOK, Ends, EndsInOrder
  <2>4. Prepared'
    BY <1>2 DEF SenderDrop, Control, Prepared, OnlyEarlyWritesUnprepared
  <2> QED
    BY <2>1, <2>2, <2>3, <2>4 DEF Control
<1>3. CASE SenderRoute
  <2>1. Boxes'
    BY <1>3, BoxesStay DEF SenderRoute, Control, Ends, EndsInOrder, ThreadsTypeOK
  <2>2. ThreadsTypeOK'
    BY <1>3 DEF SenderRoute, Control, ThreadsTypeOK
  <2>3. Ends'
    BY <1>3 DEF SenderRoute, Control, Ends, EndsInOrder
  <2>4. Prepared'
    BY <1>3 DEF SenderRoute, ThreadsTypeOK, Control, Prepared,
                OnlyEarlyWritesUnprepared
  <2> QED
    BY <2>1, <2>2, <2>3, <2>4 DEF Control
<1>4. CASE SenderStoreWrite
  <2>1. Boxes'
    BY <1>4, BoxesStay DEF SenderStoreWrite, Control, Ends, EndsInOrder, ThreadsTypeOK
  <2>2. ThreadsTypeOK'
    BY <1>4 DEF SenderStoreWrite, Send!Store, Control, ThreadsTypeOK
  <2>3. Ends'
    BY <1>4 DEF SenderStoreWrite, Control, Ends, EndsInOrder
  <2>4. Prepared'
    BY <1>4 DEF SenderStoreWrite, Send!Store, ThreadsTypeOK, Control, Prepared,
                OnlyEarlyWritesUnprepared
  <2> QED
    BY <2>1, <2>2, <2>3, <2>4 DEF Control
<1>5. CASE SenderSendWrite
  <2>1. Boxes'
    BY <1>5, BoxesStay DEF SenderSendWrite, Control, Ends, EndsInOrder, ThreadsTypeOK
  <2>2. ThreadsTypeOK'
    <3>1. fault' \in Faults
      BY <1>5 DEF SenderSendWrite, Faults
    <3> QED
      BY <1>5, <3>1 DEF SenderSendWrite, Send!Send, Control, ThreadsTypeOK
  <2>3. Ends'
    BY <1>5 DEF SenderSendWrite, Control, Ends, EndsInOrder
  <2>4. Prepared'
    BY <1>5 DEF SenderSendWrite, Send!Send, Control, Prepared,
                OnlyEarlyWritesUnprepared
  <2> QED
    BY <2>1, <2>2, <2>3, <2>4 DEF Control
<1> QED
  BY <1>1, <1>2, <1>3, <1>4, <1>5 DEF SenderStep

\* The loop frees the connection and says so, in this order.
LEMMA LoopKeeps ==
    ASSUME Boxes, Control, Alive, LoopStep
    PROVE  Boxes' /\ Control'
<1>1. CASE StartNetworking
  <2>1. Boxes'
    BY <1>1, BoxesStay DEF StartNetworking, Control, Ends, EndsInOrder, ThreadsTypeOK
  <2>2. ThreadsTypeOK'
    BY <1>1 DEF StartNetworking, Ends, Control, ThreadsTypeOK
  <2>3. Ends'
    BY <1>1 DEF StartNetworking, Control, Ends, EndsInOrder
  <2>4. Prepared'
    BY <1>1 DEF StartNetworking, Ends, Control, Prepared, OnlyEarlyWritesUnprepared
  <2> QED
    BY <2>1, <2>2, <2>3, <2>4 DEF Control
<1>2. CASE OnConnect
  <2>1. Boxes'
    BY <1>2, BoxesStay DEF OnConnect, Polling, Control, Ends, EndsInOrder,
                           ThreadsTypeOK
  <2>2. ThreadsTypeOK'
    BY <1>2 DEF OnConnect, Send!Reinit, Control, ThreadsTypeOK
  <2>3. Ends'
    BY <1>2 DEF OnConnect, Polling, Control, Ends, EndsInOrder
  <2>4. Prepared'
    <3>1. \/ /\ sendSlot' = NoWrite /\ sendPending' = FALSE /\ initialised' = TRUE
             /\ handle' = "open"
          \/ UNCHANGED << sendSlot, sendPending, initialised >> /\ handle' = "closing"
      BY <1>2 DEF OnConnect, Send!Reinit
    <3>2. /\ handle = "connecting" /\ ~sendFiring /\ ~initialised
          /\ UNCHANGED << sendFiring, senderVars, fault >>
      BY <1>2 DEF OnConnect, Polling, Send!Reinit, Control, Prepared
    <3>3. OnlyEarlyWritesUnprepared'
      BY <3>2 DEF Control, Prepared, OnlyEarlyWritesUnprepared
    <3> QED
      BY <3>1, <3>2, <3>3 DEF Control, Prepared
  <2> QED
    BY <2>1, <2>2, <2>3, <2>4 DEF Control
<1>3. CASE ReadError
  <2>1. Boxes'
    BY <1>3, BoxesStay DEF ReadError, Polling, Control, Ends, EndsInOrder,
                           ThreadsTypeOK
  <2>2. ThreadsTypeOK'
    BY <1>3 DEF ReadError, Control, ThreadsTypeOK
  <2>3. Ends'
    BY <1>3 DEF ReadError, Polling, Control, Ends, EndsInOrder
  <2>4. Prepared'
    BY <1>3 DEF ReadError, Control, Prepared, OnlyEarlyWritesUnprepared
  <2> QED
    BY <2>1, <2>2, <2>3, <2>4 DEF Control
<1>4. CASE FinishClose
  <2>1. Boxes'
    BY <1>4, PutKeepsKind DEF FinishClose, In!Put, Boxes, BoxesTypeOK, Control, Ends,
                              EndsInOrder
  <2>2. ThreadsTypeOK'
    BY <1>4 DEF FinishClose, Control, ThreadsTypeOK
  <2>3. Ends'
    BY <1>4 DEF FinishClose, Polling, Control, Ends, EndsInOrder
  <2>4. Prepared'
    BY <1>4 DEF FinishClose, Control, Prepared, OnlyEarlyWritesUnprepared
  <2> QED
    BY <2>1, <2>2, <2>3, <2>4 DEF Control
<1>5. CASE FireSend
  <2>1. Boxes'
    BY <1>5, BoxesStay DEF FireSend, Control, Ends, EndsInOrder, ThreadsTypeOK
  <2>2. ThreadsTypeOK'
    BY <1>5 DEF FireSend, Send!Fire, Control, ThreadsTypeOK
  <2>3. Ends'
    BY <1>5, EndsStay DEF FireSend, Control
  <2>4. Prepared'
    BY <1>5 DEF FireSend, Send!Fire, Control, Prepared, OnlyEarlyWritesUnprepared
  <2> QED
    BY <2>1, <2>2, <2>3, <2>4 DEF Control
<1>6. CASE RunSend
  <2>1. Boxes'
    BY <1>6, BoxesStay DEF RunSend, Control, Ends, EndsInOrder, ThreadsTypeOK
  <2>2. ThreadsTypeOK'
    <3>1. fault' \in Faults
      BY <1>6 DEF RunSend, WriteOutcomes, Faults
    <3> QED
      BY <1>6, <3>1 DEF RunSend, Send!Run, Control, ThreadsTypeOK
  <2>3. Ends'
    BY <1>6, EndsStay DEF RunSend, Control
  <2>4. Prepared'
    <3>1. /\ fault' # "uninitialised handle"
          /\ fault' = "null request" => sendSlot = NoWrite
          /\ fault' = "null endpoint" => sendSlot = NULL
      BY <1>6 DEF RunSend, WriteOutcomes
    <3>2. /\ sendFiring /\ sendFiring' = FALSE
          /\ UNCHANGED << sendSlot, sendPending, senderVars, initialised, handle >>
      BY <1>6 DEF RunSend, Send!Run
    <3> QED
      BY <3>1, <3>2 DEF Control, Prepared, OnlyEarlyWritesUnprepared
  <2> QED
    BY <2>1, <2>2, <2>3, <2>4 DEF Control
<1>7. CASE RunStop
  <2>1. Boxes'
    BY <1>7, BoxesStay DEF RunStop, Control, Ends, EndsInOrder, ThreadsTypeOK
  <2>2. ThreadsTypeOK'
    BY <1>7 DEF RunStop, Control, ThreadsTypeOK
  <2>3. Ends'
    BY <1>7 DEF RunStop, Control, Ends, EndsInOrder
  <2>4. Prepared'
    BY <1>7, PreparedStay DEF RunStop, Control
  <2> QED
    BY <2>1, <2>2, <2>3, <2>4 DEF Control
<1>8. CASE LoopEnds
  <2>1. Boxes'
    BY <1>8, BoxesStay DEF LoopEnds, Control, Ends, EndsInOrder, ThreadsTypeOK
  <2>2. ThreadsTypeOK'
    BY <1>8 DEF LoopEnds, Control, ThreadsTypeOK
  <2>3. Ends'
    BY <1>8 DEF LoopEnds, Polling, Control, Ends, EndsInOrder
  <2>4. Prepared'
    BY <1>8, PreparedStay DEF LoopEnds, Control
  <2> QED
    BY <2>1, <2>2, <2>3, <2>4 DEF Control
<1> QED
  BY <1>1, <1>2, <1>3, <1>4, <1>5, <1>6, <1>7, <1>8 DEF LoopStep

\* The user types, the server writes or goes away.
LEMMA EnvironmentKeeps ==
    ASSUME Boxes, Control, Alive, Environment
    PROVE  Boxes' /\ Control'
<1>1. CASE Type
  <2>1. Boxes'
    BY <1>1, PutKeepsKind DEF Type, Out!Put, Boxes, BoxesTypeOK, Control, Ends,
                              EndsInOrder
  <2>2. ThreadsTypeOK'
    BY <1>1 DEF Type, Control, ThreadsTypeOK
  <2>3. Ends'
    BY <1>1, EndsStay DEF Type, Control
  <2>4. Prepared'
    BY <1>1, PreparedStay DEF Type, Control
  <2> QED
    BY <2>1, <2>2, <2>3, <2>4 DEF Control
<1>2. CASE Read
  <2>1. Boxes'
    BY <1>2, PutKeepsKind DEF Read, In!Put, Boxes, BoxesTypeOK, Control, Ends,
                              EndsInOrder
  <2>2. ThreadsTypeOK'
    BY <1>2 DEF Read, Control, ThreadsTypeOK
  <2>3. Ends'
    BY <1>2, EndsStay DEF Read, Control
  <2>4. Prepared'
    BY <1>2, PreparedStay DEF Read, Control
  <2> QED
    BY <2>1, <2>2, <2>3, <2>4 DEF Control
<1>3. CASE Disconnect
  <2>1. Boxes'
    BY <1>3, BoxesStay DEF Disconnect, Control, Ends, EndsInOrder, ThreadsTypeOK
  <2>2. ThreadsTypeOK'
    BY <1>3 DEF Disconnect, Control, ThreadsTypeOK
  <2>3. Ends'
    BY <1>3, EndsStay DEF Disconnect, Control
  <2>4. Prepared'
    BY <1>3, PreparedStay DEF Disconnect, Control
  <2> QED
    BY <2>1, <2>2, <2>3, <2>4 DEF Control
<1> QED
  BY <1>1, <1>2, <1>3 DEF Environment

LEMMA NextKeeps == ClientInductive /\ [Next]_vars => ClientInductive'
<1> SUFFICES ASSUME Boxes, Control, [Next]_vars
             PROVE  Boxes' /\ Control'
  BY DEF ClientInductive
<1>1. CASE Alive /\ (InterfaceStep \/ InterfacePeek)
  BY <1>1, InterfaceKeeps
<1>2. CASE Alive /\ (SenderStep \/ SenderPeek)
  BY <1>2, SenderKeeps
<1>3. CASE Alive /\ LoopStep
  BY <1>3, LoopKeeps
<1>4. CASE Alive /\ Environment
  BY <1>4, EnvironmentKeeps
<1>5. CASE UNCHANGED vars
  <2>1. ThreadsTypeOK'
    BY <1>5 DEF vars, Control, ThreadsTypeOK
  <2> QED
    BY <1>5, <2>1, BoxesStay, EndsStay, PreparedStay DEF vars, Control
<1> QED
  BY <1>1, <1>2, <1>3, <1>4, <1>5
  DEF Next, InterfaceStep, SenderStep, LoopStep, Environment

LEMMA ClientInvariant == Spec => []ClientInductive
  BY InitHolds, NextKeeps, PTL DEF Spec

-----------------------------------------------------------------------------
\* The variables keep their types, and server_dest is set as long as there is a
\* connection.
THEOREM TypeCorrect == Spec => []ClientTypeOK
<1>1. ClientInductive => ClientTypeOK
  BY DEF ClientInductive, Boxes, Control, ClientTypeOK
<1> QED
  BY <1>1, ClientInvariant, PTL

\* Neither the sender nor the loop ends before the interface has read ON_CLOSE, and
\* that is not sent before the connection is closed and freed.
THEOREM ShutdownInOrder == Spec => []EndsInOrder
<1>1. ClientInductive => EndsInOrder
  BY DEF ClientInductive, Control, Ends, Prepared
<1> QED
  BY <1>1, ClientInvariant, PTL

\* An unprepared handle, an empty slot or a NULL stream is met only after a write
\* that was routed before on_connect.
THEOREM PreparedWrites == Spec => []OnlyEarlyWritesUnprepared
<1>1. ClientInductive => OnlyEarlyWritesUnprepared
  BY DEF ClientInductive, Control, Ends, Prepared
<1> QED
  BY <1>1, ClientInvariant, PTL
=============================================================================
