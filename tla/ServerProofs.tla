---------------------------- MODULE ServerProofs ----------------------------
(***************************************************************************)
(* Where messages go, which handles are used and which slots are full, for *)
(* any number of users, connections and messages and any hash function:    *)
(* the invariants of Server.  ServerInductive follows credentials from     *)
(* on_read to the base and addresses from the base to the async handle;    *)
(* LeavingInductive follows the addresses until somebody leaves, and       *)
(* NullsInductive the slots until the second accept.  What one request     *)
(* does to the base is taken from InterfaceProofs.                         *)
(***************************************************************************)
EXTENDS Server, InterfaceProofs

-----------------------------------------------------------------------------
(* Messages and records that have been shown.                              *)

\* A client's message, once on_read has put its connection in.
LEMMA Arrived ==
    ASSUME NEW r \in Request, NEW s \in Stream
    PROVE  LET m == [r EXCEPT !.endpoint = s]
           IN  /\ m \in Incoming
               /\ m.endpoint = s /\ m.cmd = r.cmd /\ m.name = r.name /\ m.pswd = r.pswd
<1> DEFINE m == [r EXCEPT !.endpoint = s]
<1>1. ClientMessage(s) \subseteq Incoming
  BY DEF Incoming
<1>2. CASE \E n \in Name, p \in Pswd : r = LogIn(NoStream, n, p)
  <2>1. PICK n \in Name, p \in Pswd : r = LogIn(NoStream, n, p)
    BY <1>2
  <2>2. m = LogIn(s, n, p)
    BY <2>1 DEF LogIn, ChatMessage
  <2>3. m \in ClientMessage(s)
    BY <2>2 DEF ClientMessage
  <2>4. m.endpoint = s /\ m.cmd = r.cmd /\ m.name = r.name /\ m.pswd = r.pswd
    BY <2>1, <2>2 DEF LogIn, ChatMessage
  <2> QED
    BY <1>1, <2>3, <2>4
<1>3. CASE \E n \in Name, p \in Pswd : r = Registr(NoStream, n, p)
  <2>1. PICK n \in Name, p \in Pswd : r = Registr(NoStream, n, p)
    BY <1>3
  <2>2. m = Registr(s, n, p)
    BY <2>1 DEF Registr, LogIn, ChatMessage
  <2>3. m \in ClientMessage(s)
    BY <2>2 DEF ClientMessage
  <2>4. m.endpoint = s /\ m.cmd = r.cmd /\ m.name = r.name /\ m.pswd = r.pswd
    BY <2>1, <2>2 DEF Registr, LogIn, ChatMessage
  <2> QED
    BY <1>1, <2>3, <2>4
<1>4. CASE \E n \in Name \cup {NoName} : r = LogOut(NoStream, n)
  <2>1. PICK n \in Name \cup {NoName} : r = LogOut(NoStream, n)
    BY <1>4
  <2>2. m = LogOut(s, n)
    BY <2>1 DEF LogOut, ChatMessage
  <2>3. m \in ClientMessage(s)
    BY <2>2 DEF ClientMessage
  <2>4. m.endpoint = s /\ m.cmd = r.cmd /\ m.name = r.name /\ m.pswd = r.pswd
    BY <2>1, <2>2 DEF LogOut, ChatMessage
  <2> QED
    BY <1>1, <2>3, <2>4
<1>5. CASE \E n \in Name \cup {NoName} : r = AskOnline(NoStream, n)
  <2>1. PICK n \in Name \cup {NoName} : r = AskOnline(NoStream, n)
    BY <1>5
  <2>2. m = AskOnline(s, n)
    BY <2>1 DEF AskOnline, ChatMessage
  <2>3. m \in ClientMessage(s)
    BY <2>2 DEF ClientMessage
  <2>4. m.endpoint = s /\ m.cmd = r.cmd /\ m.name = r.name /\ m.pswd = r.pswd
    BY <2>1, <2>2 DEF AskOnline, ChatMessage
  <2> QED
    BY <1>1, <2>3, <2>4
<1>6. CASE \E n \in Name \cup {NoName}, to \in Name : r = Text(NoStream, n, to)
  <2>1. PICK n \in Name \cup {NoName}, to \in Name : r = Text(NoStream, n, to)
    BY <1>6
  <2>2. m = Text(s, n, to)
    BY <2>1 DEF Text, ChatMessage
  <2>3. m \in ClientMessage(s)
    BY <2>2 DEF ClientMessage
  <2>4. m.endpoint = s /\ m.cmd = r.cmd /\ m.name = r.name /\ m.pswd = r.pswd
    BY <2>1, <2>2 DEF Text, ChatMessage
  <2> QED
    BY <1>1, <2>3, <2>4
<1>7. r \in ClientMessage(NoStream)
  BY ServerAssumption
<1> QED
  BY <1>2, <1>3, <1>4, <1>5, <1>6, <1>7 DEF ClientMessage

\* What was shown stays shown while the base, the credentials and the heirs grow.
LEMMA ShownKept ==
    ASSUME NEW bs, NEW bt, NEW cs, NEW ct, NEW hs, NEW ht, NEW s, NEW k, NEW name,
           Shown(bs, cs, hs, s, k, name), cs \subseteq ct, hs \subseteq ht,
           Len(bs) \in Nat, Len(bt) \in Nat, Len(bs) <= Len(bt),
           \A i \in 1..Len(bs) : /\ bt[i].nameHash = bs[i].nameHash
                                 /\ bt[i].pswdHash = bs[i].pswdHash
    PROVE  Shown(bt, ct, ht, s, k, name)
BY DEF Shown, Presented

\* A message that sets the connection of a record comes from a connection.
LEMMA SetterEndpoint ==
    ASSUME NEW m \in Incoming
    PROVE  /\ m.cmd \in {"LOG_IN", "REGISTR"} => m.endpoint \in Stream
           /\ m.endpoint \in Stream \cup {NoStream}
<1>1. CASE m = OnClose \/ m = UnknownClient
  BY <1>1 DEF OnClose, UnknownClient, ErrorMessage, ChatMessage
<1>2. ASSUME NEW s \in Stream, m \in ClientMessage(s)
      PROVE  m.endpoint = s
  <2>1. CASE \E n \in Name, p \in Pswd : m = LogIn(s, n, p)
    BY <2>1 DEF LogIn, ChatMessage
  <2>2. CASE \E n \in Name, p \in Pswd : m = Registr(s, n, p)
    BY <2>2 DEF Registr, LogIn, ChatMessage
  <2>3. CASE \E n \in Name \cup {NoName} : m = LogOut(s, n)
    BY <2>3 DEF LogOut, ChatMessage
  <2>4. CASE \E n \in Name \cup {NoName} : m = AskOnline(s, n)
    BY <2>4 DEF AskOnline, ChatMessage
  <2>5. CASE \E n \in Name \cup {NoName}, to \in Name : m = Text(s, n, to)
    BY <2>5 DEF Text, ChatMessage
  <2> QED
    BY <1>2, <2>1, <2>2, <2>3, <2>4, <2>5 DEF ClientMessage
<1> QED
  BY <1>1, <1>2 DEF Incoming

\* What waits, while neither incoming_msg nor the copy changes.
LEMMA WaitingShrinks ==
    ASSUME UNCHANGED << inItems, inGot, inPhase >>,
           interface' = interface \/ interface' # "operating"
    PROVE  Waiting' \subseteq Waiting
BY DEF Waiting

\* Pushing a message adds that message.
LEMMA WaitingGrows ==
    ASSUME inItems \in Seq(Incoming), NEW m \in Incoming, In!Put(m),
           UNCHANGED << inGot, interface >>
    PROVE  /\ inItems' \in Seq(Incoming)
           /\ Waiting' \subseteq Waiting \cup {m}
<1>1. inItems' = << m >> \o inItems /\ inPhase' = inPhase
  BY DEF In!Put
<1>2. /\ inItems' \in Seq(Incoming) /\ Len(inItems) \in Nat
      /\ Len(inItems') = Len(inItems) + 1 /\ inItems'[1] = m
      /\ \A i \in 2..Len(inItems') : inItems'[i] = inItems[i - 1] /\ i - 1 \in 1..Len(inItems)
  BY <1>1
<1>3. \A i \in 1..Len(inItems') : inItems'[i] = m \/ \E j \in 1..Len(inItems) : inItems'[i] = inItems[j]
  <2> TAKE i \in 1..Len(inItems')
  <2>1. CASE i = 1
    BY <1>2, <2>1
  <2>2. CASE i # 1
    <3>1. i \in 2..Len(inItems')
      BY <1>2, <2>2
    <3> QED
      BY <1>2, <3>1
  <2> QED
    BY <2>1, <2>2
<1> QED
  BY <1>1, <1>2, <1>3 DEF Waiting

-----------------------------------------------------------------------------
(* Steps                                                                   *)

\* Steps that leave the base and the connections alone, and that put nothing
\* unbacked into the mailbox, the sender's hands or the slot.
LEMMA Carried ==
    ASSUME ServerInductive,
           UNCHANGED << base, conn, heirs >>, presented \subseteq presented',
           inItems' \in Seq(Incoming), inGot' \in Incoming,
           \A m \in Waiting' : m \in Waiting \/ Backed(m, presented', heirs, conn),
           dest' \in (IF sender' = "storing" THEN Stream ELSE {NoStream}),
           dest' # NoStream =>
             Shown(base, presented, heirs, dest', conn[dest'], outGot'.to),
           sendSlot' # NoWrite =>
             /\ sendSlot'.endpoint \in Stream
             /\ Shown(base, presented, heirs, sendSlot'.endpoint, conn[sendSlot'.endpoint],
                      sendSlot'.to),
           \A d \in delivered' :
             d \in delivered \/ Shown(base, presented, heirs, d.stream, d.conn, d.to)
    PROVE  ServerInductive'
<1>1. base \in Seq(Client) /\ Len(base) \in Nat
  BY DEF ServerInductive, Inductive, TypeOK
<1>2. ASSUME NEW s, NEW k, NEW name, Shown(base, presented, heirs, s, k, name)
      PROVE  Shown(base', presented', heirs', s, k, name)
  <2>1. Shown(base, presented', heirs, s, k, name)
    BY <1>1, <1>2, ShownKept
  <2> QED
    BY <2>1
<1>3. Inductive'
  BY DEF ServerInductive, Inductive, TypeOK, UniqueHashes
<1>4. StreamPresented'
  BY DEF ServerInductive, StreamPresented, Presented
<1>5. DeliveredToClient'
  BY <1>2 DEF ServerInductive, DeliveredToClient
<1>6. \A m \in Waiting' : Backed(m, presented', heirs', conn')
  <2>1. ASSUME NEW m \in Waiting'
        PROVE  Backed(m, presented', heirs, conn)
    <3>1. CASE m \in Waiting
      <4>1. Backed(m, presented, heirs, conn)
        BY <3>1 DEF ServerInductive
      <4> QED
        BY <4>1 DEF Backed
    <3> QED
      BY <3>1
  <2> QED
    BY <2>1
<1>7. /\ dest' # NoStream =>
           Shown(base', presented', heirs', dest', conn'[dest'], outGot'.to)
      /\ sendSlot' # NoWrite =>
           Shown(base', presented', heirs', sendSlot'.endpoint, conn'[sendSlot'.endpoint],
                 sendSlot'.to)
  BY <1>2
<1>8. DOMAIN conn' = Stream
  BY DEF ServerInductive
<1> QED
  BY <1>3, <1>4, <1>5, <1>6, <1>7, <1>8 DEF ServerInductive

\* Steps that touch nothing of what the invariant relates.
LEMMA StepsElsewhere ==
    ASSUME ServerInductive,
           UNCHANGED << base, conn, heirs, inItems, inGot, inPhase, dest, outGot, sendSlot,
                        presented, delivered >>,
           interface' = interface \/ interface' # "operating",
           sender' = sender \/ (sender # "storing" /\ sender' # "storing")
    PROVE  ServerInductive'
<1>1. Waiting' \subseteq Waiting
  BY WaitingShrinks
<1>2. /\ inItems' \in Seq(Incoming) /\ inGot' \in Incoming
      /\ dest' \in (IF sender' = "storing" THEN Stream ELSE {NoStream})
      /\ dest' # NoStream => Shown(base, presented, heirs, dest', conn[dest'], outGot'.to)
      /\ sendSlot' # NoWrite =>
           /\ sendSlot'.endpoint \in Stream
           /\ Shown(base, presented, heirs, sendSlot'.endpoint, conn[sendSlot'.endpoint],
                    sendSlot'.to)
  BY DEF ServerInductive
<1> QED
  BY <1>1, <1>2, Carried

\* Something that is backed is pushed into incoming_msg.
LEMMA PutIncoming ==
    ASSUME ServerInductive, NEW m \in Incoming, In!Put(m),
           presented \subseteq presented', Backed(m, presented', heirs, conn),
           UNCHANGED << base, conn, heirs, interface, dest, outGot, sendSlot, delivered >>,
           sender' = sender \/ (sender # "storing" /\ sender' # "storing")
    PROVE  ServerInductive'
<1>1. inGot' = inGot /\ inItems \in Seq(Incoming)
  BY DEF In!Put, ServerInductive
<1>2. inItems' \in Seq(Incoming) /\ Waiting' \subseteq Waiting \cup {m}
  BY <1>1, WaitingGrows
<1>3. /\ inGot' \in Incoming
      /\ dest' \in (IF sender' = "storing" THEN Stream ELSE {NoStream})
      /\ dest' # NoStream => Shown(base, presented, heirs, dest', conn[dest'], outGot'.to)
      /\ sendSlot' # NoWrite =>
           /\ sendSlot'.endpoint \in Stream
           /\ Shown(base, presented, heirs, sendSlot'.endpoint, conn[sendSlot'.endpoint],
                    sendSlot'.to)
  BY <1>1 DEF ServerInductive
<1> QED
  BY <1>2, <1>3, Carried

\* One request.  Clients keep their hashes, so what was shown stays shown; a
\* record that moves or is added takes its connection from a backed message.
LEMMA OperateStep ==
    ASSUME ServerInductive, interface = "operating", interface' # "operating",
           Operate(inGot),
           UNCHANGED << inItems, inGot, inPhase, sender, dest, outGot, sendSlot, conn, heirs,
                        presented, delivered >>
    PROVE  ServerInductive'
<1>1. /\ base \in Seq(Client) /\ Len(base) \in Nat /\ inGot \in Incoming
      /\ Inductive /\ StreamPresented
  BY DEF ServerInductive, Inductive, TypeOK
<1>2. Inductive'
  BY <1>1, OperateInductive
<1>3. /\ \/ SameClients(base, base')
         \/ Grows(base, base', inGot) /\ inGot.cmd = "REGISTR"
      /\ Redirected(base, base', inGot)
  BY <1>1, OperateBase
<1>4. /\ base' \in Seq(Client) /\ Len(base') \in Nat /\ Len(base) <= Len(base')
      /\ \A i \in 1..Len(base) : /\ base'[i].nameHash = base[i].nameHash
                                /\ base'[i].pswdHash = base[i].pswdHash
  BY <1>1, <1>3 DEF SameClients, Grows
<1>5. ASSUME NEW s, NEW k, NEW name, Shown(base, presented, heirs, s, k, name)
      PROVE  Shown(base', presented, heirs, s, k, name)
  BY <1>1, <1>4, <1>5, ShownKept
<1>6. Backed(inGot, presented, heirs, conn)
  <2>1. inGot \in Waiting
    BY DEF Waiting
  <2> QED
    BY <2>1 DEF ServerInductive
<1>7. ASSUME NEW i \in 1..Len(base')
      PROVE  Presented(presented, heirs, base'[i].stream, conn[base'[i].stream], base'[i])
  <2>1. CASE i \in 1..Len(base) /\ base'[i].stream = base[i].stream
    BY <1>1, <1>4, <2>1 DEF StreamPresented, Presented
  <2>2. CASE i \in 1..Len(base) /\ base'[i].stream # base[i].stream
    <3>1. /\ inGot.cmd = "LOG_IN" /\ inGot.endpoint = base'[i].stream
          /\ Hash[inGot.name] = base'[i].nameHash /\ Hash[inGot.pswd] = base'[i].pswdHash
      BY <1>1, <1>3, <1>4, <2>2 DEF Redirected
    <3> QED
      BY <1>6, <3>1 DEF Backed, Presented
  <2>3. CASE i \notin 1..Len(base)
    <3>1. Grows(base, base', inGot) /\ inGot.cmd = "REGISTR" /\ i = Len(base) + 1
      BY <1>1, <1>3, <1>4, <2>3 DEF SameClients, Grows
    <3>2. /\ inGot.endpoint = base'[i].stream
          /\ Hash[inGot.name] = base'[i].nameHash /\ Hash[inGot.pswd] = base'[i].pswdHash
      BY <1>1, <3>1 DEF Grows
    <3> QED
      BY <1>6, <3>1, <3>2 DEF Backed, Presented
  <2> QED
    BY <2>1, <2>2, <2>3
<1>8. StreamPresented'
  BY <1>7 DEF StreamPresented
<1>9. \A m \in Waiting' : Backed(m, presented', heirs', conn')
  <2>1. Waiting' \subseteq Waiting
    BY WaitingShrinks
  <2> QED
    BY <2>1 DEF ServerInductive, Backed
<1>10. /\ dest' # NoStream =>
            Shown(base', presented', heirs', dest', conn'[dest'], outGot'.to)
       /\ sendSlot' # NoWrite =>
            Shown(base', presented', heirs', sendSlot'.endpoint, conn'[sendSlot'.endpoint],
                  sendSlot'.to)
       /\ DeliveredToClient'
  BY <1>5 DEF ServerInductive, DeliveredToClient
<1>11. /\ inItems' \in Seq(Incoming) /\ inGot' \in Incoming /\ DOMAIN conn' = Stream
       /\ dest' \in (IF sender' = "storing" THEN Stream ELSE {NoStream})
       /\ sendSlot' # NoWrite => sendSlot'.endpoint \in Stream
  BY DEF ServerInductive
<1> QED
  BY <1>2, <1>8, <1>9, <1>10, <1>11 DEF ServerInductive

\* The sender takes a connection out of a record with its addressee's hash, and
\* by StreamPresented that record's credentials were shown there.
LEMMA RouteStep ==
    ASSUME ServerInductive, SenderRoute
    PROVE  ServerInductive'
<1> DEFINE i == GetClientByName(base, outGot.to)
<1>1. base \in Seq(Client)
  BY DEF ServerInductive, Inductive, TypeOK
<1>2. /\ i \in 0..Len(base) /\ (i # 0 => base[i].nameHash = Hash[outGot.to])
  BY <1>1, LookupByName
<1>3. UNCHANGED << base, conn, heirs, inItems, inGot, inPhase, interface, outGot, sendSlot,
                   presented, delivered >>
  BY DEF SenderRoute, inVars, outVars, sendVars, interfaceVars, histories
<1>4. \/ sender' = "reporting" /\ dest' = NoStream
      \/ i # 0 /\ sender' = "storing" /\ dest' = base[i].stream
  BY DEF SenderRoute
<1> HIDE DEF i
<1>5. dest' # NoStream => Shown(base, presented, heirs, dest', conn[dest'], outGot'.to)
  <2>1. SUFFICES ASSUME i # 0, dest' = base[i].stream
                 PROVE  Shown(base, presented, heirs, dest', conn[dest'], outGot.to)
    BY <1>3, <1>4
  <2>2. i \in 1..Len(base)
    BY <1>1, <1>2, <2>1
  <2>3. Presented(presented, heirs, base[i].stream, conn[base[i].stream], base[i])
    BY <2>2 DEF ServerInductive, StreamPresented
  <2> QED
    BY <1>2, <2>1, <2>2, <2>3 DEF Shown
<1>6. dest' \in (IF sender' = "storing" THEN Stream ELSE {NoStream})
  <2>1. i # 0 => base[i] \in Client
    BY <1>1, <1>2
  <2> QED
    BY <1>4, <2>1 DEF Client
<1>7. Waiting' \subseteq Waiting
  BY <1>3, WaitingShrinks
<1>8. /\ inItems' \in Seq(Incoming) /\ inGot' \in Incoming
      /\ sendSlot' # NoWrite =>
           /\ sendSlot'.endpoint \in Stream
           /\ Shown(base, presented, heirs, sendSlot'.endpoint, conn[sendSlot'.endpoint],
                    sendSlot'.to)
  BY <1>3 DEF ServerInductive
<1> QED
  BY <1>3, <1>5, <1>6, <1>7, <1>8, Carried

LEMMA InterfaceStepInductive ==
    ASSUME ServerInductive, InterfaceStep
    PROVE  ServerInductive'
<1> USE DEF inVars, outVars, sendVars, closeVars, interfaceVars, senderVars, netVars, histories
<1>1. inItems \in Seq(Incoming) /\ inGot \in Incoming
  BY DEF ServerInductive
<1>2. ASSUME inItems' \in Seq(Incoming), inGot' \in Incoming, Waiting' \subseteq Waiting,
             UNCHANGED << base, conn, heirs, dest, sender, outGot, sendSlot, presented,
                          delivered >>
      PROVE  ServerInductive'
  <2>1. /\ dest' \in (IF sender' = "storing" THEN Stream ELSE {NoStream})
        /\ dest' # NoStream => Shown(base, presented, heirs, dest', conn[dest'], outGot'.to)
        /\ sendSlot' # NoWrite =>
             /\ sendSlot'.endpoint \in Stream
             /\ Shown(base, presented, heirs, sendSlot'.endpoint, conn[sendSlot'.endpoint],
                      sendSlot'.to)
    BY <1>2 DEF ServerInductive
  <2> QED
    BY <1>2, <2>1, Carried
<1>3. CASE InterfacePeek
  <2>1. /\ inItems # << >> /\ inGot' = inItems[1] /\ inItems' = inItems
        /\ interface = "reading" /\ interface' = interface
    BY <1>3 DEF InterfacePeek, In!Peek
  <2>2. 1 \in 1..Len(inItems) /\ inItems[1] \in Incoming
    BY <1>1, <2>1
  <2>3. Waiting' \subseteq Waiting
    BY <2>1, <2>2 DEF Waiting
  <2> QED
    BY <1>1, <1>2, <1>3, <2>1, <2>2, <2>3 DEF InterfacePeek
<1>4. CASE InterfaceDrop
  <2>1. /\ inItems # << >> /\ inItems' = Tail(inItems) /\ inGot' = inGot
        /\ inPhase = "got" /\ inPhase' = "idle"
    BY <1>4 DEF InterfaceDrop, In!Drop
  <2>2. /\ inItems' \in Seq(Incoming)
        /\ \A i \in 1..Len(inItems') : inItems'[i] = inItems[i + 1] /\ i + 1 \in 1..Len(inItems)
    BY <1>1, <2>1
  <2>3. Waiting' \subseteq Waiting
    BY <2>1, <2>2 DEF Waiting
  <2> QED
    BY <1>1, <1>2, <1>4, <2>1, <2>2, <2>3 DEF InterfaceDrop
<1>5. CASE InterfaceOperate
  <2>1. interface = "operating" /\ interface' # "operating"
    BY <1>5 DEF InterfaceOperate, AfterEmitting
  <2> QED
    BY <1>5, <2>1, OperateStep DEF InterfaceOperate
<1>6. CASE InterfaceEmit
  <2>1. interface' # "operating"
    BY <1>6 DEF InterfaceEmit, AfterEmitting
  <2> QED
    BY <1>6, <2>1, StepsElsewhere DEF InterfaceEmit, Out!Put
<1>7. CASE InterfaceStoreClose
  BY <1>7, StepsElsewhere DEF InterfaceStoreClose
<1>8. CASE InterfaceSendClose
  BY <1>8, StepsElsewhere DEF InterfaceSendClose
<1> QED
  BY <1>3, <1>4, <1>5, <1>6, <1>7, <1>8 DEF InterfaceStep

LEMMA SenderStepInductive ==
    ASSUME ServerInductive, SenderStep
    PROVE  ServerInductive'
<1> USE DEF inVars, outVars, sendVars, closeVars, interfaceVars, senderVars, netVars, histories
<1>1. /\ dest \in (IF sender = "storing" THEN Stream ELSE {NoStream}) /\ NoStream \notin Stream
      /\ inItems \in Seq(Incoming) /\ inGot \in Incoming
  BY ChatBaseAssumption DEF ServerInductive
<1>2. CASE SenderPeek
  <2>1. dest = NoStream /\ dest' = NoStream /\ sender' = sender /\ sender # "storing"
    BY <1>1, <1>2 DEF SenderPeek
  <2>2. UNCHANGED << base, conn, heirs, inItems, inGot, inPhase, interface, sendSlot,
                     presented, delivered >>
    BY <1>2 DEF SenderPeek
  <2>3. Waiting' \subseteq Waiting
    BY <2>2, WaitingShrinks
  <2>4. sendSlot' # NoWrite =>
           /\ sendSlot'.endpoint \in Stream
           /\ Shown(base, presented, heirs, sendSlot'.endpoint, conn[sendSlot'.endpoint],
                    sendSlot'.to)
    BY <2>2 DEF ServerInductive
  <2> QED
    BY <1>1, <2>1, <2>2, <2>3, <2>4, Carried
<1>3. CASE SenderDrop
  BY <1>3, StepsElsewhere DEF SenderDrop, Out!Drop
<1>4. CASE SenderRoute
  BY <1>4, RouteStep
<1>5. CASE SenderReport
  <2>1. Backed(UnknownClient, presented, heirs, conn) /\ UnknownClient \in Incoming
    BY DEF Backed, UnknownClient, ErrorMessage, ChatMessage, Incoming
  <2>2. In!Put(UnknownClient)
    BY <1>5 DEF SenderReport
  <2> QED
    BY <1>5, <2>1, <2>2, PutIncoming DEF SenderReport
<1>6. CASE SenderStoreWrite
  <2>1. /\ sendSlot' = [endpoint |-> dest, to |-> outGot.to]
        /\ dest' = NoStream /\ sender' = "sending" /\ dest \in Stream
    BY <1>1, <1>6 DEF SenderStoreWrite, Send!Store
  <2>2. sendSlot'.endpoint = dest /\ sendSlot'.to = outGot.to
    BY <2>1
  <2>3. Shown(base, presented, heirs, sendSlot'.endpoint, conn[sendSlot'.endpoint], sendSlot'.to)
    BY <1>1, <2>1, <2>2 DEF ServerInductive
  <2>4. UNCHANGED << base, conn, heirs, inItems, inGot, inPhase, interface, presented,
                     delivered >>
    BY <1>6 DEF SenderStoreWrite
  <2>5. Waiting' \subseteq Waiting
    BY <2>4, WaitingShrinks
  <2> QED
    BY <1>1, <2>1, <2>2, <2>3, <2>4, <2>5, Carried
<1>7. CASE SenderSendWrite
  BY <1>7, StepsElsewhere DEF SenderSendWrite, Send!Send
<1> QED
  BY <1>2, <1>3, <1>4, <1>5, <1>6, <1>7 DEF SenderStep

\* What a callback writes, the slot was shown to be for.
LEMMA LoopStepInductive ==
    ASSUME ServerInductive, LoopStep
    PROVE  ServerInductive'
<1> USE DEF inVars, outVars, sendVars, closeVars, interfaceVars, senderVars, netVars, histories
<1>1. CASE \E s \in Stream : ReadError(s)
  BY <1>1, StepsElsewhere DEF ReadError
<1>2. CASE \E s \in Stream : FinishClose(s)
  <2>1. Backed(OnClose, presented, heirs, conn) /\ OnClose \in Incoming
    BY DEF Backed, OnClose, ChatMessage, Incoming
  <2>2. In!Put(OnClose)
    BY <1>2 DEF FinishClose
  <2> QED
    BY <1>2, <2>1, <2>2, PutIncoming DEF FinishClose
<1>3. CASE FireSend
  BY <1>3, StepsElsewhere DEF FireSend, Send!Fire
<1>4. CASE RunSend
  <2> DEFINE copy == [stream |-> sendSlot.endpoint, conn |-> conn[sendSlot.endpoint],
                      to |-> sendSlot.to]
  <2>1. /\ \/ delivered' = delivered
           \/ fault' = "none" /\ delivered' = delivered \cup {copy}
        /\ fault' \in WriteOutcomes
    BY <1>4 DEF RunSend
  <2>2. fault' = "none" => sendSlot # NoWrite
    BY <2>1 DEF WriteOutcomes
  <2>3. \A d \in delivered' :
          d \in delivered \/ Shown(base, presented, heirs, d.stream, d.conn, d.to)
    <3>1. sendSlot # NoWrite => Shown(base, presented, heirs, copy.stream, copy.conn, copy.to)
      BY DEF ServerInductive
    <3> HIDE DEF copy
    <3> QED
      BY <2>1, <2>2, <3>1
  <2>4. UNCHANGED << base, conn, heirs, inItems, inGot, inPhase, interface, sender, dest,
                     outGot, sendSlot, presented >>
    BY <1>4 DEF RunSend, Send!Run
  <2>5. Waiting' \subseteq Waiting
    BY <2>4, WaitingShrinks
  <2>6. /\ inItems' \in Seq(Incoming) /\ inGot' \in Incoming
        /\ dest' \in (IF sender' = "storing" THEN Stream ELSE {NoStream})
        /\ dest' # NoStream => Shown(base, presented, heirs, dest', conn[dest'], outGot'.to)
        /\ sendSlot' # NoWrite =>
             /\ sendSlot'.endpoint \in Stream
             /\ Shown(base, presented, heirs, sendSlot'.endpoint, conn[sendSlot'.endpoint],
                      sendSlot'.to)
    BY <2>4 DEF ServerInductive
  <2> HIDE DEF copy
  <2> QED
    BY <2>3, <2>4, <2>5, <2>6, Carried
<1>5. CASE FireClose
  BY <1>5, StepsElsewhere DEF FireClose, Close!Fire
<1>6. CASE RunClose
  BY <1>6, StepsElsewhere DEF RunClose, Close!Run
<1> QED
  BY <1>1, <1>2, <1>3, <1>4, <1>5, <1>6 DEF LoopStep

\* A new connection inherits its address from whatever still holds it, and is
\* an heir then; every other address keeps its connection.
LEMMA AcceptStep ==
    ASSUME ServerInductive, NEW s \in Stream, Accept(s)
    PROVE  ServerInductive'
<1> USE DEF inVars, outVars, interfaceVars, senderVars
<1> DEFINE k == accepts + 1
<1>1. /\ UNCHANGED << base, inItems, inGot, inPhase, interface, outGot, sender, dest, presented,
                      delivered >>
      /\ conn' = [conn EXCEPT ![s] = k]
      /\ heirs \subseteq heirs' /\ (Referred(s) => k \in heirs')
      /\ sendSlot' = NoWrite
  BY DEF Accept, Send!Reinit
<1>2. /\ base \in Seq(Client) /\ Len(base) \in Nat
      /\ DOMAIN conn = Stream /\ inItems \in Seq(Incoming) /\ inGot \in Incoming
  BY DEF ServerInductive, Inductive, TypeOK
<1>3. DOMAIN conn' = Stream
  BY <1>1, <1>2
<1> HIDE DEF k
<1>4. /\ conn'[s] = k
      /\ \A t \in Stream : t # s => conn'[t] = conn[t]
  BY <1>1, <1>2
<1>5. ASSUME NEW t \in Stream, t = s => Referred(s), NEW client,
             Presented(presented, heirs, t, conn[t], client)
      PROVE  Presented(presented, heirs', t, conn'[t], client)
  BY <1>1, <1>4, <1>5 DEF Presented
<1>6. \A i \in 1..Len(base) : base[i].stream \in Stream /\ (base[i].stream = s => Referred(s))
  <2>1. \A i \in 1..Len(base) : base[i] \in Client
    BY <1>2
  <2> QED
    BY <2>1 DEF Client, Referred
<1>7. StreamPresented'
  <2>1. ASSUME NEW i \in 1..Len(base)
        PROVE  Presented(presented, heirs', base[i].stream, conn'[base[i].stream], base[i])
    <3>1. Presented(presented, heirs, base[i].stream, conn[base[i].stream], base[i])
      BY DEF ServerInductive, StreamPresented
    <3> QED
      BY <1>5, <1>6, <3>1
  <2> QED
    BY <1>1, <2>1 DEF StreamPresented
<1>8. dest # NoStream => Shown(base, presented, heirs', dest, conn'[dest], outGot.to)
  <2>1. SUFFICES ASSUME dest # NoStream
                 PROVE  Shown(base, presented, heirs', dest, conn'[dest], outGot.to)
    OBVIOUS
  <2>2. dest \in Stream /\ (dest = s => Referred(s))
    BY <2>1 DEF ServerInductive, Referred
  <2>3. PICK i \in 1..Len(base) : /\ base[i].nameHash = Hash[outGot.to]
                                 /\ Presented(presented, heirs, dest, conn[dest], base[i])
    BY <2>1 DEF ServerInductive, Shown
  <2>4. Presented(presented, heirs', dest, conn'[dest], base[i])
    BY <1>5, <2>2, <2>3
  <2> QED
    BY <2>3, <2>4 DEF Shown
<1>9. \A m \in Waiting : Backed(m, presented, heirs', conn')
  <2>1. SUFFICES ASSUME NEW m \in Waiting, m.cmd \in {"LOG_IN", "REGISTR"}
                 PROVE  Backed(m, presented, heirs', conn')
    BY DEF Backed
  <2>2. m \in Incoming
    <3>1. \A i \in 1..Len(inItems) : inItems[i] \in Incoming
      BY <1>2
    <3> QED
      BY <1>2, <3>1 DEF Waiting
  <2>3. m.endpoint \in Stream /\ (m.endpoint = s => Referred(s))
    BY <2>1, <2>2, SetterEndpoint DEF Referred
  <2>4. PICK c \in presented :
               /\ c.stream = m.endpoint /\ c.name = m.name /\ c.pswd = m.pswd
               /\ c.conn = conn[m.endpoint] \/ conn[m.endpoint] \in heirs
    BY <2>1 DEF ServerInductive, Backed
  <2>5. c.conn = conn'[m.endpoint] \/ conn'[m.endpoint] \in heirs'
    BY <1>1, <1>4, <2>3, <2>4
  <2> QED
    BY <2>4, <2>5 DEF Backed
<1>10. Waiting' \subseteq Waiting
  BY <1>1, WaitingShrinks
<1>11. DeliveredToClient'
  <2>1. ASSUME NEW d \in delivered
        PROVE  Shown(base, presented, heirs', d.stream, d.conn, d.to)
    <3>1. Shown(base, presented, heirs, d.stream, d.conn, d.to)
      BY DEF ServerInductive, DeliveredToClient
    <3> QED
      BY <1>1, <1>2, <3>1, ShownKept
  <2> QED
    BY <1>1, <2>1 DEF DeliveredToClient
<1>12. Inductive' /\ inItems' \in Seq(Incoming) /\ inGot' \in Incoming
       /\ dest' \in (IF sender' = "storing" THEN Stream ELSE {NoStream})
  BY <1>1 DEF ServerInductive, Inductive, TypeOK, UniqueHashes
<1> QED
  BY <1>1, <1>3, <1>7, <1>8, <1>9, <1>10, <1>11, <1>12 DEF ServerInductive

\* on_read presents what its message carries; an accept empties both slots.
LEMMA EnvironmentInductive ==
    ASSUME ServerInductive, Environment
    PROVE  ServerInductive'
<1> USE DEF inVars, outVars, sendVars, closeVars, interfaceVars, senderVars, netVars, histories
<1>1. CASE \E s \in Stream : Accept(s)
  BY <1>1, AcceptStep
<1>2. CASE \E s \in Stream : Disconnect(s) \/ AcceptFails(s)
  BY <1>2, StepsElsewhere DEF Disconnect, AcceptFails
<1>3. CASE \E s \in Stream, r \in Request : Read(s, r)
  <2>1. PICK s \in Stream, r \in Request : Read(s, r)
    BY <1>3
  <2> DEFINE m == [r EXCEPT !.endpoint = s]
             c == [stream |-> s, conn |-> conn[s], name |-> r.name, pswd |-> r.pswd]
  <2>2. In!Put(m) /\ presented \subseteq presented'
    BY <2>1 DEF Read
  <2>3. /\ m \in Incoming
        /\ m.endpoint = s /\ m.cmd = r.cmd /\ m.name = r.name /\ m.pswd = r.pswd
    BY Arrived
  <2>4. r.cmd \in {"LOG_IN", "REGISTR"} => c \in presented'
    BY <2>1 DEF Read
  <2>5. c.stream = s /\ c.conn = conn[s] /\ c.name = r.name /\ c.pswd = r.pswd
    OBVIOUS
  <2> HIDE DEF m, c
  <2>6. Backed(m, presented', heirs, conn)
    BY <2>3, <2>4, <2>5 DEF Backed
  <2>7. /\ UNCHANGED << base, conn, heirs, interface, dest, outGot, sendSlot, delivered >>
        /\ sender' = sender
    BY <2>1 DEF Read
  <2> QED
    BY <2>2, <2>3, <2>6, <2>7, PutIncoming
<1> QED
  BY <1>1, <1>2, <1>3 DEF Environment

-----------------------------------------------------------------------------
(* Types                                                                   *)

\* The parts of ServerTypeOK beside the base: the interface thread, the two
\* mailboxes, the sender with its handle, and the loop.
InterfaceTypes ==
    /\ effect \in EffectType
    /\ interface \in {"reading", "operating", "emitting", "storing", "sending"}
    /\ emitted \in 0..Len(effect.out)
    /\ interface = "emitting" => emitted # Len(effect.out)

IncomingTypes == inPhase \in {"idle", "got"} /\ inItems \in Seq(Incoming) /\ inGot \in Incoming

OutgoingTypes ==
    outPhase \in {"idle", "got"} /\ outItems \in Seq(chat_message_t) /\ outGot \in chat_message_t

SenderTypes ==
    /\ sender \in {"reading", "routing", "reporting", "storing", "sending"}
    /\ dest \in (IF sender = "storing" THEN Stream ELSE {NoStream})

SlotTypes ==
    /\ sendSlot \in {NoWrite} \cup [endpoint : Stream, to : Name \cup {NoName}]
    /\ closeSlot \in Stream \cup {NoStream}

NetTypes ==
    /\ handle \in [Stream -> {"free", "open", "closing"}]
    /\ peer \in [Stream -> BOOLEAN]
    /\ \A s \in Stream : peer[s] => handle[s] # "free"
    /\ fault \in Faults

\* ServerTypeOK but for the base, whose type is part of ServerInductive.
ServerTypes ==
    InterfaceTypes /\ IncomingTypes /\ OutgoingTypes /\ SenderTypes /\ SlotTypes /\ NetTypes

LEMMA TypeParts == ServerTypeOK <=> TypeOK /\ ServerTypes
BY DEF ServerTypeOK, ServerTypes, InterfaceTypes, IncomingTypes, OutgoingTypes, SenderTypes,
       SlotTypes, NetTypes

LEMMA PushedOn ==
    ASSUME NEW S, NEW q \in Seq(S), NEW m \in S
    PROVE  << m >> \o q \in Seq(S)
OBVIOUS

LEMMA TakenOff ==
    ASSUME NEW S, NEW q \in Seq(S), q # << >>
    PROVE  q[1] \in S /\ Tail(q) \in Seq(S)
OBVIOUS

LEMMA EffectFields ==
    ASSUME NEW e \in EffectType
    PROVE  /\ e.out \in Seq(chat_message_t) /\ Len(e.out) \in Nat
           /\ e.close \in Stream \cup {NoStream} /\ e.fault \in Faults
<1>1. e.out \in Seq(chat_message_t)
  BY DEF EffectType
<1>2. Len(e.out) \in Nat
  BY <1>1
<1>3. e.close \in Stream \cup {NoStream} /\ e.fault \in Faults
  BY DEF EffectType, Faults
<1> QED
  BY <1>1, <1>2, <1>3

\* Where the interface goes depends on what is left of the effect.
LEMMA EmittingTyped ==
    ASSUME NEW e \in EffectType, NEW n \in 0..Len(e.out)
    PROVE  /\ AfterEmitting(n, e) \in {"reading", "emitting", "storing"}
           /\ AfterEmitting(n, e) = "emitting" => n # Len(e.out)
<1>1. Len(e.out) \in Nat
  BY EffectFields
<1> QED
  BY <1>1 DEF AfterEmitting

LEMMA InterfaceKeepsTypes ==
    ASSUME TypeOK, ServerTypes, InterfaceStep
    PROVE  ServerTypes'
<1> USE DEF inVars, outVars, sendVars, closeVars, interfaceVars, senderVars, netVars, histories
<1>1. InterfaceTypes /\ IncomingTypes /\ OutgoingTypes /\ SenderTypes /\ SlotTypes /\ NetTypes
  BY DEF ServerTypes
<1>2. SenderTypes' /\ UNCHANGED << sendSlot, handle, peer >>
  BY <1>1 DEF InterfaceStep, InterfacePeek, InterfaceDrop, InterfaceOperate, InterfaceEmit,
              InterfaceStoreClose, InterfaceSendClose, SenderTypes
<1>3. effect.out \in Seq(chat_message_t) /\ Len(effect.out) \in Nat
      /\ effect.close \in Stream \cup {NoStream}
  BY <1>1, EffectFields DEF InterfaceTypes
<1>4. CASE InterfacePeek
  <2>1. /\ UNCHANGED << effect, interface, emitted, outPhase, outItems, outGot, closeSlot, fault >>
        /\ inItems' = inItems /\ inItems # << >> /\ inGot' = inItems[1] /\ inPhase' = "got"
    BY <1>4 DEF InterfacePeek, In!Peek
  <2>2. inGot' \in Incoming
    BY <1>1, <2>1, TakenOff DEF IncomingTypes
  <2> QED
    BY <1>1, <1>2, <2>1, <2>2 DEF ServerTypes, InterfaceTypes, IncomingTypes, OutgoingTypes,
                                  SlotTypes, NetTypes
<1>5. CASE InterfaceDrop
  <2>1. /\ UNCHANGED << effect, emitted, outPhase, outItems, outGot, closeSlot, fault >>
        /\ inItems # << >> /\ inItems' = Tail(inItems) /\ inGot' = inGot /\ inPhase' = "idle"
        /\ interface' = "operating"
    BY <1>5 DEF InterfaceDrop, In!Drop
  <2>2. inItems' \in Seq(Incoming)
    BY <1>1, <2>1, TakenOff DEF IncomingTypes
  <2> QED
    BY <1>1, <1>2, <2>1, <2>2 DEF ServerTypes, InterfaceTypes, IncomingTypes, OutgoingTypes,
                                  SlotTypes, NetTypes
<1>6. CASE InterfaceOperate
  <2>1. /\ effect' = Handle(base, inGot) /\ fault' = effect'.fault /\ emitted' = 0
        /\ interface' = AfterEmitting(0, effect')
        /\ UNCHANGED << inPhase, inItems, inGot, outPhase, outItems, outGot, closeSlot >>
    BY <1>6 DEF InterfaceOperate, Operate
  <2>2. effect' \in EffectType
    BY <1>1, <2>1, HandleTyped DEF TypeOK, IncomingTypes
  <2>3. 0 \in 0..Len(effect'.out) /\ effect'.fault \in Faults
    <3>1. Len(effect'.out) \in Nat /\ effect'.fault \in Faults
      BY <2>2, EffectFields
    <3> QED
      BY <3>1
  <2>4. InterfaceTypes'
    BY <2>1, <2>2, <2>3, EmittingTyped DEF InterfaceTypes
  <2> QED
    BY <1>1, <1>2, <2>1, <2>3, <2>4 DEF ServerTypes, IncomingTypes, OutgoingTypes, SlotTypes,
                                        NetTypes
<1>7. CASE InterfaceEmit
  <2>1. /\ interface = "emitting" /\ emitted' = emitted + 1
        /\ interface' = AfterEmitting(emitted + 1, effect)
        /\ outItems' = << effect.out[emitted + 1] >> \o outItems
        /\ UNCHANGED << effect, outPhase, outGot, inPhase, inItems, inGot, closeSlot, fault >>
    BY <1>7 DEF InterfaceEmit, Out!Put
  <2>2. emitted + 1 \in 1..Len(effect.out) /\ emitted + 1 \in 0..Len(effect.out)
    BY <1>1, <1>3, <2>1 DEF InterfaceTypes
  <2>3. effect.out[emitted + 1] \in chat_message_t
    BY <1>3, <2>2
  <2>4. outItems' \in Seq(chat_message_t)
    BY <1>1, <2>1, <2>3, PushedOn DEF OutgoingTypes
  <2>5. InterfaceTypes'
    BY <1>1, <2>1, <2>2, EmittingTyped DEF InterfaceTypes
  <2> QED
    BY <1>1, <1>2, <2>1, <2>4, <2>5 DEF ServerTypes, IncomingTypes, OutgoingTypes, SlotTypes,
                                        NetTypes
<1>8. CASE InterfaceStoreClose \/ InterfaceSendClose
  <2>1. /\ interface' \in {"sending", "reading"}
        /\ closeSlot' \in {closeSlot, effect.close}
        /\ UNCHANGED << effect, emitted, outPhase, outItems, outGot, inPhase, inItems, inGot, fault >>
    BY <1>8 DEF InterfaceStoreClose, InterfaceSendClose, Close!Store, Close!Send
  <2> QED
    BY <1>1, <1>2, <1>3, <2>1 DEF ServerTypes, InterfaceTypes, IncomingTypes, OutgoingTypes,
                                  SlotTypes, NetTypes
<1> QED
  BY <1>4, <1>5, <1>6, <1>7, <1>8 DEF InterfaceStep

LEMMA SenderKeepsTypes ==
    ASSUME TypeOK, ServerTypes, SenderStep
    PROVE  ServerTypes'
<1> USE DEF inVars, outVars, sendVars, closeVars, interfaceVars, senderVars, netVars, histories
<1>1. InterfaceTypes /\ IncomingTypes /\ OutgoingTypes /\ SenderTypes /\ SlotTypes /\ NetTypes
  BY DEF ServerTypes
<1>2. InterfaceTypes' /\ NetTypes' /\ UNCHANGED closeSlot
  BY <1>1 DEF SenderStep, SenderPeek, SenderDrop, SenderRoute, SenderReport, SenderStoreWrite,
              SenderSendWrite, InterfaceTypes, NetTypes
<1>3. CASE SenderPeek
  <2>1. /\ UNCHANGED << inPhase, inItems, inGot, sender, dest, sendSlot >>
        /\ outItems' = outItems /\ outItems # << >> /\ outGot' = outItems[1] /\ outPhase' = "got"
    BY <1>3 DEF SenderPeek, Out!Peek
  <2>2. outGot' \in chat_message_t
    BY <1>1, <2>1, TakenOff DEF OutgoingTypes
  <2> QED
    BY <1>1, <1>2, <2>1, <2>2 DEF ServerTypes, IncomingTypes, OutgoingTypes, SenderTypes, SlotTypes
<1>4. CASE SenderDrop
  <2>1. /\ UNCHANGED << inPhase, inItems, inGot, dest, sendSlot, outGot >>
        /\ sender = "reading" /\ sender' = "routing"
        /\ outItems # << >> /\ outItems' = Tail(outItems) /\ outPhase' = "idle"
    BY <1>4 DEF SenderDrop, Out!Drop
  <2>2. outItems' \in Seq(chat_message_t)
    BY <1>1, <2>1, TakenOff DEF OutgoingTypes
  <2> QED
    BY <1>1, <1>2, <2>1, <2>2 DEF ServerTypes, IncomingTypes, OutgoingTypes, SenderTypes, SlotTypes
<1>5. CASE SenderRoute
  <2> DEFINE i == GetClientByName(base, outGot.to)
  <2>1. /\ UNCHANGED << inPhase, inItems, inGot, outPhase, outItems, outGot, sendSlot >>
        /\ \/ sender' = "reporting" /\ dest' = NoStream
           \/ i # 0 /\ sender' = "storing" /\ dest' = base[i].stream
    BY <1>5 DEF SenderRoute
  <2>2. i \in 0..Len(base)
    BY LookupByName DEF TypeOK
  <2> HIDE DEF i
  <2>3. i # 0 => base[i].stream \in Stream
    <3>1. i # 0 => base[i] \in Client
      BY <2>2 DEF TypeOK
    <3> QED
      BY <3>1 DEF Client
  <2> QED
    BY <1>1, <1>2, <2>1, <2>3 DEF ServerTypes, IncomingTypes, OutgoingTypes, SenderTypes, SlotTypes
<1>6. CASE SenderReport
  <2>1. /\ UNCHANGED << inPhase, inGot, outPhase, outItems, outGot, dest, sendSlot >>
        /\ sender = "reporting" /\ sender' = "reading"
        /\ inItems' = << UnknownClient >> \o inItems
    BY <1>6 DEF SenderReport, In!Put
  <2>2. inItems' \in Seq(Incoming)
    <3>1. UnknownClient \in Incoming
      BY DEF Incoming
    <3> QED
      BY <1>1, <2>1, <3>1, PushedOn DEF IncomingTypes
  <2> QED
    BY <1>1, <1>2, <2>1, <2>2 DEF ServerTypes, IncomingTypes, OutgoingTypes, SenderTypes, SlotTypes
<1>7. CASE SenderStoreWrite
  <2>1. /\ UNCHANGED << inPhase, inItems, inGot, outPhase, outItems, outGot >>
        /\ sender = "storing" /\ sender' = "sending" /\ dest' = NoStream
        /\ sendSlot' = [endpoint |-> dest, to |-> outGot.to]
    BY <1>7 DEF SenderStoreWrite, Send!Store
  <2>2. dest \in Stream /\ outGot.to \in Name \cup {NoName}
    BY <1>1, <2>1 DEF SenderTypes, OutgoingTypes, chat_message_t
  <2> QED
    BY <1>1, <1>2, <2>1, <2>2 DEF ServerTypes, IncomingTypes, OutgoingTypes, SenderTypes, SlotTypes
<1>8. CASE SenderSendWrite
  <2>1. /\ UNCHANGED << inPhase, inItems, inGot, outPhase, outItems, outGot, dest, sendSlot >>
        /\ sender = "sending" /\ sender' = "reading"
    BY <1>8 DEF SenderSendWrite, Send!Send
  <2> QED
    BY <1>1, <1>2, <2>1 DEF ServerTypes, IncomingTypes, OutgoingTypes, SenderTypes, SlotTypes
<1> QED
  BY <1>3, <1>4, <1>5, <1>6, <1>7, <1>8 DEF SenderStep

\* An address is freed only when its connection is known to have ended.
LEMMA LoopKeepsTypes ==
    ASSUME ServerTypes, LoopStep
    PROVE  ServerTypes'
<1> USE DEF inVars, outVars, sendVars, closeVars, interfaceVars, senderVars, netVars, histories
<1>1. InterfaceTypes /\ IncomingTypes /\ OutgoingTypes /\ SenderTypes /\ SlotTypes /\ NetTypes
  BY DEF ServerTypes
<1>2. /\ InterfaceTypes' /\ OutgoingTypes' /\ SenderTypes'
      /\ UNCHANGED << sendSlot, closeSlot >>
  BY <1>1 DEF LoopStep, ReadError, FinishClose, FireSend, RunSend, FireClose, RunClose, Send!Fire,
              Send!Run, Close!Fire, Close!Run, InterfaceTypes, OutgoingTypes, SenderTypes
<1>3. CASE \E s \in Stream : ReadError(s)
  <2>1. PICK s \in Stream : ReadError(s)
    BY <1>3
  <2>2. /\ UNCHANGED << inPhase, inItems, inGot, peer, fault >>
        /\ handle' = [handle EXCEPT ![s] = "closing"]
    BY <2>1 DEF ReadError
  <2> QED
    BY <1>1, <1>2, <2>2 DEF ServerTypes, IncomingTypes, SlotTypes, NetTypes
<1>4. CASE \E s \in Stream : FinishClose(s)
  <2>1. PICK s \in Stream : FinishClose(s)
    BY <1>4
  <2>2. /\ UNCHANGED << inPhase, inGot, fault >>
        /\ handle' = [handle EXCEPT ![s] = "free"] /\ peer' = [peer EXCEPT ![s] = FALSE]
        /\ inItems' = << OnClose >> \o inItems
    BY <2>1 DEF FinishClose, In!Put
  <2>3. inItems' \in Seq(Incoming)
    <3>1. OnClose \in Incoming
      BY DEF Incoming
    <3> QED
      BY <1>1, <2>2, <3>1, PushedOn DEF IncomingTypes
  <2>4. NetTypes'
    BY <1>1, <2>2 DEF NetTypes
  <2> QED
    BY <1>1, <1>2, <2>2, <2>3, <2>4 DEF ServerTypes, IncomingTypes, SlotTypes
<1>5. CASE FireSend \/ FireClose
  <2>1. UNCHANGED << inPhase, inItems, inGot, handle, peer, fault >>
    BY <1>5 DEF FireSend, FireClose
  <2> QED
    BY <1>1, <1>2, <2>1 DEF ServerTypes, IncomingTypes, SlotTypes, NetTypes
<1>6. CASE RunSend
  <2>1. UNCHANGED << inPhase, inItems, inGot, handle, peer >> /\ fault' \in WriteOutcomes
    BY <1>6 DEF RunSend
  <2>2. fault' \in Faults
    BY <2>1 DEF WriteOutcomes, Faults
  <2> QED
    BY <1>1, <1>2, <2>1, <2>2 DEF ServerTypes, IncomingTypes, SlotTypes, NetTypes
<1>7. CASE RunClose
  <2>1. /\ UNCHANGED << inPhase, inItems, inGot, peer >> /\ fault' = CloseOutcome
        /\ handle' = IF CloseOutcome = "none" THEN [handle EXCEPT ![closeSlot] = "closing"]
                     ELSE handle
    BY <1>7 DEF RunClose
  <2>2. fault' \in Faults
    BY <2>1 DEF CloseOutcome, Faults
  <2>3. NetTypes'
    BY <1>1, <2>1, <2>2 DEF NetTypes
  <2> QED
    BY <1>1, <1>2, <2>1, <2>3 DEF ServerTypes, IncomingTypes, SlotTypes
<1> QED
  BY <1>3, <1>4, <1>5, <1>6, <1>7 DEF LoopStep

LEMMA EnvironmentKeepsTypes ==
    ASSUME ServerTypes, Environment
    PROVE  ServerTypes'
<1> USE DEF inVars, outVars, sendVars, closeVars, interfaceVars, senderVars, netVars, histories
<1>1. InterfaceTypes /\ IncomingTypes /\ OutgoingTypes /\ SenderTypes /\ SlotTypes /\ NetTypes
  BY DEF ServerTypes
<1>2. InterfaceTypes' /\ OutgoingTypes' /\ SenderTypes'
  <2>1. UNCHANGED << effect, interface, emitted, outPhase, outItems, outGot, sender, dest >>
    BY DEF Environment, Accept, AcceptFails, Disconnect, Read
  <2> QED
    BY <1>1, <2>1 DEF InterfaceTypes, OutgoingTypes, SenderTypes
<1>3. CASE \E s \in Stream : Accept(s)
  <2>1. PICK s \in Stream : Accept(s)
    BY <1>3
  <2>2. /\ UNCHANGED << inPhase, inItems, inGot, fault >>
        /\ handle' = [handle EXCEPT ![s] = "open"] /\ peer' = [peer EXCEPT ![s] = TRUE]
        /\ sendSlot' = NoWrite /\ closeSlot' = NoStream
    BY <2>1 DEF Accept, Send!Reinit, Close!Reinit
  <2>3. NetTypes'
    BY <1>1, <2>2 DEF NetTypes
  <2> QED
    BY <1>1, <1>2, <2>2, <2>3 DEF ServerTypes, IncomingTypes, SlotTypes
<1>4. CASE \E s \in Stream : Disconnect(s)
  <2>1. PICK s \in Stream : Disconnect(s)
    BY <1>4
  <2>2. /\ UNCHANGED << inPhase, inItems, inGot, fault, handle, sendSlot, closeSlot >>
        /\ peer' = [peer EXCEPT ![s] = FALSE]
    BY <2>1 DEF Disconnect
  <2>3. NetTypes'
    BY <1>1, <2>2 DEF NetTypes
  <2> QED
    BY <1>1, <1>2, <2>2, <2>3 DEF ServerTypes, IncomingTypes, SlotTypes
<1>5. CASE \E s \in Stream, r \in Request : Read(s, r)
  <2>1. PICK s \in Stream, r \in Request : Read(s, r)
    BY <1>5
  <2> DEFINE m == [r EXCEPT !.endpoint = s]
  <2>2. /\ UNCHANGED << inPhase, inGot, fault, handle, peer, sendSlot, closeSlot >>
        /\ inItems' = << m >> \o inItems
    BY <2>1 DEF Read, In!Put
  <2>3. m \in Incoming
    BY Arrived
  <2> HIDE DEF m
  <2>4. inItems' \in Seq(Incoming)
    BY <1>1, <2>2, <2>3, PushedOn DEF IncomingTypes
  <2> QED
    BY <1>1, <1>2, <2>2, <2>4 DEF ServerTypes, IncomingTypes, SlotTypes, NetTypes
<1>6. CASE \E s \in Stream : AcceptFails(s)
  <2>1. PICK s \in Stream : AcceptFails(s)
    BY <1>6
  <2>2. /\ UNCHANGED << inPhase, inItems, inGot, fault, peer, sendSlot, closeSlot >>
        /\ handle' = [handle EXCEPT ![s] = "closing"]
    BY <2>1 DEF AcceptFails
  <2>3. NetTypes'
    BY <1>1, <2>2 DEF NetTypes
  <2> QED
    BY <1>1, <1>2, <2>2, <2>3 DEF ServerTypes, IncomingTypes, SlotTypes
<1> QED
  BY <1>3, <1>4, <1>5, <1>6 DEF Environment

\* No step but InterfaceOperate touches the base.
LEMMA OperatesOrNot ==
    ASSUME ServerNext
    PROVE  InterfaceOperate \/ UNCHANGED << base, msg, effect >>
<1> USE DEF interfaceVars
<1>1. CASE InterfaceStep
  BY <1>1 DEF InterfaceStep, InterfacePeek, InterfaceDrop, InterfaceEmit, InterfaceStoreClose,
              InterfaceSendClose
<1>2. CASE SenderStep
  BY <1>2 DEF SenderStep, SenderPeek, SenderDrop, SenderRoute, SenderReport, SenderStoreWrite,
              SenderSendWrite
<1>3. CASE LoopStep
  BY <1>3 DEF LoopStep, ReadError, FinishClose, FireSend, RunSend, FireClose, RunClose
<1>4. CASE Environment
  BY <1>4 DEF Environment, Accept, AcceptFails, Disconnect, Read
<1> QED
  BY <1>1, <1>2, <1>3, <1>4 DEF ServerNext

-----------------------------------------------------------------------------
(* Empty slots                                                             *)

\* Handling a message ends the process, if at all, before anything is posted.
LEMMA HandleFault ==
    ASSUME NEW m
    PROVE  Handle(base, m).fault \in {"none", "null client", "assert client"}
<1> DEFINE e == operate_request(base, m)
<1>1. /\ \A bs, out, close, stat : Effect(bs, out, close, stat).fault = "none"
      /\ \A bs, stat : Only(bs, stat).fault = "none"
      /\ \A bs, why : Crash(bs, why).fault = why
  BY DEF Effect, Only, Crash
<1>2. operate_command(base, m).fault \in {"none", "null client", "assert client"}
  <2>1. OperateLogIn(base, m).fault \in {"none", "null client"}
    <3>1. CASE log_in_client(base, m.name, m.pswd) = 0
      BY <1>1, <3>1 DEF OperateLogIn
    <3>2. CASE log_in_client(base, m.name, m.pswd) # 0
      BY <3>2 DEF OperateLogIn, Effect
    <3> QED
      BY <3>1, <3>2
  <2>2. OperateLogOut(base, m).fault = "none" /\ OperateRegistr(base, m).fault = "none"
    BY <1>1 DEF OperateLogOut, OperateRegistr
  <2>3. OperateOnline(base, m).fault \in {"none", "assert client"}
    <3>1. CASE GetClientByStream(base, m.endpoint) = 0
      BY <1>1, <3>1 DEF OperateOnline
    <3>2. CASE GetClientByStream(base, m.endpoint) # 0
      BY <3>2 DEF OperateOnline, Effect
    <3> QED
      BY <3>1, <3>2
  <2> QED
    BY <1>1, <2>1, <2>2, <2>3 DEF operate_command
<1>3. OperateConnectionLost(base, m).fault = "none"
  BY <1>1 DEF OperateConnectionLost
<1>4. e.fault \in {"none", "null client", "assert client"}
  <2>1. CASE m.type = "TXT_MSG"
    BY <2>1 DEF operate_request, Effect
  <2>2. CASE m.type = "SYSTEM"
    BY <1>2, <2>2 DEF operate_request
  <2>3. CASE m.type = "ERROR_MSG" /\ m.err = "CONNECTION_LOST"
    BY <1>3, <2>3 DEF operate_request
  <2>4. CASE m.type = "ERROR_MSG" /\ m.err # "CONNECTION_LOST"
    BY <1>1, <2>4 DEF operate_request
  <2>5. CASE m.type \notin {"TXT_MSG", "SYSTEM", "ERROR_MSG"}
    BY <1>1, <2>5 DEF operate_request
  <2> QED
    BY <2>1, <2>2, <2>3, <2>4, <2>5
<1>5. Handle(base, m).fault = e.fault
  <2>1. \A out : [e EXCEPT !.out = out].fault = e.fault
    OBVIOUS
  <2> QED
    BY <2>1 DEF Handle
<1> QED
  BY <1>4, <1>5

\* The note that a connection was closed asks for nothing.
LEMMA OnCloseHandled ==
    /\ Len(Handle(base, OnClose).out) = 0
    /\ Handle(base, OnClose).close = NoStream /\ Handle(base, OnClose).fault = "none"
<1> DEFINE e == Only(base, "SUCCESS")
<1>1. OnClose.type = "SYSTEM" /\ OnClose.cmd = "ON_CLOSE"
  BY DEF OnClose, ChatMessage
<1>2. operate_request(base, OnClose) = e
  BY <1>1 DEF operate_request, operate_command
<1>3. e.out = << >> /\ e.close = NoStream /\ e.fault = "none" /\ e.stat = "SUCCESS"
  BY DEF Only, Effect
<1>4. AnswerTo(OnClose, e.stat) = << >>
  BY <1>3 DEF AnswerTo
<1>5. Handle(base, OnClose) = [e EXCEPT !.out = << >> \o << >>]
  BY <1>2, <1>3, <1>4 DEF Handle
<1>6. Handle(base, OnClose) = [e EXCEPT !.out = << >>]
  BY <1>5
<1> QED
  BY <1>6 DEF Only, Effect

\* Before the first accept the interface only takes note of closed connections.
LEMMA InterfaceStaysIdle ==
    ASSUME Untouched, InterfaceStep
    PROVE  Untouched' /\ (fault' = "none" \/ fault' = fault) /\ UNCHANGED << accepts, sendVars >>
<1> USE DEF inVars, outVars, sendVars, closeVars, interfaceVars, senderVars, netVars, histories
<1>1. UNCHANGED << accepts, sendVars, outVars, closePending, closeFiring, handle, peer, sender >>
  BY DEF InterfaceStep, InterfacePeek, InterfaceDrop, InterfaceOperate, InterfaceEmit,
         InterfaceStoreClose, InterfaceSendClose, Untouched, Close!Store, Close!Send
<1>2. CASE InterfacePeek
  <2>1. /\ inItems # << >> /\ inGot' = inItems[1] /\ inItems' = inItems
        /\ interface' = interface /\ fault' = fault
    BY <1>2 DEF InterfacePeek, In!Peek
  <2>2. inGot' = OnClose
    BY <2>1 DEF Untouched
  <2> QED
    BY <1>1, <2>1, <2>2 DEF Untouched
<1>3. CASE InterfaceDrop
  <2>1. /\ inItems # << >> /\ inItems' = Tail(inItems) /\ inGot' = inGot
        /\ interface' = "operating" /\ fault' = fault
    BY <1>3 DEF InterfaceDrop, In!Drop
  <2>2. inItems' \in Seq({OnClose})
    BY <2>1 DEF Untouched
  <2> QED
    BY <1>1, <2>1, <2>2 DEF Untouched
<1>4. CASE InterfaceOperate
  <2>1. /\ effect' = Handle(base, OnClose) /\ fault' = effect'.fault
        /\ interface' = AfterEmitting(0, effect') /\ UNCHANGED << inItems, inGot >>
    BY <1>4 DEF InterfaceOperate, Operate, Untouched
  <2>2. fault' = "none" /\ interface' = "reading"
    BY <2>1, OnCloseHandled DEF AfterEmitting
  <2> QED
    BY <1>1, <2>1, <2>2 DEF Untouched
<1>5. CASE InterfaceEmit \/ InterfaceStoreClose \/ InterfaceSendClose
  BY <1>5 DEF InterfaceEmit, InterfaceStoreClose, InterfaceSendClose, Untouched
<1> QED
  BY <1>2, <1>3, <1>4, <1>5 DEF InterfaceStep

\* A server that has accepted nobody owes no callback a request.
LEMMA UntouchedNulls ==
    ASSUME Untouched', accepts' = 0, fault' = "none"
    PROVE  NullsInductive'
BY DEF Untouched, NullsInductive, NullNeedsSecondAccept

\* The interface stores a stream, and only what is stored gets signalled.
LEMMA InterfaceKeepsNulls ==
    ASSUME ServerInductive, NullsInductive, fault = "none", accepts # 0, InterfaceStep
    PROVE  NullsInductive'
<1> USE DEF inVars, outVars, sendVars, closeVars, interfaceVars, senderVars, netVars, histories
<1>1. UNCHANGED << accepts, sender, sendVars >> /\ accepts # 0
  BY DEF InterfaceStep, InterfacePeek, InterfaceDrop, InterfaceOperate, InterfaceEmit,
         InterfaceStoreClose, InterfaceSendClose
<1>2. CASE InterfacePeek \/ InterfaceDrop
  <2>1. UNCHANGED << closeVars, effect, fault >> /\ interface' \in {"reading", "operating"}
    BY <1>2 DEF InterfacePeek, InterfaceDrop
  <2> QED
    BY <1>1, <2>1 DEF NullsInductive, NullNeedsSecondAccept
<1>3. CASE InterfaceOperate
  <2>1. fault' \in {"none", "null client", "assert client"}
    BY <1>3, HandleFault DEF InterfaceOperate, Operate
  <2>2. /\ interface' \in {"reading", "emitting", "storing"}
        /\ interface' = "storing" => effect'.close # NoStream
    BY <1>3 DEF InterfaceOperate, AfterEmitting
  <2>3. UNCHANGED closeVars
    BY <1>3 DEF InterfaceOperate
  <2> QED
    BY <1>1, <2>1, <2>2, <2>3 DEF NullsInductive, NullNeedsSecondAccept
<1>4. CASE InterfaceEmit
  <2>1. /\ interface' \in {"reading", "emitting", "storing"}
        /\ interface' = "storing" => effect'.close # NoStream
    BY <1>4 DEF InterfaceEmit, AfterEmitting
  <2>2. UNCHANGED << closeVars, fault >>
    BY <1>4 DEF InterfaceEmit
  <2> QED
    BY <1>1, <2>1, <2>2 DEF NullsInductive, NullNeedsSecondAccept
<1>5. CASE InterfaceStoreClose
  <2>1. closeSlot' = effect.close /\ effect.close # NoStream /\ interface' = "sending"
    BY <1>5 DEF InterfaceStoreClose, Close!Store, NullsInductive
  <2>2. UNCHANGED fault
    BY <1>5 DEF InterfaceStoreClose
  <2> QED
    BY <1>1, <2>1, <2>2 DEF NullsInductive, NullNeedsSecondAccept
<1>6. CASE InterfaceSendClose
  <2>1. /\ interface = "sending" /\ interface' = "reading"
        /\ UNCHANGED << closeSlot, effect, fault >>
    BY <1>6 DEF InterfaceSendClose, Close!Send
  <2> QED
    BY <1>1, <2>1 DEF NullsInductive, NullNeedsSecondAccept
<1> QED
  BY <1>2, <1>3, <1>4, <1>5, <1>6 DEF InterfaceStep

\* The sender stores a request with a stream, which is not NULL.
LEMMA SenderKeepsNulls ==
    ASSUME ServerInductive, NullsInductive, SenderStep
    PROVE  NullsInductive'
<1> USE DEF inVars, outVars, sendVars, closeVars, interfaceVars, senderVars, netVars, histories
<1>1. UNCHANGED << accepts, interface, effect, closeVars, fault >> /\ accepts # 0
  BY DEF SenderStep, SenderPeek, SenderDrop, SenderRoute, SenderReport, SenderStoreWrite,
         SenderSendWrite, Out!Peek, Out!Drop, NullsInductive, Untouched
<1>2. CASE SenderPeek \/ SenderDrop \/ SenderRoute \/ SenderReport
  <2>1. UNCHANGED sendVars /\ sender' # "sending"
    BY <1>2 DEF SenderPeek, SenderDrop, SenderRoute, SenderReport
  <2> QED
    BY <1>1, <2>1 DEF NullsInductive, NullNeedsSecondAccept
<1>3. CASE SenderStoreWrite
  <2>1. sendSlot' = [endpoint |-> dest, to |-> outGot.to] /\ dest \in Stream
    BY <1>3 DEF SenderStoreWrite, Send!Store, ServerInductive
  <2>2. sendSlot' # NoWrite
    <3>1. sendSlot'.endpoint = dest /\ NoWrite.endpoint = NoStream
      BY <2>1 DEF NoWrite
    <3> QED
      BY <2>1, <3>1, ChatBaseAssumption
  <2> QED
    BY <1>1, <2>2 DEF NullsInductive, NullNeedsSecondAccept
<1>4. CASE SenderSendWrite
  <2>1. sender = "sending" /\ sender' = "reading" /\ UNCHANGED sendSlot
    BY <1>4 DEF SenderSendWrite, Send!Send
  <2> QED
    BY <1>1, <2>1 DEF NullsInductive, NullNeedsSecondAccept
<1> QED
  BY <1>2, <1>3, <1>4 DEF SenderStep

\* A callback that runs was signalled, so before the second accept its slot is full.
LEMMA LoopKeepsNulls ==
    ASSUME ServerTypes, NullsInductive, fault = "none", LoopStep
    PROVE  NullsInductive'
<1> USE DEF inVars, outVars, sendVars, closeVars, interfaceVars, senderVars, netVars, histories
<1>1. UNCHANGED << accepts, interface, effect, sender, sendSlot, closeSlot >>
  BY DEF LoopStep, ReadError, FinishClose, FireSend, RunSend, FireClose, RunClose, Send!Fire,
         Send!Run, Close!Fire, Close!Run
<1>2. CASE \E s \in Stream : ReadError(s) \/ FinishClose(s)
  <2>1. UNCHANGED << sendVars, closeVars, fault >>
    BY <1>2 DEF ReadError, FinishClose
  <2>2. CASE accepts # 0
    BY <1>1, <2>1, <2>2 DEF NullsInductive, NullNeedsSecondAccept
  <2>3. CASE accepts = 0
    <3>1. PICK s \in Stream : FinishClose(s)
      BY <1>2, <2>3 DEF ReadError, NullsInductive, Untouched
    <3>2. /\ UNCHANGED << outVars, inGot >> /\ inItems' = << OnClose >> \o inItems
          /\ handle' = [handle EXCEPT ![s] = "free"] /\ peer' = [peer EXCEPT ![s] = FALSE]
      BY <3>1 DEF FinishClose, In!Put
    <3>3. inItems' \in Seq({OnClose}) /\ Untouched
      BY <2>3, <3>2 DEF NullsInductive, Untouched
    <3>4. \A t \in Stream : handle'[t] # "open" /\ ~peer'[t]
      BY <3>2, <3>3 DEF Untouched, ServerTypes, NetTypes
    <3>5. Untouched'
      BY <1>1, <2>1, <3>2, <3>3, <3>4 DEF Untouched
    <3> QED
      BY <1>1, <2>1, <2>3, <3>5, UntouchedNulls
  <2> QED
    BY <2>2, <2>3
<1>3. CASE FireSend
  <2>1. sendPending /\ accepts # 0 /\ UNCHANGED << closeVars, fault >>
    BY <1>3 DEF FireSend, Send!Fire, NullsInductive, Untouched
  <2> QED
    BY <1>1, <2>1 DEF NullsInductive, NullNeedsSecondAccept
<1>4. CASE RunSend
  <2>1. /\ sendFiring /\ accepts # 0 /\ UNCHANGED << sendPending, closeVars >>
        /\ ~sendFiring' /\ fault' \in WriteOutcomes
    BY <1>4 DEF RunSend, Send!Run, NullsInductive, Untouched
  <2>2. fault' # "null handle"
    BY <2>1 DEF WriteOutcomes
  <2>3. fault' = "null request" => sendSlot = NoWrite
    BY <2>1 DEF WriteOutcomes
  <2>4. accepts <= 1 => sendSlot # NoWrite
    BY <2>1 DEF NullsInductive
  <2>5. NullNeedsSecondAccept'
    <3>1. ~(accepts <= 1) => accepts > 1
      <4>1. accepts \in Nat
        BY DEF NullsInductive
      <4> QED
        BY <4>1
    <3>2. fault' \in {"null request", "null handle"} => ~(accepts <= 1)
      BY <2>2, <2>3, <2>4
    <3>3. accepts' = accepts
      BY <1>1
    <3> QED
      BY <3>1, <3>2, <3>3 DEF NullNeedsSecondAccept
  <2> QED
    BY <1>1, <2>1, <2>4, <2>5 DEF NullsInductive
<1>5. CASE FireClose
  <2>1. closePending /\ accepts # 0 /\ UNCHANGED << sendVars, fault >>
    BY <1>5 DEF FireClose, Close!Fire, NullsInductive, Untouched
  <2> QED
    BY <1>1, <2>1 DEF NullsInductive, NullNeedsSecondAccept
<1>6. CASE RunClose
  <2>1. /\ closeFiring /\ accepts # 0 /\ UNCHANGED << sendVars, closePending >>
        /\ ~closeFiring' /\ fault' = CloseOutcome
    BY <1>6 DEF RunClose, Close!Run, NullsInductive, Untouched
  <2>2. /\ fault' # "null request"
        /\ fault' = "null handle" => closeSlot = NoStream
    BY <2>1 DEF CloseOutcome
  <2>3. accepts <= 1 => closeSlot # NoStream
    BY <2>1 DEF NullsInductive
  <2>4. NullNeedsSecondAccept'
    <3>1. ~(accepts <= 1) => accepts > 1
      <4>1. accepts \in Nat
        BY DEF NullsInductive
      <4> QED
        BY <4>1
    <3>2. fault' \in {"null request", "null handle"} => ~(accepts <= 1)
      BY <2>2, <2>3
    <3>3. accepts' = accepts
      BY <1>1
    <3> QED
      BY <3>1, <3>2, <3>3 DEF NullNeedsSecondAccept
  <2> QED
    BY <1>1, <2>1, <2>3, <2>4 DEF NullsInductive
<1> QED
  BY <1>2, <1>3, <1>4, <1>5, <1>6 DEF LoopStep

\* The first accept finds the server untouched; after the second nothing is claimed.
LEMMA EnvironmentKeepsNulls ==
    ASSUME ServerTypes, NullsInductive, fault = "none", Environment
    PROVE  NullsInductive'
<1> USE DEF inVars, outVars, sendVars, closeVars, interfaceVars, senderVars, netVars, histories
<1>1. CASE \E s \in Stream : Accept(s)
  <2>1. /\ accepts' = accepts + 1 /\ ~sendPending' /\ ~closePending'
        /\ UNCHANGED << sendFiring, closeFiring, interface, effect, sender, fault >>
    BY <1>1 DEF Accept, Send!Reinit, Close!Reinit
  <2>2. CASE accepts = 0
    BY <2>1, <2>2 DEF NullsInductive, NullNeedsSecondAccept, Untouched
  <2>3. CASE accepts # 0
    <3>1. accepts' > 1 /\ accepts' \in Nat
      BY <2>1, <2>3 DEF NullsInductive
    <3> QED
      BY <2>1, <3>1 DEF NullsInductive, NullNeedsSecondAccept
  <2> QED
    BY <2>2, <2>3
<1>2. CASE \E s \in Stream : Disconnect(s) \/ \E r \in Request : Read(s, r)
  <2>1. /\ UNCHANGED << accepts, interface, effect, sender, sendVars, closeVars, fault >>
        /\ accepts # 0
    BY <1>2 DEF Disconnect, Read, NullsInductive, Untouched
  <2> QED
    BY <2>1 DEF NullsInductive, NullNeedsSecondAccept
<1>3. CASE \E s \in Stream : AcceptFails(s)
  <2>1. PICK s \in Stream : AcceptFails(s)
    BY <1>3
  <2>2. /\ UNCHANGED << accepts, interface, effect, sender, sendVars, closeVars, fault, inVars,
                        outVars, peer >>
        /\ handle' = [handle EXCEPT ![s] = "closing"]
    BY <2>1 DEF AcceptFails
  <2>3. CASE accepts = 0
    <3>1. \A t \in Stream : handle'[t] # "open" /\ ~peer'[t]
      BY <2>2, <2>3 DEF NullsInductive, Untouched, ServerTypes, NetTypes
    <3>2. Untouched'
      BY <2>2, <2>3, <3>1 DEF NullsInductive, Untouched
    <3> QED
      BY <2>2, <2>3, <3>2, UntouchedNulls
  <2>4. CASE accepts # 0
    BY <2>2, <2>4 DEF NullsInductive, NullNeedsSecondAccept
  <2> QED
    BY <2>3, <2>4
<1> QED
  BY <1>1, <1>2, <1>3 DEF Environment

-----------------------------------------------------------------------------
(* Before anybody leaves                                                   *)

\* Only a log out asks for a connection to be closed.
LEMMA OnlyLogOutCloses ==
    ASSUME NEW m \in Incoming, m.cmd # "LOG_OUT"
    PROVE  Handle(base, m).close = NoStream
<1> DEFINE e == operate_request(base, m)
<1>1. Handle(base, m).close = e.close
  BY DEF Handle
<1>2. \A why, bs, stat : Crash(base, why).close = NoStream /\ Only(bs, stat).close = NoStream
  BY DEF Crash, Only, Effect
<1>3. CASE m.type = "TXT_MSG"
  BY <1>1, <1>3 DEF operate_request, Effect
<1>4. CASE m.type = "ERROR_MSG"
  BY <1>1, <1>2, <1>4, IncomingFields DEF operate_request
<1>5. CASE m.type = "SYSTEM"
  <2>1. e = operate_command(base, m) /\ m.cmd \in Commands
    BY <1>5, IncomingFields DEF operate_request
  <2> HIDE DEF e
  <2>2. CASE m.cmd = "LOG_IN"
    <3>1. e = OperateLogIn(base, m)
      BY <2>1, <2>2 DEF operate_command
    <3>2. CASE log_in_client(base, m.name, m.pswd) = 0
      BY <1>1, <1>2, <3>1, <3>2 DEF OperateLogIn
    <3>3. CASE log_in_client(base, m.name, m.pswd) # 0
      BY <1>1, <3>1, <3>3 DEF OperateLogIn, Effect
    <3> QED
      BY <3>2, <3>3
  <2>3. CASE m.cmd = "REGISTR"
    BY <1>1, <1>2, <2>1, <2>3 DEF operate_command, OperateRegistr, Effect
  <2>4. CASE m.cmd = "ONLINE"
    <3>1. e = OperateOnline(base, m)
      BY <2>1, <2>4 DEF operate_command
    <3>2. CASE GetClientByStream(base, m.endpoint) = 0
      BY <1>1, <1>2, <3>1, <3>2 DEF OperateOnline
    <3>3. CASE GetClientByStream(base, m.endpoint) # 0
      BY <1>1, <3>1, <3>3 DEF OperateOnline, Effect
    <3> QED
      BY <3>2, <3>3
  <2>5. CASE m.cmd = "ON_CLOSE"
    BY <1>1, <1>2, <2>1, <2>5 DEF operate_command
  <2> QED
    BY <2>1, <2>2, <2>3, <2>4, <2>5 DEF Commands
<1> QED
  BY <1>3, <1>4, <1>5, IncomingFields

\* The parts of LeavingInductive that hold before anybody leaves: what is on its
\* way to the base, to uv_write and to uv_close.
OpenHavePeers == \A s \in Stream : handle[s] = "open" => peer[s]

WaitingAlive ==
    \A m \in Waiting : m.cmd # "LOG_OUT" /\ (m.endpoint # NoStream => Alive(m.endpoint))

BaseAlive == \A i \in 1..Len(base) : Alive(base[i].stream)

WritesAlive == (dest # NoStream => Alive(dest)) /\ (sendSlot # NoWrite => Alive(sendSlot.endpoint))

NoCloses ==
    /\ effect.close = NoStream /\ interface \notin {"storing", "sending"}
    /\ closeSlot = NoStream /\ ~closePending /\ ~closeFiring

LEMMA LeavingParts ==
    LeavingInductive <=>
      /\ BreaksNeedLeaving
      /\ ~left => OpenHavePeers /\ WaitingAlive /\ BaseAlive /\ WritesAlive /\ NoCloses
BY DEF LeavingInductive, OpenHavePeers, WaitingAlive, BaseAlive, WritesAlive, NoCloses

\* Faults that no handle is at the bottom of.
Harmless ==
    {"none", "null client", "assert client", "null request", "request reused"}

LEMMA HarmlessBreaks ==
    ASSUME fault' \in Harmless
    PROVE  BreaksNeedLeaving'
BY DEF Harmless, BreaksNeedLeaving

LEMMA InterfaceKeepsLeaving ==
    ASSUME ServerInductive, LeavingInductive, fault = "none", ~left, InterfaceStep
    PROVE  LeavingInductive'
<1> USE DEF inVars, outVars, sendVars, closeVars, interfaceVars, senderVars, netVars, histories
<1>1. OpenHavePeers /\ WaitingAlive /\ BaseAlive /\ WritesAlive /\ NoCloses
  BY LeavingParts
<1>2. /\ inItems \in Seq(Incoming) /\ inGot \in Incoming
      /\ base \in Seq(Client) /\ Len(base) \in Nat
  BY DEF ServerInductive, Inductive, TypeOK
<1>3. UNCHANGED << handle, peer, dest, sendSlot, left >>
  BY DEF InterfaceStep, InterfacePeek, InterfaceDrop, InterfaceOperate, InterfaceEmit,
         InterfaceStoreClose, InterfaceSendClose
<1>4. OpenHavePeers' /\ WritesAlive'
  BY <1>1, <1>3 DEF OpenHavePeers, WritesAlive, Alive
<1>5. ASSUME Waiting' \subseteq Waiting
      PROVE  WaitingAlive'
  BY <1>1, <1>3, <1>5 DEF WaitingAlive, Alive
<1>6. CASE InterfacePeek
  <2>1. /\ inItems # << >> /\ inGot' = inItems[1] /\ inItems' = inItems
        /\ interface' = interface /\ UNCHANGED << base, effect, closeVars, fault >>
        /\ interface = "reading"
    BY <1>6 DEF InterfacePeek, In!Peek
  <2>2. 1 \in 1..Len(inItems)
    BY <1>2, <2>1
  <2>3. Waiting' \subseteq Waiting
    BY <2>1, <2>2 DEF Waiting
  <2>4. BaseAlive' /\ NoCloses' /\ BreaksNeedLeaving'
    BY <1>1, <1>3, <2>1 DEF BaseAlive, NoCloses, Alive, BreaksNeedLeaving
  <2> QED
    BY <1>4, <1>5, <2>3, <2>4 DEF LeavingInductive, OpenHavePeers, WaitingAlive,
       BaseAlive, WritesAlive, NoCloses
<1>7. CASE InterfaceDrop
  <2>1. /\ inItems # << >> /\ inItems' = Tail(inItems) /\ inGot' = inGot
        /\ inPhase = "got" /\ inPhase' = "idle"
        /\ interface' = "operating" /\ UNCHANGED << base, effect, closeVars, fault >>
    BY <1>7 DEF InterfaceDrop, In!Drop
  <2>2. \A i \in 1..Len(inItems') : inItems'[i] = inItems[i + 1] /\ i + 1 \in 1..Len(inItems)
    BY <1>2, <2>1
  <2>3. Waiting' \subseteq Waiting
    BY <2>1, <2>2 DEF Waiting
  <2>4. BaseAlive' /\ NoCloses' /\ BreaksNeedLeaving'
    BY <1>1, <1>3, <2>1 DEF BaseAlive, NoCloses, Alive, BreaksNeedLeaving
  <2> QED
    BY <1>4, <1>5, <2>3, <2>4 DEF LeavingInductive, OpenHavePeers, WaitingAlive,
       BaseAlive, WritesAlive, NoCloses
<1>8. CASE InterfaceOperate
  <2>1. /\ interface = "operating" /\ Operate(inGot) /\ fault' = effect'.fault
        /\ interface' = AfterEmitting(0, effect')
        /\ UNCHANGED << inItems, inGot, inPhase, closeVars >>
    BY <1>8 DEF InterfaceOperate
  <2>2. inGot \in Waiting
    BY <2>1 DEF Waiting
  <2>3. inGot.cmd # "LOG_OUT" /\ (inGot.endpoint # NoStream => Alive(inGot.endpoint))
    BY <1>1, <2>2 DEF WaitingAlive
  <2>4. effect'.close = NoStream
    BY <1>2, <2>1, <2>3, OnlyLogOutCloses DEF Operate
  <2>5. interface' \in {"reading", "emitting"}
    BY <2>1, <2>4 DEF AfterEmitting
  <2>6. Waiting' \subseteq Waiting
    BY <2>1, <2>5, WaitingShrinks
  <2>7. BaseAlive'
    <3>1. /\ \/ SameClients(base, base')
             \/ Grows(base, base', inGot) /\ inGot.cmd = "REGISTR"
          /\ Redirected(base, base', inGot)
      BY <1>2, <2>1, OperateBase
    <3>2. inGot.cmd \in {"LOG_IN", "REGISTR"} => Alive(inGot.endpoint)
      BY <1>2, <2>3, SetterEndpoint, ChatBaseAssumption
    <3>3. ASSUME NEW i \in 1..Len(base')
          PROVE  Alive(base'[i].stream)
      <4>1. CASE i \in 1..Len(base) /\ base'[i].stream = base[i].stream
        BY <1>1, <4>1 DEF BaseAlive
      <4>2. CASE i \in 1..Len(base) /\ base'[i].stream # base[i].stream
        BY <3>1, <3>2, <4>2 DEF Redirected
      <4>3. CASE i \notin 1..Len(base)
        <5>1. Grows(base, base', inGot) /\ inGot.cmd = "REGISTR" /\ i = Len(base) + 1
          BY <1>2, <3>1, <4>3 DEF SameClients, Grows
        <5> QED
          BY <3>2, <5>1 DEF Grows
      <4> QED
        BY <4>1, <4>2, <4>3
    <3> QED
      BY <1>3, <3>3 DEF BaseAlive, Alive
  <2>8. NoCloses'
    BY <1>1, <2>1, <2>4, <2>5 DEF NoCloses
  <2>9. BreaksNeedLeaving'
    BY <2>1, HandleFault, HarmlessBreaks DEF Operate, Harmless
  <2> QED
    BY <1>4, <1>5, <2>6, <2>7, <2>8, <2>9 DEF LeavingInductive, OpenHavePeers, WaitingAlive,
       BaseAlive, WritesAlive, NoCloses
<1>9. CASE InterfaceEmit
  <2>1. /\ interface' = AfterEmitting(emitted + 1, effect)
        /\ UNCHANGED << base, effect, inItems, inGot, inPhase, closeVars, fault >>
    BY <1>9 DEF InterfaceEmit
  <2>2. interface' \in {"reading", "emitting"}
    BY <1>1, <2>1 DEF AfterEmitting, NoCloses
  <2>3. Waiting' \subseteq Waiting
    BY <2>1, <2>2, WaitingShrinks
  <2>4. BaseAlive' /\ NoCloses' /\ BreaksNeedLeaving'
    BY <1>1, <1>3, <2>1, <2>2 DEF BaseAlive, NoCloses, Alive, BreaksNeedLeaving
  <2> QED
    BY <1>4, <1>5, <2>3, <2>4 DEF LeavingInductive, OpenHavePeers, WaitingAlive,
       BaseAlive, WritesAlive, NoCloses
<1>10. CASE InterfaceStoreClose \/ InterfaceSendClose
  BY <1>1, <1>10 DEF InterfaceStoreClose, InterfaceSendClose, NoCloses
<1> QED
  BY <1>6, <1>7, <1>8, <1>9, <1>10 DEF InterfaceStep

\* The sender takes its addresses from the base.
LEMMA SenderKeepsLeaving ==
    ASSUME ServerInductive, LeavingInductive, fault = "none", ~left, SenderStep
    PROVE  LeavingInductive'
<1> USE DEF inVars, outVars, sendVars, closeVars, interfaceVars, senderVars, netVars, histories
<1>1. OpenHavePeers /\ WaitingAlive /\ BaseAlive /\ WritesAlive /\ NoCloses
  BY LeavingParts
<1>2. /\ inItems \in Seq(Incoming) /\ base \in Seq(Client) /\ NoStream \notin Stream
      /\ dest \in (IF sender = "storing" THEN Stream ELSE {NoStream})
  BY ChatBaseAssumption DEF ServerInductive, Inductive, TypeOK
<1>3. UNCHANGED << handle, peer, left, base, effect, interface, inGot, inPhase, closeVars,
                   fault >>
  BY DEF SenderStep, SenderPeek, SenderDrop, SenderRoute, SenderReport, SenderStoreWrite,
         SenderSendWrite, In!Put
<1>4. OpenHavePeers' /\ BaseAlive' /\ NoCloses' /\ BreaksNeedLeaving'
  BY <1>1, <1>3 DEF OpenHavePeers, BaseAlive, NoCloses, Alive, BreaksNeedLeaving
<1>5. WaitingAlive'
  <2>1. CASE SenderReport
    <3>1. In!Put(UnknownClient)
      BY <2>1 DEF SenderReport
    <3>2. /\ UnknownClient \in Incoming /\ UnknownClient.cmd = "NONE"
          /\ UnknownClient.endpoint = NoStream
      BY DEF UnknownClient, ErrorMessage, ChatMessage, Incoming
    <3>3. Waiting' \subseteq Waiting \cup {UnknownClient}
      BY <1>2, <1>3, <3>1, <3>2, WaitingGrows
    <3> QED
      BY <1>1, <1>3, <3>2, <3>3 DEF WaitingAlive, Alive
  <2>2. CASE ~SenderReport
    <3>1. inItems' = inItems
      BY <2>2 DEF SenderStep, SenderPeek, SenderDrop, SenderRoute, SenderStoreWrite,
                  SenderSendWrite
    <3>2. Waiting' \subseteq Waiting
      BY <1>3, <3>1, WaitingShrinks
    <3> QED
      BY <1>1, <1>3, <3>2 DEF WaitingAlive, Alive
  <2> QED
    BY <2>1, <2>2
<1>6. WritesAlive'
  <2>1. CASE SenderRoute
    <3> DEFINE i == GetClientByName(base, outGot.to)
    <3>1. dest' = NoStream \/ (i # 0 /\ dest' = base[i].stream)
      BY <2>1 DEF SenderRoute
    <3>2. i \in 0..Len(base)
      BY <1>2, LookupByName
    <3> HIDE DEF i
    <3>3. dest' # NoStream => Alive(dest')
      BY <1>1, <3>1, <3>2 DEF BaseAlive
    <3>4. sendSlot' = sendSlot
      BY <2>1 DEF SenderRoute
    <3> QED
      BY <1>1, <1>3, <3>3, <3>4 DEF WritesAlive, Alive
  <2>2. CASE SenderStoreWrite
    <3>1. dest' = NoStream /\ sendSlot' = [endpoint |-> dest, to |-> outGot.to]
          /\ sender = "storing"
      BY <2>2 DEF SenderStoreWrite, Send!Store
    <3>2. sendSlot'.endpoint = dest /\ dest # NoStream
      BY <1>2, <3>1
    <3> QED
      BY <1>1, <1>3, <3>1, <3>2 DEF WritesAlive, Alive
  <2>3. CASE ~SenderRoute /\ ~SenderStoreWrite
    <3>1. dest' = dest /\ sendSlot' = sendSlot
      BY <2>3 DEF SenderStep, SenderPeek, SenderDrop, SenderReport, SenderSendWrite, Send!Send
    <3> QED
      BY <1>1, <1>3, <3>1 DEF WritesAlive, Alive
  <2> QED
    BY <2>1, <2>2, <2>3
<1> QED
  BY <1>4, <1>5, <1>6 DEF LeavingInductive, OpenHavePeers, WaitingAlive, BaseAlive,
                          WritesAlive, NoCloses

\* A handle that is closed before anybody leaves is one uv_accept failed for,
\* to which nothing refers.
LEMMA LoopKeepsLeaving ==
    ASSUME ServerInductive, ServerTypes, LeavingInductive, fault = "none", ~left, LoopStep
    PROVE  LeavingInductive'
<1> USE DEF inVars, outVars, sendVars, closeVars, interfaceVars, senderVars, netVars, histories
<1>1. OpenHavePeers /\ WaitingAlive /\ BaseAlive /\ WritesAlive /\ NoCloses
  BY LeavingParts
<1>2. inItems \in Seq(Incoming)
  BY DEF ServerInductive
<1>3. UNCHANGED << left, base, effect, interface, inGot, inPhase, dest, sendSlot, closeSlot >>
  BY DEF LoopStep, ReadError, FinishClose, FireSend, RunSend, FireClose, RunClose, Send!Fire,
         Send!Run, Close!Fire, Close!Run, In!Put
<1>4. CASE \E s \in Stream : ReadError(s)
  BY <1>1, <1>4 DEF ReadError, OpenHavePeers
<1>5. CASE FireClose \/ RunClose
  BY <1>1, <1>5 DEF FireClose, RunClose, Close!Fire, Close!Run, NoCloses
<1>6. CASE \E s \in Stream : FinishClose(s)
  <2>1. PICK s \in Stream : FinishClose(s)
    BY <1>6
  <2>2. /\ handle[s] = "closing" /\ In!Put(OnClose) /\ UNCHANGED << closeVars, fault >>
        /\ handle' = [handle EXCEPT ![s] = "free"] /\ peer' = [peer EXCEPT ![s] = FALSE]
    BY <2>1 DEF FinishClose
  <2>3. \A t : Alive(t) => t # s
    BY <2>2 DEF Alive
  <2>4. \A t : t # s => handle'[t] = handle[t] /\ peer'[t] = peer[t]
    BY <2>2
  <2>5. \A t : Alive(t) => handle'[t] = "open" /\ peer'[t]
    BY <2>3, <2>4 DEF Alive
  <2>6. OnClose \in Incoming /\ OnClose.cmd = "ON_CLOSE" /\ OnClose.endpoint = NoStream
    BY DEF OnClose, ChatMessage, Incoming
  <2>7. Waiting' \subseteq Waiting \cup {OnClose}
    BY <1>2, <1>3, <2>2, <2>6, WaitingGrows
  <2>8. WaitingAlive'
    BY <1>1, <2>5, <2>6, <2>7 DEF WaitingAlive, Alive
  <2>9. BaseAlive' /\ WritesAlive' /\ NoCloses'
    BY <1>1, <1>3, <2>2, <2>5 DEF BaseAlive, WritesAlive, NoCloses, Alive
  <2>10. OpenHavePeers'
    <3>1. \A t \in Stream : t # s => (handle'[t] = "open" => peer'[t])
      BY <1>1, <2>4 DEF OpenHavePeers
    <3>2. handle'[s] = "free"
      BY <2>1, <2>2 DEF ServerTypes, NetTypes
    <3> QED
      BY <3>1, <3>2 DEF OpenHavePeers
  <2>11. BreaksNeedLeaving'
    BY <2>2 DEF BreaksNeedLeaving
  <2> QED
    BY <2>8, <2>9, <2>10, <2>11 DEF LeavingInductive, OpenHavePeers, WaitingAlive, BaseAlive,
                                    WritesAlive, NoCloses
<1>7. CASE FireSend \/ RunSend
  <2>1. UNCHANGED << handle, peer, inItems, closeVars >>
    BY <1>7 DEF FireSend, RunSend, Send!Fire, Send!Run
  <2>2. Waiting' \subseteq Waiting
    BY <1>3, <2>1, WaitingShrinks
  <2>3. OpenHavePeers' /\ WaitingAlive' /\ BaseAlive' /\ WritesAlive' /\ NoCloses'
    BY <1>1, <1>3, <2>1, <2>2 DEF OpenHavePeers, WaitingAlive, BaseAlive, WritesAlive, NoCloses,
                                  Alive
  <2>4. fault' \in Harmless
    <3>1. CASE FireSend
      BY <3>1 DEF FireSend, Harmless
    <3>2. CASE RunSend
      <4>1. fault' \in WriteOutcomes
        BY <3>2 DEF RunSend
      <4>2. sendSlot # NoWrite =>
              handle[sendSlot.endpoint] = "open" /\ peer[sendSlot.endpoint]
        BY <1>1 DEF WritesAlive, Alive
      <4> QED
        BY <4>1, <4>2 DEF WriteOutcomes, Harmless
    <3> QED
      BY <1>7, <3>1, <3>2
  <2> QED
    BY <2>3, <2>4, HarmlessBreaks DEF LeavingInductive, OpenHavePeers, WaitingAlive, BaseAlive,
                                      WritesAlive, NoCloses
<1> QED
  BY <1>4, <1>5, <1>6, <1>7 DEF LoopStep

LEMMA EnvironmentKeepsLeaving ==
    ASSUME ServerInductive, ServerTypes, LeavingInductive, fault = "none", ~left, Environment
    PROVE  LeavingInductive'
<1> USE DEF inVars, outVars, sendVars, closeVars, interfaceVars, senderVars, netVars, histories
<1>1. OpenHavePeers /\ WaitingAlive /\ BaseAlive /\ WritesAlive /\ NoCloses
  BY LeavingParts
<1>2. inItems \in Seq(Incoming) /\ NoStream \notin Stream
  BY ChatBaseAssumption DEF ServerInductive
<1>3. /\ UNCHANGED << base, effect, interface, inGot, inPhase, dest, fault >>
  BY DEF Environment, Accept, AcceptFails, Disconnect, Read, In!Put
<1>4. BreaksNeedLeaving'
  BY <1>3 DEF BreaksNeedLeaving
<1>5. CASE \E s \in Stream : Accept(s)
  <2>1. PICK s \in Stream : Accept(s)
    BY <1>5
  <2>2. /\ handle' = [handle EXCEPT ![s] = "open"] /\ peer' = [peer EXCEPT ![s] = TRUE]
        /\ sendSlot' = NoWrite /\ closeSlot' = NoStream /\ ~closePending'
        /\ UNCHANGED << closeFiring, inItems >>
    BY <2>1 DEF Accept, Send!Reinit, Close!Reinit
  <2>3. s \in DOMAIN handle /\ s \in DOMAIN peer
    BY <2>1 DEF ServerTypes, NetTypes
  <2>4. \A t : Alive(t) => handle'[t] = "open" /\ peer'[t]
    BY <2>2, <2>3 DEF Alive
  <2>5. Waiting' \subseteq Waiting
    BY <1>3, <2>2, WaitingShrinks
  <2>6. WaitingAlive' /\ BaseAlive' /\ WritesAlive' /\ NoCloses'
    BY <1>1, <1>3, <2>2, <2>4, <2>5 DEF WaitingAlive, BaseAlive, WritesAlive, NoCloses, Alive
  <2>7. OpenHavePeers'
    BY <1>1, <2>2, <2>3 DEF OpenHavePeers
  <2> QED
    BY <1>4, <2>6, <2>7 DEF LeavingInductive, OpenHavePeers, WaitingAlive, BaseAlive,
                            WritesAlive, NoCloses
<1>6. CASE \E s \in Stream : AcceptFails(s)
  <2>1. PICK s \in Stream : AcceptFails(s)
    BY <1>6
  <2>2. /\ handle[s] = "free" /\ handle' = [handle EXCEPT ![s] = "closing"]
        /\ UNCHANGED << peer, sendSlot, closeVars, inItems >>
    BY <2>1 DEF AcceptFails
  <2>3. s \in DOMAIN handle
    BY <2>1 DEF ServerTypes, NetTypes
  <2>4. \A t : Alive(t) => handle'[t] = "open" /\ peer'[t]
    BY <2>2, <2>3 DEF Alive
  <2>5. Waiting' \subseteq Waiting
    BY <1>3, <2>2, WaitingShrinks
  <2>6. WaitingAlive' /\ BaseAlive' /\ WritesAlive' /\ NoCloses'
    BY <1>1, <1>3, <2>2, <2>4, <2>5 DEF WaitingAlive, BaseAlive, WritesAlive, NoCloses, Alive
  <2>7. OpenHavePeers'
    BY <1>1, <2>2, <2>3 DEF OpenHavePeers
  <2> QED
    BY <1>4, <2>6, <2>7 DEF LeavingInductive, OpenHavePeers, WaitingAlive, BaseAlive,
                            WritesAlive, NoCloses
<1>7. CASE \E s \in Stream : Disconnect(s)
  <2>1. left'
    BY <1>7 DEF Disconnect
  <2> QED
    BY <1>4, <2>1 DEF LeavingInductive
<1>8. CASE \E s \in Stream, r \in Request : Read(s, r)
  <2>1. PICK s \in Stream, r \in Request : Read(s, r)
    BY <1>8
  <2> DEFINE m == [r EXCEPT !.endpoint = s]
  <2>2. /\ In!Put(m) /\ Alive(s) /\ (left' <=> r.cmd = "LOG_OUT")
        /\ UNCHANGED << handle, peer, sendSlot, closeVars >>
    BY <2>1 DEF Read, Alive
  <2>3. m \in Incoming /\ m.endpoint = s /\ m.cmd = r.cmd
    BY Arrived
  <2> HIDE DEF m
  <2>4. Waiting' \subseteq Waiting \cup {m}
    BY <1>2, <1>3, <2>2, <2>3, WaitingGrows
  <2>5. OpenHavePeers' /\ BaseAlive' /\ WritesAlive' /\ NoCloses'
    BY <1>1, <1>3, <2>2 DEF OpenHavePeers, BaseAlive, WritesAlive, NoCloses, Alive
  <2>6. ~left' => WaitingAlive'
    BY <1>1, <2>2, <2>3, <2>4 DEF WaitingAlive, Alive
  <2> QED
    BY <1>4, <2>5, <2>6 DEF LeavingInductive, OpenHavePeers, WaitingAlive, BaseAlive,
                            WritesAlive, NoCloses
<1> QED
  BY <1>5, <1>6, <1>7, <1>8 DEF Environment

\* Once somebody has left, nothing is claimed any more.
LEMMA LeftStays ==
    ASSUME left, ServerNext
    PROVE  left'
<1> USE DEF histories
<1>1. CASE InterfaceStep
  BY <1>1 DEF InterfaceStep, InterfacePeek, InterfaceDrop, InterfaceOperate, InterfaceEmit,
              InterfaceStoreClose, InterfaceSendClose
<1>2. CASE SenderStep
  BY <1>2 DEF SenderStep, SenderPeek, SenderDrop, SenderRoute, SenderReport, SenderStoreWrite,
              SenderSendWrite
<1>3. CASE LoopStep
  BY <1>3 DEF LoopStep, ReadError, FinishClose, FireSend, RunSend, FireClose, RunClose
<1>4. CASE Environment
  BY <1>4 DEF Environment, Accept, AcceptFails, Disconnect, Read
<1> QED
  BY <1>1, <1>2, <1>3, <1>4 DEF ServerNext

-----------------------------------------------------------------------------
(* Theorems                                                                *)

\* What is on its way between the threads of the server carries what was
\* presented with it, in every reachable state.
THEOREM ServerInvariant == ServerSpec => []ServerInductive
<1>1. ServerInit => ServerInductive
  <2>1. SUFFICES ASSUME ServerInit
                 PROVE  ServerInductive
    OBVIOUS
  <2>2. /\ base = << >> /\ inItems = << >> /\ inGot = OnClose /\ inPhase = "idle"
        /\ interface = "reading" /\ sender = "reading" /\ dest = NoStream
        /\ sendSlot = NoWrite /\ delivered = {} /\ DOMAIN conn = Stream
    BY <2>1 DEF ServerInit, Init, In!Init, Send!AsyncInitial
  <2>3. Inductive
    BY <2>2, ChatBaseAssumption DEF Inductive, TypeOK, UniqueHashes
  <2>4. OnClose \in Incoming /\ Waiting = {}
    BY <2>2 DEF Waiting, Incoming
  <2> QED
    BY <2>2, <2>3, <2>4 DEF ServerInductive, StreamPresented, DeliveredToClient
<1>2. ServerInductive /\ [ServerNext]_serverVars => ServerInductive'
  <2>1. SUFFICES ASSUME ServerInductive, [ServerNext]_serverVars
                 PROVE  ServerInductive'
    OBVIOUS
  <2>2. CASE ServerNext
    BY <2>1, <2>2, InterfaceStepInductive, SenderStepInductive, LoopStepInductive,
       EnvironmentInductive DEF ServerNext
  <2>3. CASE UNCHANGED serverVars
    BY <2>1, <2>3, StepsElsewhere DEF serverVars, inVars, outVars, sendVars, closeVars,
       interfaceVars, senderVars, histories
  <2> QED
    BY <2>1, <2>2, <2>3
<1> QED
  BY <1>1, <1>2, PTL DEF ServerSpec

\* A record of the base points to a connection on which its name and password
\* were shown, unless that connection was given the address while a record, a
\* waiting message or the sender still held it.
THEOREM RecordsPointToOwners == ServerSpec => []StreamPresented
<1>1. ServerInductive => StreamPresented
  BY DEF ServerInductive
<1> QED
  BY <1>1, ServerInvariant, PTL

\* Nothing is written to a connection for a client whose name and password were
\* not shown on that connection, unless it was given its address too early, and
\* they were shown on an earlier connection of the address.
THEOREM NothingGoesAstray == ServerSpec => []DeliveredToClient
<1>1. ServerInductive => DeliveredToClient
  BY DEF ServerInductive
<1> QED
  BY <1>1, ServerInvariant, PTL

\* Every variable of the server has its type; no write is posted without a
\* stream, and nothing is emitted that was not made.
THEOREM ServerTypeCorrect == ServerSpec => []ServerTypeOK
<1>1. ServerInit => ServerTypes
  <2>1. SUFFICES ASSUME ServerInit
                 PROVE  ServerTypes
    OBVIOUS
  <2>2. OnClose \in Incoming /\ OnClose \in chat_message_t
    BY IncomingTyped DEF Incoming
  <2>3. /\ effect = Only(base, "SUCCESS") /\ base = << >>
        /\ interface = "reading" /\ emitted = 0
        /\ inItems = << >> /\ inPhase = "idle" /\ inGot = OnClose
        /\ outItems = << >> /\ outPhase = "idle" /\ outGot = OnClose
        /\ sender = "reading" /\ dest = NoStream
        /\ sendSlot = NoWrite /\ closeSlot = NoStream
        /\ handle = [s \in Stream |-> "free"] /\ peer = [s \in Stream |-> FALSE]
        /\ fault = "none"
    BY <2>1 DEF ServerInit, Init, In!Init, Out!Init, Send!AsyncInitial, Close!AsyncInitial
  <2>4. InterfaceTypes
    <3>1. effect \in EffectType
      <4>1. base \in Seq(Client) /\ "SUCCESS" \in ErrStats
        BY <2>3 DEF ErrStats
      <4> QED
        BY <2>3, <4>1, EffectTyped
    <3>2. Len(effect.out) \in Nat
      BY <3>1, EffectFields
    <3> QED
      BY <2>3, <3>1, <3>2 DEF InterfaceTypes
  <2> QED
    BY <2>2, <2>3, <2>4 DEF ServerTypes, IncomingTypes, OutgoingTypes, SenderTypes, SlotTypes,
                            NetTypes, Faults
<1>2. ServerTypes /\ ServerInductive /\ [ServerNext]_serverVars => ServerTypes'
  <2>1. SUFFICES ASSUME ServerTypes, TypeOK, [ServerNext]_serverVars
                 PROVE  ServerTypes'
    BY DEF ServerInductive, Inductive
  <2>2. CASE ServerNext
    BY <2>1, <2>2, InterfaceKeepsTypes, SenderKeepsTypes, LoopKeepsTypes,
       EnvironmentKeepsTypes DEF ServerNext
  <2>3. CASE UNCHANGED serverVars
    BY <2>1, <2>3 DEF serverVars, inVars, outVars, sendVars, closeVars, interfaceVars, senderVars,
       netVars, ServerTypes, InterfaceTypes, IncomingTypes, OutgoingTypes, SenderTypes,
       SlotTypes, NetTypes
  <2> QED
    BY <2>1, <2>2, <2>3
<1>3. ServerTypes /\ ServerInductive => ServerTypeOK
  BY TypeParts DEF ServerInductive, Inductive
<1> QED
  BY <1>1, <1>2, <1>3, ServerInvariant, PTL DEF ServerSpec

\* As long as nobody logs out or goes away, the loop uses no handle that is
\* closed or freed, no write fails and nothing is closed by mistake.
THEOREM NothingBreaksBeforeLeaving == ServerSpec => []BreaksNeedLeaving
<1>1. ServerInit => LeavingInductive
  <2>1. SUFFICES ASSUME ServerInit
                 PROVE  LeavingInductive
    OBVIOUS
  <2>2. /\ base = << >> /\ inItems = << >> /\ inPhase = "idle" /\ interface = "reading"
        /\ dest = NoStream /\ sendSlot = NoWrite /\ effect.close = NoStream
        /\ closeSlot = NoStream /\ closePending = FALSE /\ closeFiring = FALSE
        /\ handle = [s \in Stream |-> "free"] /\ fault = "none"
    BY <2>1 DEF ServerInit, Init, Only, Effect, In!Init, Send!AsyncInitial, Close!AsyncInitial
  <2>3. Waiting = {}
    BY <2>2 DEF Waiting
  <2> QED
    BY <2>2, <2>3 DEF LeavingInductive, BreaksNeedLeaving
<1>2. ServerTypeOK /\ LeavingInductive /\ ServerInductive /\ [ServerNext]_serverVars
        => LeavingInductive'
  <2>1. SUFFICES ASSUME ServerTypes, LeavingInductive, ServerInductive, [ServerNext]_serverVars
                 PROVE  LeavingInductive'
    BY TypeParts
  <2>2. CASE ServerNext /\ ~left
    BY <2>1, <2>2, InterfaceKeepsLeaving, SenderKeepsLeaving, LoopKeepsLeaving,
       EnvironmentKeepsLeaving DEF ServerNext
  <2>3. CASE ServerNext /\ left
    BY <2>3, LeftStays DEF LeavingInductive, BreaksNeedLeaving
  <2>4. CASE UNCHANGED serverVars
    <3>1. Waiting' = Waiting
      BY <2>4 DEF serverVars, inVars, interfaceVars, Waiting
    <3> QED
      BY <2>1, <2>4, <3>1 DEF serverVars, sendVars, closeVars, interfaceVars,
         senderVars, netVars, histories, LeavingInductive, BreaksNeedLeaving, Alive
  <2> QED
    BY <2>1, <2>2, <2>3, <2>4
<1>3. LeavingInductive => BreaksNeedLeaving
  BY DEF LeavingInductive
<1> QED
  BY <1>1, <1>2, <1>3, ServerInvariant, ServerTypeCorrect, PTL DEF ServerSpec

\* Up to the second accept no callback of the loop finds its slot empty.
THEOREM NullsNeedTwoAccepts == ServerSpec => []NullNeedsSecondAccept
<1>1. ServerInit => NullsInductive
  BY DEF ServerInit, Init, In!Init, Out!Init, Send!AsyncInitial, Close!AsyncInitial,
         NullsInductive, NullNeedsSecondAccept, Untouched
<1>2. NullsInductive /\ ServerTypeOK /\ ServerInductive /\ [ServerNext]_serverVars
        => NullsInductive'
  <2>1. SUFFICES ASSUME NullsInductive, ServerTypes, ServerInductive, [ServerNext]_serverVars
                 PROVE  NullsInductive'
    BY TypeParts
  <2>2. CASE ServerNext
    <3>1. CASE InterfaceStep /\ accepts = 0
      <4>1. Untouched
        BY <2>1, <3>1 DEF NullsInductive
      <4>2. Untouched' /\ accepts' = 0 /\ fault' = "none"
        BY <2>2, <3>1, <4>1, InterfaceStaysIdle DEF ServerNext
      <4> QED
        BY <4>2, UntouchedNulls
    <3>2. CASE InterfaceStep /\ accepts # 0
      BY <2>1, <2>2, <3>2, InterfaceKeepsNulls DEF ServerNext
    <3> QED
      BY <2>1, <2>2, <3>1, <3>2, SenderKeepsNulls, LoopKeepsNulls, EnvironmentKeepsNulls
         DEF ServerNext
  <2>3. CASE UNCHANGED serverVars
    BY <2>1, <2>3 DEF serverVars, inVars, outVars, sendVars, closeVars, interfaceVars,
       senderVars, netVars, NullsInductive, NullNeedsSecondAccept, Untouched
  <2> QED
    BY <2>1, <2>2, <2>3
<1>3. NullsInductive => NullNeedsSecondAccept
  BY DEF NullsInductive
<1> QED
  BY <1>1, <1>2, <1>3, ServerInvariant, ServerTypeCorrect, PTL DEF ServerSpec

\* The running server's base behaves as the Interface specification says: what
\* is proved of Interface for messages in any order holds of the server, for the
\* messages that its mailbox lets through, repeats or loses.
THEOREM ServerIsInterface == ServerSpec => Spec
<1> DEFINE NoCrash == fault = "none" => effect.fault = "none"
<1>1. ServerInit => Init /\ NoCrash
  BY DEF ServerInit, Init, Only, Effect
<1>2. NoCrash /\ [ServerNext]_serverVars => NoCrash'
  <2> USE DEF interfaceVars
  <2>1. SUFFICES ASSUME NoCrash, ServerNext
                 PROVE  NoCrash'
    BY DEF serverVars
  <2>2. CASE InterfaceOperate
    BY <2>2 DEF InterfaceOperate
  <2>3. CASE UNCHANGED effect
    BY <2>1, <2>3 DEF ServerNext
  <2>4. InterfaceOperate \/ UNCHANGED effect
    BY <2>1, OperatesOrNot
  <2> QED
    BY <2>2, <2>3, <2>4
<1>3. NoCrash /\ ServerInductive /\ [ServerNext]_serverVars => [Next]_vars
  <2>1. SUFFICES ASSUME NoCrash, ServerInductive, ServerNext
                 PROVE  Next \/ UNCHANGED vars
    BY DEF serverVars, interfaceVars, vars
  <2>2. CASE InterfaceOperate
    <3>1. Operate(inGot) /\ inGot \in Incoming
      BY <2>1, <2>2 DEF InterfaceOperate, ServerInductive, Backed
    <3>2. Running
      BY <2>1 DEF ServerNext, Running
    <3> QED
      BY <3>1, <3>2 DEF Next
  <2>3. InterfaceOperate \/ UNCHANGED vars
    BY <2>1, OperatesOrNot DEF vars
  <2> QED
    BY <2>2, <2>3
<1> QED
  BY <1>1, <1>2, <1>3, ServerInvariant, PTL DEF ServerSpec, Spec

\* So in the running server, too, registrations are for good, messages are
\* redirected only by the client itself, and the others are told of changes.
THEOREM ServerKeepsPromises ==
    ServerSpec => RecordsKept /\ RedirectedByOwner /\ StatusChangesTold
BY ServerIsInterface, RegistrationIsForGood, OnlyOwnersRedirect, OthersAreTold
=============================================================================
