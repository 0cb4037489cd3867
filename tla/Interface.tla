------------------------------ MODULE Interface -----------------------------
(***************************************************************************)
(* The server's interface thread (src/server.cpp) as a function: what      *)
(* operate_request makes of one incoming message.  An effect is a record:  *)
(*   base    the base of clients afterwards,                               *)
(*   out     the messages pushed into outgoing_msg, in order,              *)
(*   close   the stream handed to call_async_close, or NoStream,           *)
(*   stat    the ERR_STAT returned,                                        *)
(*   fault   "none", or how the handler takes the process down.            *)
(* The specification processes messages in any order; Server.tla says      *)
(* where they come from and what happens to the effects.                   *)
(***************************************************************************)
EXTENDS ChatBase

CONSTANTS NoName,       \* the empty name: the server's own, and unset fields
          NoPswd        \* unset field

VARIABLES msg,          \* the last message handled
          effect        \* what was made of it

ASSUME InterfaceAssumption == NoName \in DOMAIN Hash

Commands == {"LOG_IN", "LOG_OUT", "REGISTR", "ONLINE", "ON_CLOSE"}

ErrStats == {"SUCCESS", "CONNECTION_LOST", "NAME_TAKEN", "INCORRECT_LOG_IN",
             "BAD_REQUEST", "UNKNOWN_CLIENT"}

\* A chat_message_t.  name and pswd are what a command's msg_body holds.
ChatMessage(type) ==
    [type |-> type, cmd |-> "NONE", err |-> "SUCCESS", from |-> NoName, to |-> NoName,
     name |-> NoName, pswd |-> NoPswd, endpoint |-> NoStream]

chat_message_t ==
    [type : {"TXT_MSG", "SYSTEM", "ERROR_MSG"}, cmd : Commands \cup {"NONE"}, err : ErrStats,
     from : Name \cup {NoName}, to : Name \cup {NoName}, name : Name \cup {NoName},
     pswd : Pswd \cup {NoPswd}, endpoint : Stream \cup {NoStream}]

ErrorMessage(stat) == [ChatMessage("ERROR_MSG") EXCEPT !.err = stat]

Online(bs, i) == bs[i].status = "ONLINE"

\* The notice that bs[about] has changed its status, to bs[to].
StatusNotice(bs, to, about) ==
    [ChatMessage("SYSTEM") EXCEPT !.cmd = "ONLINE", !.to = bs[to].name, !.name = bs[about].name]

\* Mutant: the loop ends one client early.
send_most_status_changed(bs, about) ==
    LET sent[i \in 0..Len(bs)] ==
          IF i = 0 THEN << >>
          ELSE IF Online(bs, i) THEN Append(sent[i - 1], StatusNotice(bs, i, about))
          ELSE sent[i - 1]
    IN  sent[Len(bs) - 1]

\* send_all_status_changed: a notice to every client that is ONLINE, in order;
\* sent[i] are those sent in the first i turns of the loop.
send_all_status_changed(bs, about) ==
    LET sent[i \in 0..Len(bs)] ==
          IF i = 0 THEN << >>
          ELSE IF Online(bs, i) THEN Append(sent[i - 1], StatusNotice(bs, i, about))
          ELSE sent[i - 1]
    IN  sent[Len(bs)]

\* send_online_list: one message to the client that asked.  Its body is
\* overwritten in every turn of the loop; it is not modelled.
send_online_list(bs, i) ==
    << [ChatMessage("SYSTEM") EXCEPT !.cmd = "ONLINE", !.to = bs[i].name] >>

-----------------------------------------------------------------------------
EffectType ==
    [base : Seq(Client), out : Seq(chat_message_t), close : Stream \cup {NoStream},
     stat : ErrStats, fault : {"none", "null client", "assert client"}]

Effect(bs, out, close, stat) ==
    [base |-> bs, out |-> out, close |-> close, stat |-> stat, fault |-> "none"]

Only(bs, stat) == Effect(bs, << >>, NoStream, stat)

Crash(bs, why) == [Only(bs, "SUCCESS") EXCEPT !.fault = why]

\* client->client_stream is written before client is compared with NULL.
OperateLogIn(bs, m) ==
    LET i == log_in_client(bs, m.name, m.pswd)
        moved == [bs EXCEPT ![i].stream = m.endpoint]
    IN  IF i = 0 THEN Crash(bs, "null client")
        ELSE Effect(change_status(moved, i), send_all_status_changed(moved, i),
                    NoStream, "SUCCESS")

\* Mutant: the record is freed for the next registration.
OperateLogOutForgetting(bs, m) ==
    LET i == log_out_client(bs, m.name)
    IN  IF i = 0 THEN Only(bs, "BAD_REQUEST")
        ELSE Effect([k \in 1..(Len(bs) - 1) |-> IF k < i THEN bs[k] ELSE bs[k + 1]],
                    << >>, bs[i].stream, "SUCCESS")

OperateLogOut(bs, m) ==
    LET i == log_out_client(bs, m.name)
        toggled == change_status(bs, i)
    IN  IF i = 0 THEN Only(bs, "BAD_REQUEST")
        ELSE Effect(toggled, send_all_status_changed(toggled, i), bs[i].stream, "SUCCESS")

\* Mutant: whoever is refused is disconnected.
OperateRegistrClosing(bs, m) ==
    LET added == registr_client(bs, m.endpoint, m.name, m.pswd)
        i == Len(bs) + 1
    IN  IF ~CanRegister(bs, m.name) THEN Effect(bs, << >>, m.endpoint, "NAME_TAKEN")
        ELSE Effect(change_status(added, i), send_all_status_changed(added, i),
                    NoStream, "SUCCESS")

OperateRegistr(bs, m) ==
    LET added == registr_client(bs, m.endpoint, m.name, m.pswd)
        i == Len(bs) + 1
    IN  IF ~CanRegister(bs, m.name) THEN Only(bs, "NAME_TAKEN")
        ELSE Effect(change_status(added, i), send_all_status_changed(added, i),
                    NoStream, "SUCCESS")

\* assert(client) in send_online_list; after the break, BAD_REQUEST.
OperateOnline(bs, m) ==
    LET i == GetClientByStream(bs, m.endpoint)
    IN  IF i = 0 THEN Crash(bs, "assert client")
        ELSE Effect(bs, send_online_list(bs, i), NoStream, "BAD_REQUEST")

operate_command(bs, m) ==
    CASE m.cmd = "LOG_IN"   -> OperateLogIn(bs, m)
      [] m.cmd = "LOG_OUT"  -> OperateLogOut(bs, m)
      [] m.cmd = "REGISTR"  -> OperateRegistr(bs, m)
      [] m.cmd = "ONLINE"   -> OperateOnline(bs, m)
      [] m.cmd = "ON_CLOSE" -> Only(bs, "SUCCESS")
      [] OTHER                -> Only(bs, "BAD_REQUEST")

\* No thread inserts a message with CONNECTION_LOST today (see on_read).
OperateConnectionLost(bs, m) ==
    LET i == GetClientByStream(bs, m.endpoint)
        toggled == change_status(bs, i)
    IN  IF i = 0 THEN Only(bs, "SUCCESS")
        ELSE Effect(toggled, send_all_status_changed(toggled, i), m.endpoint, "SUCCESS")

operate_request(bs, m) ==
    CASE m.type = "TXT_MSG" -> Effect(bs, << m >>, NoStream, "SUCCESS")
      [] m.type = "SYSTEM" -> operate_command(bs, m)
      [] m.type = "ERROR_MSG" /\ m.err = "CONNECTION_LOST" -> OperateConnectionLost(bs, m)
      [] m.type = "ERROR_MSG" /\ m.err # "CONNECTION_LOST" -> Only(bs, "SUCCESS")
      [] OTHER -> Only(bs, "BAD_REQUEST")

\* start_interface: a failed request is answered with an ERROR_MSG to the name
\* its sender gave, unless that is the server's own.
AnswerTo(m, stat) ==
    IF stat = "SUCCESS" \/ m.from = NoName THEN << >>
    ELSE << [ErrorMessage(stat) EXCEPT !.to = m.from] >>

Handle(bs, m) ==
    LET e == operate_request(bs, m)
    IN  [e EXCEPT !.out = IF e.fault = "none" THEN @ \o AnswerTo(m, e.stat) ELSE @]
-----------------------------------------------------------------------------
(* The messages that can reach start_interface: what a client program      *)
(* sends, what on_close_connection adds, and what the sender reports.      *)

LogIn(s, n, p) ==
    [ChatMessage("SYSTEM") EXCEPT !.cmd = "LOG_IN", !.from = n, !.name = n, !.pswd = p,
                                  !.endpoint = s]

Registr(s, n, p) == [LogIn(s, n, p) EXCEPT !.cmd = "REGISTR"]

LogOut(s, n) ==
    [ChatMessage("SYSTEM") EXCEPT !.cmd = "LOG_OUT", !.from = n, !.name = n, !.endpoint = s]

AskOnline(s, n) ==
    [ChatMessage("SYSTEM") EXCEPT !.cmd = "ONLINE", !.from = n, !.endpoint = s]

Text(s, n, to) ==
    [ChatMessage("TXT_MSG") EXCEPT !.from = n, !.to = to, !.endpoint = s]

OnClose == [ChatMessage("SYSTEM") EXCEPT !.cmd = "ON_CLOSE"]

UnknownClient == ErrorMessage("UNKNOWN_CLIENT")

ClientMessage(s) ==
    {LogIn(s, n, p) : n \in Name, p \in Pswd}
    \cup {Registr(s, n, p) : n \in Name, p \in Pswd}
    \cup {LogOut(s, n) : n \in Name \cup {NoName}}
    \cup {AskOnline(s, n) : n \in Name \cup {NoName}}
    \cup {Text(s, n, to) : n \in Name \cup {NoName}, to \in Name}

Incoming == {OnClose, UnknownClient} \cup UNION {ClientMessage(s) : s \in Stream}

-----------------------------------------------------------------------------
vars == << base, msg, effect >>

Init ==
    /\ base = << >>
    /\ msg = OnClose
    /\ effect = Only(base, "SUCCESS")

Running == effect.fault = "none"

Operate(m) ==
    /\ msg' = m
    /\ effect' = Handle(base, m)
    /\ base' = Handle(base, m).base

Next == Running /\ \E m \in Incoming : Operate(m)

Spec == Init /\ [][Next]_vars

-----------------------------------------------------------------------------
(* Properties                                                              *)

\* The base holds at most base_size well-typed records.
TypeOK ==
    /\ base \in Seq(Client)
    /\ Len(base) <= MaxClients

\* No two registered clients have names with the same hash, although hash_djb2
\* has collisions: the later of two such names cannot be registered.
UniqueHashes ==
    \A i, j \in 1..Len(base) : base[i].nameHash = base[j].nameHash => i = j

\* Whenever the status of a client changes, or one is added, every other client
\* that is ONLINE is told: a notice with the client's name is sent, and the
\* sender, who looks for the hash of its addressee, finds that other client.
StatusChangesTold ==
    [][\A i, j \in 1..Len(base') :
         /\ i <= Len(base) => base'[i].status # base[i].status
         /\ j # i /\ Online(base', j)
         => \E k \in 1..Len(effect'.out) :
              /\ GetClientByName(base', effect'.out[k].to) = j
              /\ effect'.out[k].name = base'[i].name]_vars

\* A registration is for good: no later message removes, renames or reorders a
\* record or changes its password.  Pointers into the base stay valid.
RecordsKept ==
    [][/\ Len(base') >= Len(base)
       /\ \A i \in 1..Len(base) :
            /\ base'[i].name = base[i].name
            /\ base'[i].nameHash = base[i].nameHash
            /\ base'[i].pswdHash = base[i].pswdHash]_vars

\* Messages to a client are redirected to another connection only by somebody
\* who has shown that client's password, on that connection.
RedirectedByOwner ==
    [][\A i \in 1..Len(base) :
         base'[i].stream # base[i].stream =>
            /\ msg'.endpoint = base'[i].stream
            /\ Hash[msg'.pswd] = base[i].pswdHash]_vars

\* The inductive invariant behind these properties (proved in InterfaceProofs):
\* lookups compare hashes, so a record must keep the hash of its own name.
Inductive ==
    /\ TypeOK
    /\ UniqueHashes
    /\ \A i \in 1..Len(base) : base[i].nameHash = Hash[base[i].name]

-----------------------------------------------------------------------------
(* What the program's comments and answers say                             *)

\* A log in with a wrong name or password is answered INCORRECT_LOG_IN; it does
\* not stop the server.
BadLogInAnswered == effect.fault # "null client"
=============================================================================

