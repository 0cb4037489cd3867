--------------------------- MODULE InterfaceProofs --------------------------
(***************************************************************************)
(* Proofs about the base of clients under every sequence of requests, for  *)
(* any names, passwords, connections and hash function, and any base_size. *)
(***************************************************************************)
EXTENDS Interface, TLAPS, WellFoundedInduction

(* Lookups.                                                                *)

\* The loops of get_client stop at the least index that matches.
LEMMA LeastNatural ==
    ASSUME NEW T, T \subseteq Nat, T # {}
    PROVE  \E x \in T : \A y \in T : x <= y
<1>1. PICK x \in T : \A y \in T : ~(<<y, x>> \in OpToRel(<, Nat))
  BY NatLessThanWellFounded, WFMin
<1>2. ASSUME NEW y \in T
      PROVE  x <= y
  <2>1. x \in Nat /\ y \in Nat
    OBVIOUS
  <2>2. ~(<<y, x>> \in OpToRel(<, Nat))
    BY <1>1
  <2>3. ~(y < x)
    BY <2>1, <2>2 DEF OpToRel
  <2> QED
    BY <2>1, <2>3
<1> QED
  BY <1>2

\* A lookup by name returns a record whose hash matches, or NULL when there is
\* none.
LEMMA LookupByName ==
    ASSUME NEW bs \in Seq(Client), NEW n
    PROVE  /\ GetClientByName(bs, n) \in 0..Len(bs)
           /\ GetClientByName(bs, n) # 0
                => bs[GetClientByName(bs, n)].nameHash = Hash[n]
           /\ GetClientByName(bs, n) = 0
                => \A i \in 1..Len(bs) : bs[i].nameHash # Hash[n]
<1>1. Len(bs) \in Nat
  OBVIOUS
<1> DEFINE Matches == {i \in 1..Len(bs) : bs[i].nameHash = Hash[n]}
           IsFirst(i) == /\ bs[i].nameHash = Hash[n]
                         /\ \A j \in 1..(i - 1) : ~(bs[j].nameHash = Hash[n])
<1>2. GetClientByName(bs, n) =
        IF \E i \in 1..Len(bs) : bs[i].nameHash = Hash[n]
        THEN CHOOSE i \in 1..Len(bs) : IsFirst(i)
        ELSE 0
  BY DEF GetClientByName, First
<1>3. CASE Matches = {}
  <2>1. ~ \E i \in 1..Len(bs) : bs[i].nameHash = Hash[n]
    BY <1>3
  <2> QED
    BY <1>1, <1>2, <2>1
<1>4. CASE Matches # {}
  <2>1. \E i \in 1..Len(bs) : bs[i].nameHash = Hash[n]
    BY <1>4
  <2>2. PICK x \in Matches : \A y \in Matches : x <= y
    <3>1. Matches \subseteq Nat
      BY <1>1
    <3> HIDE DEF Matches
    <3> QED
      BY <1>4, <3>1, LeastNatural
  <2>3. x \in 1..Len(bs) /\ IsFirst(x)
    <3>1. x \in 1..Len(bs) /\ bs[x].nameHash = Hash[n]
      BY <2>2
    <3>2. ASSUME NEW j \in 1..(x - 1), bs[j].nameHash = Hash[n]
          PROVE  FALSE
      <4>1. j \in 1..Len(bs) /\ j < x
        BY <1>1, <3>1
      <4>2. j \in Matches
        BY <3>2, <4>1
      <4>3. x <= j
        BY <2>2, <4>2
      <4> QED
        BY <3>1, <4>1, <4>3
    <3> QED
      BY <3>1, <3>2
  <2>4. \E i \in 1..Len(bs) : IsFirst(i)
    BY <2>3
  <2> HIDE DEF IsFirst
  <2>5. (CHOOSE i \in 1..Len(bs) : IsFirst(i)) \in 1..Len(bs)
        /\ IsFirst(CHOOSE i \in 1..Len(bs) : IsFirst(i))
    BY <2>4
  <2>6. GetClientByName(bs, n) \in 1..Len(bs) /\ IsFirst(GetClientByName(bs, n))
    BY <1>2, <2>1, <2>5
  <2> QED
    BY <1>1, <2>6 DEF IsFirst
<1> QED
  BY <1>3, <1>4

\* A lookup by connection returns a record or NULL.
LEMMA LookupByStream ==
    ASSUME NEW bs \in Seq(Client), NEW s
    PROVE  GetClientByStream(bs, s) \in 0..Len(bs)
<1>1. Len(bs) \in Nat
  OBVIOUS
<1> DEFINE Matches == {i \in 1..Len(bs) : bs[i].stream = s}
           IsFirst(i) == bs[i].stream = s /\ \A j \in 1..(i - 1) : ~(bs[j].stream = s)
<1>2. GetClientByStream(bs, s) =
        IF \E i \in 1..Len(bs) : bs[i].stream = s
        THEN CHOOSE i \in 1..Len(bs) : IsFirst(i)
        ELSE 0
  BY DEF GetClientByStream, First
<1>3. CASE Matches = {}
  BY <1>1, <1>2, <1>3
<1>4. CASE Matches # {}
  <2>1. \E i \in 1..Len(bs) : bs[i].stream = s
    BY <1>4
  <2>2. PICK x \in Matches : \A y \in Matches : x <= y
    <3>1. Matches \subseteq Nat
      BY <1>1
    <3> HIDE DEF Matches
    <3> QED
      BY <1>4, <3>1, LeastNatural
  <2>3. \E i \in 1..Len(bs) : IsFirst(i)
    <3>1. x \in 1..Len(bs) /\ bs[x].stream = s
      BY <2>2
    <3>2. ASSUME NEW j \in 1..(x - 1), bs[j].stream = s
          PROVE  FALSE
      <4>1. j \in 1..Len(bs) /\ j < x
        BY <1>1, <3>1
      <4>2. j \in Matches
        BY <3>2, <4>1
      <4>3. x <= j
        BY <2>2, <4>2
      <4> QED
        BY <3>1, <4>1, <4>3
    <3> QED
      BY <3>1, <3>2
  <2> HIDE DEF IsFirst
  <2>4. (CHOOSE i \in 1..Len(bs) : IsFirst(i)) \in 1..Len(bs)
    BY <2>3
  <2> QED
    BY <1>1, <1>2, <2>1, <2>4
<1> QED
  BY <1>3, <1>4

-----------------------------------------------------------------------------
(* Messages.                                                               *)

\* Where no two records share a hash, a record is found by its own name.
LEMMA OwnNameFound ==
    ASSUME NEW bs \in Seq(Client), NEW i \in 1..Len(bs),
           \A j, k \in 1..Len(bs) : bs[j].nameHash = bs[k].nameHash => j = k,
           bs[i].nameHash = Hash[bs[i].name]
    PROVE  GetClientByName(bs, bs[i].name) = i
<1> DEFINE k == GetClientByName(bs, bs[i].name)
<1>1. Len(bs) \in Nat
  OBVIOUS
<1>2. /\ k \in 0..Len(bs)
      /\ k # 0 => bs[k].nameHash = Hash[bs[i].name]
      /\ k = 0 => \A j \in 1..Len(bs) : bs[j].nameHash # Hash[bs[i].name]
  BY LookupByName
<1> HIDE DEF k
<1>3. k \in 1..Len(bs) /\ bs[k].nameHash = bs[i].nameHash
  BY <1>1, <1>2
<1>4. k = i
  BY <1>3
<1> QED
  BY <1>4 DEF k

\* What the fields of a message can be, as far as the base depends on them: a
\* command that changes a record, or adds one, comes from a connection and
\* names a user and a password; CONNECTION_LOST is never reported.
LEMMA IncomingFields ==
    ASSUME NEW m \in Incoming
    PROVE  /\ m.type \in {"TXT_MSG", "SYSTEM", "ERROR_MSG"}
           /\ m.type = "ERROR_MSG" => m.err = "UNKNOWN_CLIENT"
           /\ m.type = "SYSTEM" => m.cmd \in Commands
           /\ m.type = "SYSTEM" /\ m.cmd \in {"LOG_IN", "REGISTR"}
                => m.name \in Name /\ m.pswd \in Pswd /\ m.endpoint \in Stream
<1>1. CASE m = OnClose
  BY <1>1 DEF OnClose, ChatMessage, Commands
<1>2. CASE m = UnknownClient
  BY <1>2 DEF UnknownClient, ErrorMessage, ChatMessage
<1>3. ASSUME NEW s \in Stream, m \in ClientMessage(s)
      PROVE  /\ m.type \in {"TXT_MSG", "SYSTEM"}
             /\ m.type = "SYSTEM" => m.cmd \in Commands
             /\ m.type = "SYSTEM" /\ m.cmd \in {"LOG_IN", "REGISTR"}
                  => m.name \in Name /\ m.pswd \in Pswd /\ m.endpoint \in Stream
  <2>1. CASE \E n \in Name, p \in Pswd : m = LogIn(s, n, p)
    BY <2>1 DEF LogIn, ChatMessage, Commands
  <2>2. CASE \E n \in Name, p \in Pswd : m = Registr(s, n, p)
    BY <2>2 DEF Registr, LogIn, ChatMessage, Commands
  <2>3. CASE \E n \in Name \cup {NoName} : m = LogOut(s, n)
    BY <2>3 DEF LogOut, ChatMessage, Commands
  <2>4. CASE \E n \in Name \cup {NoName} : m = AskOnline(s, n)
    BY <2>4 DEF AskOnline, ChatMessage, Commands
  <2>5. CASE \E n \in Name \cup {NoName}, to \in Name : m = Text(s, n, to)
    BY <2>5 DEF Text, ChatMessage, Commands
  <2> QED
    BY <1>3, <2>1, <2>2, <2>3, <2>4, <2>5 DEF ClientMessage
<1>4. m = OnClose \/ m = UnknownClient \/ \E s \in Stream : m \in ClientMessage(s)
  <2>1. m \in UNION {ClientMessage(s) : s \in Stream} \/ m \in {OnClose, UnknownClient}
    BY DEF Incoming
  <2> QED
    BY <2>1
<1>5. CASE \E s \in Stream : m \in ClientMessage(s)
  BY <1>3, <1>5
<1> QED
  BY <1>1, <1>2, <1>4, <1>5

\* The four things that operate_request may do to the base.
LEMMA HandleBase ==
    ASSUME base \in Seq(Client), NEW m \in Incoming
    PROVE  \/ Handle(base, m).base = base
           \/ /\ m.type = "SYSTEM" /\ m.cmd = "LOG_IN"
              /\ log_in_client(base, m.name, m.pswd) # 0
              /\ Handle(base, m).base =
                   change_status([base EXCEPT ![log_in_client(base, m.name, m.pswd)].stream
                                                = m.endpoint],
                                 log_in_client(base, m.name, m.pswd))
           \/ /\ log_out_client(base, m.name) # 0
              /\ Handle(base, m).base = change_status(base, log_out_client(base, m.name))
           \/ /\ m.type = "SYSTEM" /\ m.cmd = "REGISTR"
              /\ CanRegister(base, m.name)
              /\ Handle(base, m).base =
                   change_status(registr_client(base, m.endpoint, m.name, m.pswd), Len(base) + 1)
<1> DEFINE e == operate_request(base, m)
<1>0. \A why : Crash(base, why).base = base
  BY DEF Crash, Only, Effect
<1>1. \/ e.base = base
      \/ /\ m.type = "SYSTEM" /\ m.cmd = "LOG_IN"
         /\ log_in_client(base, m.name, m.pswd) # 0
         /\ e.base = change_status([base EXCEPT ![log_in_client(base, m.name, m.pswd)].stream
                                                  = m.endpoint],
                                   log_in_client(base, m.name, m.pswd))
      \/ /\ log_out_client(base, m.name) # 0
         /\ e.base = change_status(base, log_out_client(base, m.name))
      \/ /\ m.type = "SYSTEM" /\ m.cmd = "REGISTR"
         /\ CanRegister(base, m.name)
         /\ e.base = change_status(registr_client(base, m.endpoint, m.name, m.pswd),
                                   Len(base) + 1)
  <2>1. CASE m.type = "TXT_MSG"
    BY <2>1 DEF operate_request, Effect
  <2>2. CASE m.type = "ERROR_MSG"
    BY <2>2, IncomingFields DEF operate_request, Only, Effect
  <2>3. CASE m.type = "SYSTEM"
    <3>1. e = operate_command(base, m) /\ m.cmd \in Commands
      BY <2>3, IncomingFields DEF operate_request
    <3>2. CASE m.cmd = "LOG_IN"
      <4>1. e = OperateLogIn(base, m)
        BY <3>1, <3>2 DEF operate_command
      <4>2. CASE log_in_client(base, m.name, m.pswd) = 0
        BY <1>0, <4>1, <4>2 DEF OperateLogIn
      <4>3. CASE log_in_client(base, m.name, m.pswd) # 0
        BY <2>3, <3>2, <4>1, <4>3 DEF OperateLogIn, Effect
      <4> QED
        BY <4>2, <4>3
    <3>3. CASE m.cmd = "LOG_OUT"
      BY <3>1, <3>3 DEF operate_command, OperateLogOut, Effect, Only
    <3>4. CASE m.cmd = "REGISTR"
      BY <2>3, <3>1, <3>4 DEF operate_command, OperateRegistr, Effect, Only
    <3>5. CASE m.cmd = "ONLINE"
      <4>1. e = OperateOnline(base, m)
        BY <3>1, <3>5 DEF operate_command
      <4>2. CASE GetClientByStream(base, m.endpoint) = 0
        BY <1>0, <4>1, <4>2 DEF OperateOnline
      <4>3. CASE GetClientByStream(base, m.endpoint) # 0
        BY <4>1, <4>3 DEF OperateOnline, Effect
      <4> QED
        BY <4>2, <4>3
    <3>6. CASE m.cmd = "ON_CLOSE"
      BY <3>1, <3>6 DEF operate_command, Effect, Only
    <3> QED
      BY <3>1, <3>2, <3>3, <3>4, <3>5, <3>6 DEF Commands
  <2> QED
    BY <2>1, <2>2, <2>3, IncomingFields
<1>2. Handle(base, m).base = e.base
  BY DEF Handle
<1> QED
  BY <1>1, <1>2

-----------------------------------------------------------------------------
(* Records.                                                                *)

\* cs holds the clients of bs: nothing but streams and status may differ.
SameClients(bs, cs) ==
    /\ cs \in Seq(Client)
    /\ Len(cs) = Len(bs)
    /\ \A i \in 1..Len(bs) : /\ cs[i].name = bs[i].name
                             /\ cs[i].nameHash = bs[i].nameHash
                             /\ cs[i].pswdHash = bs[i].pswdHash

LEMMA ChangeStatusKeeps ==
    ASSUME NEW bs \in Seq(Client), NEW i \in 1..Len(bs)
    PROVE  /\ SameClients(bs, change_status(bs, i))
           /\ \A j \in 1..Len(bs) : change_status(bs, i)[j].stream = bs[j].stream
<1>1. \A j \in 1..Len(bs) : bs[j] \in Client
  OBVIOUS
<1> DEFINE c == [bs[i] EXCEPT !.status = IF @ = "ONLINE" THEN "OFFLINE" ELSE "ONLINE"]
<1>2. c \in Client /\ c.stream = bs[i].stream /\ c.name = bs[i].name
      /\ c.nameHash = bs[i].nameHash /\ c.pswdHash = bs[i].pswdHash
  BY <1>1 DEF Client
<1>3. change_status(bs, i) = [bs EXCEPT ![i] = c]
  BY DEF change_status
<1> HIDE DEF c
<1>4. change_status(bs, i) \in Seq(Client) /\ Len(change_status(bs, i)) = Len(bs)
  BY <1>2, <1>3
<1>5. \A j \in 1..Len(bs) : change_status(bs, i)[j] = IF j = i THEN c ELSE bs[j]
  BY <1>3
<1> QED
  BY <1>2, <1>4, <1>5 DEF SameClients

LEMMA RedirectionKeeps ==
    ASSUME NEW bs \in Seq(Client), NEW i \in 1..Len(bs), NEW s \in Stream
    PROVE  /\ SameClients(bs, [bs EXCEPT ![i].stream = s])
           /\ \A j \in 1..Len(bs) :
                [bs EXCEPT ![i].stream = s][j].stream = IF j = i THEN s ELSE bs[j].stream
<1>1. \A j \in 1..Len(bs) : bs[j] \in Client
  OBVIOUS
<1> DEFINE c == [bs[i] EXCEPT !.stream = s]
<1>2. c \in Client /\ c.stream = s /\ c.name = bs[i].name
      /\ c.nameHash = bs[i].nameHash /\ c.pswdHash = bs[i].pswdHash
  BY <1>1 DEF Client
<1>3. [bs EXCEPT ![i].stream = s] = [bs EXCEPT ![i] = c]
  OBVIOUS
<1> HIDE DEF c
<1>4. [bs EXCEPT ![i] = c] \in Seq(Client) /\ Len([bs EXCEPT ![i] = c]) = Len(bs)
  BY <1>2
<1>5. \A j \in 1..Len(bs) : [bs EXCEPT ![i] = c][j] = IF j = i THEN c ELSE bs[j]
  OBVIOUS
<1> QED
  BY <1>2, <1>3, <1>4, <1>5 DEF SameClients

\* The base keeps its clients and may gain one, whose name hashes to nobody
\* else's hash.
Grows(bs, cs, m) ==
    /\ CanRegister(bs, m.name)
    /\ cs \in Seq(Client)
    /\ Len(cs) = Len(bs) + 1
    /\ \A i \in 1..Len(bs) : /\ cs[i].name = bs[i].name
                             /\ cs[i].nameHash = bs[i].nameHash
                             /\ cs[i].pswdHash = bs[i].pswdHash
                             /\ cs[i].stream = bs[i].stream
    /\ cs[Len(bs) + 1].name = m.name
    /\ cs[Len(bs) + 1].nameHash = Hash[m.name]
    /\ cs[Len(bs) + 1].pswdHash = Hash[m.pswd]
    /\ cs[Len(bs) + 1].stream = m.endpoint

LEMMA RegistrationGrows ==
    ASSUME NEW bs \in Seq(Client), NEW m, m.name \in Name, m.pswd \in Pswd,
           m.endpoint \in Stream, CanRegister(bs, m.name)
    PROVE  Grows(bs, change_status(registr_client(bs, m.endpoint, m.name, m.pswd), Len(bs) + 1), m)
<1> DEFINE c == NewClient(m.endpoint, m.name, m.pswd)
           added == registr_client(bs, m.endpoint, m.name, m.pswd)
<1>1. /\ c \in Client /\ c.name = m.name /\ c.nameHash = Hash[m.name]
      /\ c.pswdHash = Hash[m.pswd] /\ c.stream = m.endpoint
  BY DEF NewClient, Client, HashValue
<1>2. added = Append(bs, c)
  BY DEF registr_client
<1> HIDE DEF c, added
<1>3. /\ added \in Seq(Client) /\ Len(added) = Len(bs) + 1 /\ Len(bs) \in Nat
      /\ added[Len(bs) + 1] = c
      /\ \A i \in 1..Len(bs) : added[i] = bs[i]
  BY <1>1, <1>2
<1>4. Len(bs) + 1 \in 1..Len(added) /\ \A i \in 1..Len(bs) : i \in 1..Len(added)
  BY <1>3
<1>5. /\ SameClients(added, change_status(added, Len(bs) + 1))
      /\ \A j \in 1..Len(added) : change_status(added, Len(bs) + 1)[j].stream = added[j].stream
  BY <1>3, <1>4, ChangeStatusKeeps
<1> HIDE DEF c
<1>6. Grows(bs, change_status(added, Len(bs) + 1), m)
  BY <1>1, <1>3, <1>4, <1>5 DEF Grows, SameClients
<1> QED
  BY <1>6 DEF added

-----------------------------------------------------------------------------
(* One request.                                                            *)

Redirected(bs, cs, m) ==
    \A i \in 1..Len(bs) :
        cs[i].stream # bs[i].stream =>
            /\ m.cmd = "LOG_IN" /\ m.endpoint = cs[i].stream
            /\ Hash[m.name] = bs[i].nameHash /\ Hash[m.pswd] = bs[i].pswdHash

\* Whatever the request, the clients stay, at most one is added, and only a
\* log in with the right password moves a client to another connection.
LEMMA OperateBase ==
    ASSUME base \in Seq(Client), NEW m \in Incoming, Operate(m)
    PROVE  /\ \/ SameClients(base, base')
              \/ Grows(base, base', m) /\ m.name \in Name /\ m.cmd = "REGISTR"
           /\ Redirected(base, base', m)
<1>1. base' = Handle(base, m).base
  BY DEF Operate
<1>2. CASE base' = base
  BY <1>2 DEF SameClients, Redirected
<1>3. ASSUME m.type = "SYSTEM", m.cmd = "LOG_IN",
             log_in_client(base, m.name, m.pswd) # 0,
             base' = change_status([base EXCEPT ![log_in_client(base, m.name, m.pswd)].stream
                                                  = m.endpoint],
                                   log_in_client(base, m.name, m.pswd))
      PROVE  SameClients(base, base') /\ Redirected(base, base', m)
  <2> DEFINE i == log_in_client(base, m.name, m.pswd)
             moved == [base EXCEPT ![i].stream = m.endpoint]
  <2>1. /\ i \in 1..Len(base)
        /\ base[i].pswdHash = Hash[m.pswd] /\ base[i].nameHash = Hash[m.name]
    <3>1. i = GetClientByName(base, m.name) /\ base[i].pswdHash = Hash[m.pswd]
      BY <1>3 DEF log_in_client
    <3>2. Len(base) \in Nat
      OBVIOUS
    <3> QED
      BY <1>3, <3>1, <3>2, LookupByName
  <2>2. m.endpoint \in Stream
    BY <1>3, IncomingFields
  <2> HIDE DEF i
  <2>3. /\ SameClients(base, moved)
        /\ \A j \in 1..Len(base) :
             moved[j].stream = IF j = i THEN m.endpoint ELSE base[j].stream
    BY <2>1, <2>2, RedirectionKeeps
  <2> HIDE DEF moved
  <2>4. i \in 1..Len(moved) /\ moved \in Seq(Client)
    BY <2>1, <2>3 DEF SameClients
  <2>5. /\ SameClients(moved, change_status(moved, i))
        /\ \A j \in 1..Len(moved) : change_status(moved, i)[j].stream = moved[j].stream
    BY <2>4, ChangeStatusKeeps
  <2>6. base' = change_status(moved, i)
    BY <1>3 DEF i, moved
  <2>7. SameClients(base, base')
    BY <2>3, <2>5, <2>6 DEF SameClients
  <2>8. \A j \in 1..Len(base) : j # i => base'[j].stream = base[j].stream
    BY <2>3, <2>5, <2>6 DEF SameClients
  <2>9. base'[i].stream = m.endpoint
    BY <2>1, <2>3, <2>4, <2>5, <2>6
  <2> QED
    BY <1>3, <2>1, <2>7, <2>8, <2>9 DEF Redirected
<1>4. ASSUME log_out_client(base, m.name) # 0,
             base' = change_status(base, log_out_client(base, m.name))
      PROVE  SameClients(base, base') /\ Redirected(base, base', m)
  <2>1. log_out_client(base, m.name) \in 1..Len(base)
    <3>1. Len(base) \in Nat
      OBVIOUS
    <3> QED
      BY <1>4, <3>1, LookupByName DEF log_out_client
  <2> QED
    BY <1>4, <2>1, ChangeStatusKeeps DEF Redirected
<1>5. ASSUME m.type = "SYSTEM", m.cmd = "REGISTR", CanRegister(base, m.name),
             base' = change_status(registr_client(base, m.endpoint, m.name, m.pswd),
                                   Len(base) + 1)
      PROVE  Grows(base, base', m) /\ m.name \in Name /\ Redirected(base, base', m)
  <2>1. m.name \in Name /\ m.pswd \in Pswd /\ m.endpoint \in Stream
    BY <1>5, IncomingFields
  <2>2. Grows(base, base', m)
    BY <1>5, <2>1, RegistrationGrows
  <2> QED
    BY <2>1, <2>2 DEF Grows, Redirected
<1> QED
  BY <1>1, <1>2, <1>3, <1>4, <1>5, HandleBase

LEMMA OperateInductive ==
    ASSUME Inductive, NEW m \in Incoming, Operate(m)
    PROVE  Inductive'
<1>1. base \in Seq(Client) /\ Len(base) \in Nat /\ Len(base) <= MaxClients /\ MaxClients \in Nat
  BY ChatBaseAssumption DEF Inductive, TypeOK
<1>2. CASE SameClients(base, base')
  BY <1>1, <1>2 DEF Inductive, TypeOK, UniqueHashes, SameClients
<1>3. CASE Grows(base, base', m)
  <2>1. Len(base) < MaxClients /\ GetClientByName(base, m.name) = 0
    BY <1>3 DEF Grows, CanRegister
  <2>2. \A i \in 1..Len(base) : base[i].nameHash # Hash[m.name]
    BY <1>1, <2>1, LookupByName
  <2>3. TypeOK'
    BY <1>1, <1>3, <2>1 DEF TypeOK, Grows
  <2>4. \A i \in 1..Len(base') : i \in 1..Len(base) \/ i = Len(base) + 1
    BY <1>1, <1>3 DEF Grows
  <2>5. UniqueHashes'
    BY <1>1, <1>3, <2>2, <2>4 DEF Inductive, UniqueHashes, Grows
  <2>6. \A i \in 1..Len(base') : base'[i].nameHash = Hash[base'[i].name]
    BY <1>3, <2>4 DEF Inductive, Grows
  <2> QED
    BY <2>3, <2>5, <2>6 DEF Inductive
<1> QED
  BY <1>1, <1>2, <1>3, OperateBase

-----------------------------------------------------------------------------
(* Notices.                                                                *)

\* sent holds what the loop of send_all_status_changed has sent after each of
\* its first n turns.
Sends(sent, n, bs, about) ==
    sent = [i \in 0..n |->
              IF i = 0 THEN << >>
              ELSE IF Online(bs, i) THEN Append(sent[i - 1], StatusNotice(bs, i, about))
              ELSE sent[i - 1]]

\* The loop may take any number of turns: a turn extends what was sent before.
LEMMA LoopRuns ==
    ASSUME NEW bs, NEW about, NEW n \in Nat
    PROVE  \E sent : Sends(sent, n, bs, about)
<1> DEFINE T == {m \in Nat : ~ \E sent : Sends(sent, m, bs, about)}
<1>1. CASE T = {}
  BY <1>1
<1>2. CASE T # {}
  <2>1. PICK x \in T : \A y \in T : x <= y
    <3>1. T \subseteq Nat
      OBVIOUS
    <3> HIDE DEF T
    <3> QED
      BY <1>2, <3>1, LeastNatural
  <2>2. CASE x = 0
    <3>1. Sends([i \in 0..0 |-> << >>], 0, bs, about)
      BY DEF Sends
    <3> QED
      BY <2>1, <2>2, <3>1
  <2>3. CASE x # 0
    <3>1. x - 1 \in Nat /\ x - 1 \notin T
      BY <2>1, <2>3
    <3>2. PICK g : Sends(g, x - 1, bs, about)
      BY <3>1
    <3> DEFINE last == IF Online(bs, x) THEN Append(g[x - 1], StatusNotice(bs, x, about))
                       ELSE g[x - 1]
               h == [i \in 0..x |-> IF i = x THEN last ELSE g[i]]
    <3>3. \A i \in 0..(x - 1) :
            g[i] = IF i = 0 THEN << >>
                   ELSE IF Online(bs, i) THEN Append(g[i - 1], StatusNotice(bs, i, about))
                   ELSE g[i - 1]
      BY <3>2 DEF Sends
    <3>4. \A i \in 0..x : i # 0 => i - 1 \in 0..x /\ i - 1 # x
      BY <2>1
    <3>5. \A i \in 0..x : h[i] = IF i = 0 THEN << >>
                                 ELSE IF Online(bs, i)
                                      THEN Append(h[i - 1], StatusNotice(bs, i, about))
                                      ELSE h[i - 1]
      <4>1. SUFFICES ASSUME NEW i \in 0..x
                     PROVE  h[i] = IF i = 0 THEN << >>
                                   ELSE IF Online(bs, i)
                                        THEN Append(h[i - 1], StatusNotice(bs, i, about))
                                        ELSE h[i - 1]
        OBVIOUS
      <4>2. i # 0 => h[i - 1] = g[i - 1]
        BY <3>4
      <4>3. CASE i = x
        BY <2>3, <4>2, <4>3
      <4>4. CASE i # x
        <5>1. i \in 0..(x - 1) /\ h[i] = g[i]
          BY <2>1, <4>4
        <5> QED
          BY <3>3, <4>2, <5>1
      <4> QED
        BY <4>3, <4>4
    <3>6. Sends(h, x, bs, about)
      BY <3>5 DEF Sends
    <3> QED
      BY <2>1, <3>6
  <2> QED
    BY <2>2, <2>3
<1> QED
  BY <1>1, <1>2

\* send_all_status_changed sends one notice after the other, nothing else, and
\* leaves out no client that is ONLINE.
LEMMA NoticesSent ==
    ASSUME NEW bs, Len(bs) \in Nat, NEW about
    PROVE  /\ send_all_status_changed(bs, about)
                \in Seq({StatusNotice(bs, i, about) : i \in {j \in 1..Len(bs) : Online(bs, j)}})
           /\ \A i \in 1..Len(bs) :
                Online(bs, i) =>
                  \E k \in 1..Len(send_all_status_changed(bs, about)) :
                     send_all_status_changed(bs, about)[k] = StatusNotice(bs, i, about)
<1> DEFINE N == Len(bs)
           S == {StatusNotice(bs, i, about) : i \in {j \in 1..N : Online(bs, j)}}
           sent[i \in 0..N] ==
             IF i = 0 THEN << >>
             ELSE IF Online(bs, i) THEN Append(sent[i - 1], StatusNotice(bs, i, about))
             ELSE sent[i - 1]
<1>1. send_all_status_changed(bs, about) = sent[N]
  BY DEF send_all_status_changed
<1>2. Sends(sent, N, bs, about)
  <2>1. \E g : Sends(g, N, bs, about)
    BY LoopRuns
  <2> QED
    BY <2>1 DEF Sends
<1> HIDE DEF sent
<1>3. \A i \in 0..N : sent[i] = IF i = 0 THEN << >>
                                ELSE IF Online(bs, i)
                                     THEN Append(sent[i - 1], StatusNotice(bs, i, about))
                                     ELSE sent[i - 1]
  BY <1>2 DEF Sends
<1> DEFINE Good(n) == /\ sent[n] \in Seq(S)
                      /\ \A i \in 1..n : Online(bs, i) =>
                           \E k \in 1..Len(sent[n]) : sent[n][k] = StatusNotice(bs, i, about)
           T == {n \in 0..N : ~Good(n)}
<1>4. T = {}
  <2>1. SUFFICES ASSUME T # {}
                 PROVE  FALSE
    OBVIOUS
  <2>2. PICK x \in T : \A y \in T : x <= y
    <3>1. T \subseteq Nat
      OBVIOUS
    <3> HIDE DEF T
    <3> QED
      BY <2>1, <3>1, LeastNatural
  <2>3. x # 0
    <3>1. 0 \in 0..N
      OBVIOUS
    <3>2. sent[0] = << >>
      BY <1>3, <3>1
    <3>3. sent[0] \in Seq(S)
      BY <3>2
    <3>4. Good(0)
      BY <3>3
    <3> QED
      BY <2>2, <3>4
  <2>4. x \in 1..N /\ x - 1 \in 0..N /\ x - 1 \notin T
    BY <2>2, <2>3
  <2>5. Good(x - 1)
    BY <2>4
  <2>6. \A i \in 1..x : i = x \/ i \in 1..(x - 1)
    BY <2>4
  <2>7. CASE Online(bs, x)
    <3> DEFINE v == StatusNotice(bs, x, about)
               q == sent[x - 1]
    <3>1. v \in S /\ sent[x] = Append(q, v) /\ q \in Seq(S)
      BY <1>3, <2>3, <2>4, <2>5, <2>7
    <3> HIDE DEF v, q, S
    <3>2. /\ Append(q, v) \in Seq(S) /\ Len(q) \in Nat /\ Len(Append(q, v)) = Len(q) + 1
          /\ Append(q, v)[Len(q) + 1] = v
          /\ \A k \in 1..Len(q) : Append(q, v)[k] = q[k]
      BY <3>1
    <3>3. \A k \in 1..Len(q) : k \in 1..Len(Append(q, v))
      BY <3>2
    <3>4. Len(q) + 1 \in 1..Len(Append(q, v))
      BY <3>2
    <3>5. ASSUME NEW i \in 1..x, Online(bs, i)
          PROVE  \E k \in 1..Len(sent[x]) : sent[x][k] = StatusNotice(bs, i, about)
      <4>1. CASE i = x
        BY <3>1, <3>2, <3>4, <4>1 DEF v
      <4>2. CASE i # x
        <5>1. \E k \in 1..Len(q) : q[k] = StatusNotice(bs, i, about)
          BY <2>5, <2>6, <3>5, <4>2 DEF q
        <5> QED
          BY <3>1, <3>2, <3>3, <5>1
      <4> QED
        BY <4>1, <4>2
    <3>6. Good(x)
      BY <3>1, <3>2, <3>5
    <3> QED
      BY <2>2, <3>6
  <2>8. CASE ~Online(bs, x)
    <3>1. sent[x] = sent[x - 1]
      BY <1>3, <2>3, <2>4, <2>8
    <3>2. Good(x)
      BY <2>5, <2>6, <2>8, <3>1
    <3> QED
      BY <2>2, <3>2
  <2> QED
    BY <2>7, <2>8
<1>5. Good(N)
  <2>1. N \in 0..N
    OBVIOUS
  <2> QED
    BY <1>4, <2>1
<1> QED
  BY <1>1, <1>5

-----------------------------------------------------------------------------
(* Types of messages and effects.                                          *)

LEMMA IncomingTyped ==
    ASSUME NEW m \in Incoming
    PROVE  m \in chat_message_t
<1>0. "SUCCESS" \in ErrStats /\ "UNKNOWN_CLIENT" \in ErrStats
  BY DEF ErrStats
<1>1. CASE m = OnClose
  BY <1>0, <1>1 DEF OnClose, ChatMessage, Commands, chat_message_t
<1>2. CASE m = UnknownClient
  BY <1>0, <1>2 DEF UnknownClient, ErrorMessage, ChatMessage, chat_message_t
<1>3. ASSUME NEW s \in Stream, m \in ClientMessage(s)
      PROVE  m \in chat_message_t
  <2>1. CASE \E n \in Name, p \in Pswd : m = LogIn(s, n, p)
    BY <1>0, <2>1 DEF LogIn, ChatMessage, Commands, chat_message_t
  <2>2. CASE \E n \in Name, p \in Pswd : m = Registr(s, n, p)
    BY <1>0, <2>2 DEF Registr, LogIn, ChatMessage, Commands, chat_message_t
  <2>3. CASE \E n \in Name \cup {NoName} : m = LogOut(s, n)
    BY <1>0, <2>3 DEF LogOut, ChatMessage, Commands, chat_message_t
  <2>4. CASE \E n \in Name \cup {NoName} : m = AskOnline(s, n)
    BY <1>0, <2>4 DEF AskOnline, ChatMessage, Commands, chat_message_t
  <2>5. CASE \E n \in Name \cup {NoName}, to \in Name : m = Text(s, n, to)
    BY <1>0, <2>5 DEF Text, ChatMessage, Commands, chat_message_t
  <2> QED
    BY <1>3, <2>1, <2>2, <2>3, <2>4, <2>5 DEF ClientMessage
<1>4. m = OnClose \/ m = UnknownClient \/ \E s \in Stream : m \in ClientMessage(s)
  <2>1. m \in UNION {ClientMessage(s) : s \in Stream} \/ m \in {OnClose, UnknownClient}
    BY DEF Incoming
  <2> QED
    BY <2>1
<1>5. CASE \E s \in Stream : m \in ClientMessage(s)
  BY <1>3, <1>5
<1> QED
  BY <1>1, <1>2, <1>4, <1>5

LEMMA NoticesTyped ==
    ASSUME NEW bs \in Seq(Client), NEW about \in 1..Len(bs)
    PROVE  send_all_status_changed(bs, about) \in Seq(chat_message_t)
<1> DEFINE S == {StatusNotice(bs, i, about) : i \in {j \in 1..Len(bs) : Online(bs, j)}}
<1>1. S \subseteq chat_message_t
  <2>1. SUFFICES ASSUME NEW i \in 1..Len(bs)
                 PROVE  StatusNotice(bs, i, about) \in chat_message_t
    OBVIOUS
  <2>2. bs[i].name \in Name /\ bs[about].name \in Name
    <3>1. bs[i] \in Client /\ bs[about] \in Client
      BY <2>1
    <3> QED
      BY <3>1 DEF Client
  <2>3. "SUCCESS" \in ErrStats
    BY DEF ErrStats
  <2> QED
    BY <2>2, <2>3 DEF StatusNotice, ChatMessage, Commands, chat_message_t
<1>2. send_all_status_changed(bs, about) \in Seq(S)
  <2>1. Len(bs) \in Nat
    OBVIOUS
  <2> QED
    BY <2>1, NoticesSent
<1> HIDE DEF S
<1> QED
  BY <1>1, <1>2

LEMMA EffectTyped ==
    ASSUME NEW bs \in Seq(Client)
    PROVE  /\ \A out \in Seq(chat_message_t), close \in Stream \cup {NoStream}, stat \in ErrStats :
                Effect(bs, out, close, stat) \in EffectType
           /\ \A stat \in ErrStats : Only(bs, stat) \in EffectType
           /\ \A why \in {"null client", "assert client"} : Crash(bs, why) \in EffectType
<1>1. \A out \in Seq(chat_message_t), close \in Stream \cup {NoStream}, stat \in ErrStats :
        Effect(bs, out, close, stat) \in EffectType
  BY DEF Effect, EffectType
<1>2. \A stat \in ErrStats : Only(bs, stat) \in EffectType
  <2>1. << >> \in Seq(chat_message_t)
    OBVIOUS
  <2> QED
    BY <1>1, <2>1 DEF Only
<1>3. \A why \in {"null client", "assert client"} : Crash(bs, why) \in EffectType
  <2>1. Only(bs, "SUCCESS") \in EffectType
    BY <1>2 DEF ErrStats
  <2> QED
    BY <2>1 DEF Crash, EffectType
<1> QED
  BY <1>1, <1>2, <1>3

\* Whatever the message, its handling comes to a base, messages, a connection
\* to close and an answer.
LEMMA RequestTyped ==
    ASSUME base \in Seq(Client), NEW m \in Incoming
    PROVE  operate_request(base, m) \in EffectType
<1> DEFINE e == operate_request(base, m)
<1>1. /\ \A stat \in ErrStats : Only(base, stat) \in EffectType
      /\ \A why \in {"null client", "assert client"} : Crash(base, why) \in EffectType
  BY EffectTyped
<1>2. {"SUCCESS", "NAME_TAKEN", "BAD_REQUEST"} \subseteq ErrStats
  BY DEF ErrStats
<1>3. CASE m.type = "TXT_MSG"
  <2>1. << m >> \in Seq(chat_message_t)
    BY IncomingTyped
  <2> QED
    BY <1>2, <1>3, <2>1, EffectTyped DEF operate_request
<1>4. CASE m.type = "ERROR_MSG"
  BY <1>1, <1>2, <1>4, IncomingFields DEF operate_request
<1>5. CASE m.type = "SYSTEM"
  <2>1. e = operate_command(base, m) /\ m.cmd \in Commands
    BY <1>5, IncomingFields DEF operate_request
  <2>2. CASE m.cmd = "LOG_IN"
    <3> DEFINE i == log_in_client(base, m.name, m.pswd)
               moved == [base EXCEPT ![i].stream = m.endpoint]
    <3>1. e = OperateLogIn(base, m) /\ m.endpoint \in Stream
      BY <1>5, <2>1, <2>2, IncomingFields DEF operate_command
    <3>2. CASE i = 0
      BY <1>1, <3>1, <3>2 DEF OperateLogIn
    <3>3. CASE i # 0
      <4>1. i \in 1..Len(base)
        <5>1. i = GetClientByName(base, m.name) /\ Len(base) \in Nat
          BY <3>3 DEF log_in_client
        <5> QED
          BY <3>3, <5>1, LookupByName
      <4>2. e = Effect(change_status(moved, i), send_all_status_changed(moved, i),
                       NoStream, "SUCCESS")
        BY <3>1, <3>3 DEF OperateLogIn
      <4> HIDE DEF i
      <4>3. SameClients(base, moved)
        BY <3>1, <4>1, RedirectionKeeps
      <4> HIDE DEF moved
      <4>4. moved \in Seq(Client) /\ i \in 1..Len(moved)
        BY <4>1, <4>3 DEF SameClients
      <4>5. change_status(moved, i) \in Seq(Client)
        BY <4>4, ChangeStatusKeeps DEF SameClients
      <4> HIDE DEF e
      <4> QED
        BY <1>2, <4>2, <4>4, <4>5, NoticesTyped, EffectTyped DEF e
    <3> QED
      BY <3>2, <3>3
  <2>3. CASE m.cmd = "LOG_OUT"
    <3> DEFINE i == log_out_client(base, m.name)
               toggled == change_status(base, i)
    <3>1. e = OperateLogOut(base, m)
      BY <2>1, <2>3 DEF operate_command
    <3>2. CASE i = 0
      BY <1>1, <1>2, <3>1, <3>2 DEF OperateLogOut
    <3>3. CASE i # 0
      <4>1. i \in 1..Len(base)
        <5>1. Len(base) \in Nat
          OBVIOUS
        <5> QED
          BY <3>3, <5>1, LookupByName DEF log_out_client
      <4>2. e = Effect(toggled, send_all_status_changed(toggled, i), base[i].stream, "SUCCESS")
        BY <3>1, <3>3 DEF OperateLogOut
      <4> HIDE DEF i
      <4>3. toggled \in Seq(Client) /\ i \in 1..Len(toggled)
        BY <4>1, ChangeStatusKeeps DEF SameClients
      <4>4. base[i].stream \in Stream
        <5>1. base[i] \in Client
          BY <4>1
        <5> QED
          BY <5>1 DEF Client
      <4> HIDE DEF e, toggled
      <4> QED
        BY <1>2, <4>2, <4>3, <4>4, NoticesTyped, EffectTyped DEF e
    <3> QED
      BY <3>2, <3>3
  <2>4. CASE m.cmd = "REGISTR"
    <3> DEFINE i == Len(base) + 1
               added == registr_client(base, m.endpoint, m.name, m.pswd)
    <3>1. /\ e = OperateRegistr(base, m)
          /\ m.name \in Name /\ m.pswd \in Pswd /\ m.endpoint \in Stream
      BY <1>5, <2>1, <2>4, IncomingFields DEF operate_command
    <3>2. CASE ~CanRegister(base, m.name)
      BY <1>1, <1>2, <3>1, <3>2 DEF OperateRegistr
    <3>3. CASE CanRegister(base, m.name)
      <4>1. e = Effect(change_status(added, i), send_all_status_changed(added, i),
                       NoStream, "SUCCESS")
        BY <3>1, <3>3 DEF OperateRegistr
      <4>2. NewClient(m.endpoint, m.name, m.pswd) \in Client
        BY <3>1 DEF NewClient, Client, HashValue
      <4>3. added \in Seq(Client) /\ i \in 1..Len(added)
        BY <4>2 DEF registr_client
      <4> HIDE DEF added, i
      <4>4. change_status(added, i) \in Seq(Client)
        BY <4>3, ChangeStatusKeeps DEF SameClients
      <4> HIDE DEF e
      <4> QED
        BY <1>2, <4>1, <4>3, <4>4, NoticesTyped, EffectTyped DEF e
    <3> QED
      BY <3>2, <3>3
  <2>5. CASE m.cmd = "ONLINE"
    <3> DEFINE i == GetClientByStream(base, m.endpoint)
    <3>1. e = OperateOnline(base, m)
      BY <2>1, <2>5 DEF operate_command
    <3>2. CASE i = 0
      BY <1>1, <3>1, <3>2 DEF OperateOnline
    <3>3. CASE i # 0
      <4>1. i \in 1..Len(base)
        <5>1. Len(base) \in Nat
          OBVIOUS
        <5> QED
          BY <3>3, <5>1, LookupByStream
      <4>2. e = Effect(base, send_online_list(base, i), NoStream, "BAD_REQUEST")
        BY <3>1, <3>3 DEF OperateOnline
      <4> HIDE DEF i, e
      <4>3. send_online_list(base, i) \in Seq(chat_message_t)
        <5>1. base[i] \in Client
          BY <4>1
        <5>2. base[i].name \in Name
          BY <5>1 DEF Client
        <5>3. [ChatMessage("SYSTEM") EXCEPT !.cmd = "ONLINE", !.to = base[i].name] \in chat_message_t
          BY <1>2, <5>2 DEF ChatMessage, Commands, chat_message_t
        <5> QED
          BY <5>3 DEF send_online_list
      <4> QED
        BY <1>2, <4>2, <4>3, EffectTyped DEF e
    <3> QED
      BY <3>2, <3>3
  <2>6. CASE m.cmd = "ON_CLOSE"
    BY <1>1, <1>2, <2>1, <2>6 DEF operate_command
  <2> QED
    BY <2>1, <2>2, <2>3, <2>4, <2>5, <2>6 DEF Commands
<1> QED
  BY <1>3, <1>4, <1>5, IncomingFields

\* With the answer that start_interface adds.
LEMMA HandleTyped ==
    ASSUME base \in Seq(Client), NEW m \in Incoming
    PROVE  Handle(base, m) \in EffectType
<1> DEFINE e == operate_request(base, m)
<1>1. e \in EffectType
  BY RequestTyped
<1>2. AnswerTo(m, e.stat) \in Seq(chat_message_t)
  <2>1. e.stat \in ErrStats
    BY <1>1 DEF EffectType
  <2>2. m.from \in Name \cup {NoName}
    <3>1. m \in chat_message_t
      BY IncomingTyped
    <3> QED
      BY <3>1 DEF chat_message_t
  <2> HIDE DEF e
  <2>3. [ErrorMessage(e.stat) EXCEPT !.to = m.from] \in chat_message_t
    <3>1. ErrorMessage(e.stat) \in chat_message_t
      <4>1. ChatMessage("ERROR_MSG") \in chat_message_t
        BY DEF ChatMessage, chat_message_t, ErrStats
      <4>2. \A x \in chat_message_t, stat \in ErrStats : [x EXCEPT !.err = stat] \in chat_message_t
        BY DEF chat_message_t
      <4> QED
        BY <2>1, <4>1, <4>2 DEF ErrorMessage
    <3>2. \A x \in chat_message_t, to \in Name \cup {NoName} :
            [x EXCEPT !.to = to] \in chat_message_t
      BY DEF chat_message_t
    <3> QED
      BY <2>2, <3>1, <3>2
  <2> QED
    BY <2>3 DEF AnswerTo
<1> HIDE DEF e
<1>3. e.out \in Seq(chat_message_t) /\ e.out \o AnswerTo(m, e.stat) \in Seq(chat_message_t)
  <2>1. e.out \in Seq(chat_message_t)
    BY <1>1 DEF EffectType
  <2> QED
    BY <1>2, <2>1
<1>4. \A out \in Seq(chat_message_t) : [e EXCEPT !.out = out] \in EffectType
  BY <1>1 DEF EffectType
<1> QED
  BY <1>3, <1>4 DEF Handle, e

-----------------------------------------------------------------------------
(* Who is told of a change.                                                *)

\* bs with some record's status turned around, as change_status leaves it.
Toggled(bs, cs, i) ==
    /\ cs \in Seq(Client)
    /\ Len(cs) = Len(bs)
    /\ \A j \in 1..Len(bs) : cs[j].name = bs[j].name /\ (j # i => cs[j].status = bs[j].status)

LEMMA ChangeStatusToggles ==
    ASSUME NEW bs \in Seq(Client), NEW i \in 1..Len(bs)
    PROVE  Toggled(bs, change_status(bs, i), i)
<1>1. SameClients(bs, change_status(bs, i))
  BY ChangeStatusKeeps
<1>2. \A j \in 1..Len(bs) : j # i => change_status(bs, i)[j] = bs[j]
  BY DEF change_status
<1> QED
  BY <1>1, <1>2 DEF Toggled, SameClients

\* A request leaves the base alone, or turns one client around and tells the
\* others: told is the base that the notices are read from.
Tells(bs, e) ==
    \E told, i :
        /\ told \in Seq(Client) /\ i \in 1..Len(told)
        /\ e.out = send_all_status_changed(told, i)
        /\ e.base \in Seq(Client) /\ Len(e.base) = Len(told)
        /\ \A j \in 1..Len(told) :
             /\ e.base[j].name = told[j].name
             /\ j # i => told[j].status = e.base[j].status
             /\ j # i => j \in 1..Len(bs) /\ told[j].status = bs[j].status

LEMMA LogInTells ==
    ASSUME NEW bs \in Seq(Client), NEW m, m.endpoint \in Stream,
           log_in_client(bs, m.name, m.pswd) # 0
    PROVE  Tells(bs, OperateLogIn(bs, m))
<1> DEFINE i == log_in_client(bs, m.name, m.pswd)
           moved == [bs EXCEPT ![i].stream = m.endpoint]
<1>1. i \in 1..Len(bs)
  <2>1. i = GetClientByName(bs, m.name) /\ Len(bs) \in Nat
    BY DEF log_in_client
  <2> QED
    BY <2>1, LookupByName
<1>2. /\ OperateLogIn(bs, m).out = send_all_status_changed(moved, i)
      /\ OperateLogIn(bs, m).base = change_status(moved, i)
  BY DEF OperateLogIn, Effect
<1> HIDE DEF i
<1>3. SameClients(bs, moved)
  BY <1>1, RedirectionKeeps
<1>4. \A j \in 1..Len(bs) : moved[j].status = bs[j].status
  OBVIOUS
<1> HIDE DEF moved
<1>5. moved \in Seq(Client) /\ Len(moved) = Len(bs) /\ i \in 1..Len(moved)
  BY <1>1, <1>3 DEF SameClients
<1>6. Toggled(moved, change_status(moved, i), i)
  BY <1>5, ChangeStatusToggles
<1> QED
  BY <1>1, <1>2, <1>4, <1>5, <1>6 DEF Tells, Toggled

LEMMA LogOutTells ==
    ASSUME NEW bs \in Seq(Client), NEW m, log_out_client(bs, m.name) # 0
    PROVE  Tells(bs, OperateLogOut(bs, m))
<1> DEFINE i == log_out_client(bs, m.name)
           toggled == change_status(bs, i)
<1>1. i \in 1..Len(bs)
  <2>1. Len(bs) \in Nat
    OBVIOUS
  <2> QED
    BY <2>1, LookupByName DEF log_out_client
<1>2. /\ OperateLogOut(bs, m).out = send_all_status_changed(toggled, i)
      /\ OperateLogOut(bs, m).base = toggled
  BY DEF OperateLogOut, Effect
<1>3. Toggled(bs, toggled, i)
  BY <1>1, ChangeStatusToggles
<1> HIDE DEF i, toggled
<1>4. toggled \in Seq(Client) /\ i \in 1..Len(toggled)
  BY <1>1, <1>3 DEF Toggled
<1>5. \A j \in 1..Len(toggled) : j \in 1..Len(bs)
  BY <1>3 DEF Toggled
<1> QED
  BY <1>2, <1>3, <1>4, <1>5 DEF Tells, Toggled

LEMMA RegistrTells ==
    ASSUME NEW bs \in Seq(Client), NEW m, m.name \in Name, m.pswd \in Pswd,
           m.endpoint \in Stream, CanRegister(bs, m.name)
    PROVE  Tells(bs, OperateRegistr(bs, m))
<1> DEFINE i == Len(bs) + 1
           added == registr_client(bs, m.endpoint, m.name, m.pswd)
<1>1. /\ OperateRegistr(bs, m).out = send_all_status_changed(added, i)
      /\ OperateRegistr(bs, m).base = change_status(added, i)
  BY DEF OperateRegistr, Effect
<1>2. NewClient(m.endpoint, m.name, m.pswd) \in Client
  BY DEF NewClient, Client, HashValue
<1>3. /\ added \in Seq(Client) /\ Len(added) = Len(bs) + 1 /\ Len(bs) \in Nat
      /\ \A j \in 1..Len(bs) : added[j] = bs[j]
  BY <1>2 DEF registr_client
<1> HIDE DEF added
<1>4. i \in 1..Len(added) /\ \A j \in 1..Len(added) : j # i => j \in 1..Len(bs)
  BY <1>3
<1>5. Toggled(added, change_status(added, i), i)
  BY <1>3, <1>4, ChangeStatusToggles
<1> HIDE DEF i
<1>6. \A j \in 1..Len(added) : j # i => added[j].status = bs[j].status
  BY <1>3, <1>4
<1> QED
  BY <1>1, <1>3, <1>4, <1>5, <1>6 DEF Tells, Toggled

LEMMA HandleTells ==
    ASSUME base \in Seq(Client), NEW m \in Incoming
    PROVE  Handle(base, m).base = base \/ Tells(base, Handle(base, m))
<1> DEFINE e == operate_request(base, m)
<1>1. \A why, stat : /\ Crash(base, why).base = base
                     /\ Only(base, stat).base = base
  BY DEF Crash, Only, Effect
<1>2. e.base = base \/ (e.fault = "none" /\ e.stat = "SUCCESS" /\ Tells(base, e))
  <2>1. CASE m.type = "TXT_MSG"
    BY <2>1 DEF operate_request, Effect
  <2>2. CASE m.type = "ERROR_MSG"
    BY <1>1, <2>2, IncomingFields DEF operate_request
  <2>3. CASE m.type = "SYSTEM"
    <3>1. e = operate_command(base, m) /\ m.cmd \in Commands
      BY <2>3, IncomingFields DEF operate_request
    <3>2. CASE m.cmd = "LOG_IN"
      <4>1. e = OperateLogIn(base, m) /\ m.endpoint \in Stream
        BY <2>3, <3>1, <3>2, IncomingFields DEF operate_command
      <4>2. CASE log_in_client(base, m.name, m.pswd) = 0
        BY <1>1, <4>1, <4>2 DEF OperateLogIn
      <4>3. CASE log_in_client(base, m.name, m.pswd) # 0
        <5>1. e.fault = "none" /\ e.stat = "SUCCESS"
          BY <4>1, <4>3 DEF OperateLogIn, Effect
        <5> QED
          BY <4>1, <4>3, <5>1, LogInTells
      <4> QED
        BY <4>2, <4>3
    <3>3. CASE m.cmd = "LOG_OUT"
      <4>1. e = OperateLogOut(base, m)
        BY <3>1, <3>3 DEF operate_command
      <4>2. CASE log_out_client(base, m.name) = 0
        BY <1>1, <4>1, <4>2 DEF OperateLogOut
      <4>3. CASE log_out_client(base, m.name) # 0
        <5>1. e.fault = "none" /\ e.stat = "SUCCESS"
          BY <4>1, <4>3 DEF OperateLogOut, Effect
        <5> QED
          BY <4>1, <4>3, <5>1, LogOutTells
      <4> QED
        BY <4>2, <4>3
    <3>4. CASE m.cmd = "REGISTR"
      <4>1. /\ e = OperateRegistr(base, m)
            /\ m.name \in Name /\ m.pswd \in Pswd /\ m.endpoint \in Stream
        BY <2>3, <3>1, <3>4, IncomingFields DEF operate_command
      <4>2. CASE ~CanRegister(base, m.name)
        BY <1>1, <4>1, <4>2 DEF OperateRegistr
      <4>3. CASE CanRegister(base, m.name)
        <5>1. e.fault = "none" /\ e.stat = "SUCCESS"
          BY <4>1, <4>3 DEF OperateRegistr, Effect
        <5> QED
          BY <4>1, <4>3, <5>1, RegistrTells
      <4> QED
        BY <4>2, <4>3
    <3>5. CASE m.cmd = "ONLINE"
      <4>1. e = OperateOnline(base, m)
        BY <3>1, <3>5 DEF operate_command
      <4>2. CASE GetClientByStream(base, m.endpoint) = 0
        BY <1>1, <4>1, <4>2 DEF OperateOnline
      <4>3. CASE GetClientByStream(base, m.endpoint) # 0
        BY <4>1, <4>3 DEF OperateOnline, Effect
      <4> QED
        BY <4>2, <4>3
    <3>6. CASE m.cmd = "ON_CLOSE"
      BY <1>1, <3>1, <3>6 DEF operate_command
    <3> QED
      BY <3>1, <3>2, <3>3, <3>4, <3>5, <3>6 DEF Commands
  <2> QED
    BY <2>1, <2>2, <2>3, IncomingFields
<1> HIDE DEF e
<1>3. ASSUME e.fault = "none"
      PROVE  Handle(base, m).out = e.out \o AnswerTo(m, e.stat)
  <2>1. e \in EffectType
    BY RequestTyped DEF e
  <2> QED
    BY <1>3, <2>1 DEF Handle, e, EffectType
<1>4. Handle(base, m).base = e.base
  BY DEF Handle, e
<1>5. ASSUME e.fault = "none", e.stat = "SUCCESS", Tells(base, e)
      PROVE  Tells(base, Handle(base, m))
  <2>1. PICK told, i :
          /\ told \in Seq(Client) /\ i \in 1..Len(told)
          /\ e.out = send_all_status_changed(told, i)
          /\ e.base \in Seq(Client) /\ Len(e.base) = Len(told)
          /\ \A j \in 1..Len(told) :
               /\ e.base[j].name = told[j].name
               /\ j # i => told[j].status = e.base[j].status
               /\ j # i => j \in 1..Len(base) /\ told[j].status = base[j].status
    BY <1>5 DEF Tells
  <2> DEFINE S == {StatusNotice(told, n, i) : n \in {j \in 1..Len(told) : Online(told, j)}}
  <2>2. e.out \in Seq(S)
    <3>1. Len(told) \in Nat
      BY <2>1
    <3> QED
      BY <2>1, <3>1, NoticesSent
  <2> HIDE DEF S
  <2>3. e.out \o << >> = e.out
    BY <2>2
  <2>4. AnswerTo(m, e.stat) = << >>
    BY <1>5 DEF AnswerTo
  <2>5. Handle(base, m).out = e.out
    BY <1>3, <1>5, <2>3, <2>4
  <2> QED
    BY <1>4, <2>1, <2>5 DEF Tells
<1> QED
  BY <1>2, <1>4, <1>5

-----------------------------------------------------------------------------
(* The theorems about the base of clients.                                 *)

\* The inductive invariant holds after any sequence of requests.
THEOREM InductiveInvariant == Spec => []Inductive
<1>1. Init => Inductive
  BY ChatBaseAssumption DEF Init, Inductive, TypeOK, UniqueHashes
<1>2. Inductive /\ [Next]_vars => Inductive'
  <2>1. SUFFICES ASSUME Inductive, [Next]_vars
                 PROVE  Inductive'
    OBVIOUS
  <2>2. CASE Next
    BY <2>1, <2>2, OperateInductive DEF Next
  <2>3. CASE UNCHANGED vars
    BY <2>1, <2>3 DEF vars, Inductive, TypeOK, UniqueHashes
  <2> QED
    BY <2>1, <2>2, <2>3
<1> QED
  BY <1>1, <1>2, PTL DEF Spec

\* The base never holds more than base_size records, each of them well typed.
THEOREM TypeCorrect == Spec => []TypeOK
<1>1. Inductive => TypeOK
  BY DEF Inductive
<1> QED
  BY <1>1, InductiveInvariant, PTL

\* A lookup by a client's own name finds that client and no other.
LookupIsExact ==
    \A i \in 1..Len(base) : GetClientByName(base, base[i].name) = i

\* Whatever the hash function does, no two registered clients share a hash, and
\* a lookup by a client's name finds that client.
THEOREM LookupsAreExact == Spec => [](UniqueHashes /\ LookupIsExact)
<1>1. Inductive => UniqueHashes /\ LookupIsExact
  BY OwnNameFound DEF Inductive, TypeOK, UniqueHashes, LookupIsExact
<1> QED
  BY <1>1, InductiveInvariant, PTL

\* No request removes, renames or reorders a record, so the pointers that the
\* interface and the sender take into the base stay valid.
THEOREM RegistrationIsForGood == Spec => RecordsKept
<1> DEFINE Kept == /\ Len(base') >= Len(base)
                   /\ \A i \in 1..Len(base) :
                        /\ base'[i].name = base[i].name
                        /\ base'[i].nameHash = base[i].nameHash
                        /\ base'[i].pswdHash = base[i].pswdHash
<1>1. Inductive /\ [Next]_vars => [Kept]_vars
  <2>1. SUFFICES ASSUME Inductive, NEW m \in Incoming, Operate(m)
                 PROVE  Kept
    BY DEF Next
  <2>2. base \in Seq(Client) /\ Len(base) \in Nat
    BY <2>1 DEF Inductive, TypeOK
  <2> QED
    BY <2>1, <2>2, OperateBase DEF SameClients, Grows
<1> QED
  BY <1>1, InductiveInvariant, PTL DEF Spec, RecordsKept

\* Only a log in with the client's own password, on the new connection, moves a
\* client's messages to another connection.
THEOREM OnlyOwnersRedirect == Spec => RedirectedByOwner
<1> DEFINE ByOwner == \A i \in 1..Len(base) :
                        base'[i].stream # base[i].stream =>
                          /\ msg'.endpoint = base'[i].stream
                          /\ Hash[msg'.pswd] = base[i].pswdHash
<1>1. Inductive /\ [Next]_vars => [ByOwner]_vars
  <2>1. SUFFICES ASSUME Inductive, NEW m \in Incoming, Operate(m)
                 PROVE  ByOwner
    BY DEF Next
  <2>2. base \in Seq(Client) /\ msg' = m
    BY <2>1 DEF Inductive, TypeOK, Operate
  <2> QED
    BY <2>1, <2>2, OperateBase DEF Redirected
<1> QED
  BY <1>1, InductiveInvariant, PTL DEF Spec, RedirectedByOwner

\* Nobody's coming or going is missed by the others: each of them that is ONLINE
\* is sent a notice which the sender takes to that client.
THEOREM OthersAreTold == Spec => StatusChangesTold
<1> DEFINE Told == \A i, j \in 1..Len(base') :
                     /\ i <= Len(base) => base'[i].status # base[i].status
                     /\ j # i /\ Online(base', j)
                     => \E k \in 1..Len(effect'.out) :
                          /\ GetClientByName(base', effect'.out[k].to) = j
                          /\ effect'.out[k].name = base'[i].name
<1>1. Inductive /\ [Next]_vars => [Told]_vars
  <2>1. SUFFICES ASSUME Inductive, NEW m \in Incoming, Operate(m),
                        NEW i \in 1..Len(base'), NEW j \in 1..Len(base'),
                        i <= Len(base) => base'[i].status # base[i].status,
                        j # i, Online(base', j)
                 PROVE  \E k \in 1..Len(effect'.out) :
                          /\ GetClientByName(base', effect'.out[k].to) = j
                          /\ effect'.out[k].name = base'[i].name
    BY DEF Next
  <2>2. base \in Seq(Client) /\ Len(base) \in Nat
    BY <2>1 DEF Inductive, TypeOK
  <2>3. effect' = Handle(base, m) /\ base' = effect'.base
    BY <2>1 DEF Operate
  <2>4. base' # base
    BY <2>1, <2>2
  <2>5. PICK told, c :
          /\ told \in Seq(Client) /\ c \in 1..Len(told)
          /\ effect'.out = send_all_status_changed(told, c)
          /\ base' \in Seq(Client) /\ Len(base') = Len(told)
          /\ \A n \in 1..Len(told) :
               /\ base'[n].name = told[n].name
               /\ n # c => told[n].status = base'[n].status
               /\ n # c => n \in 1..Len(base) /\ told[n].status = base[n].status
    <3>1. Handle(base, m).base = base \/ Tells(base, Handle(base, m))
      BY <2>2, HandleTells
    <3>2. Tells(base, effect')
      BY <2>3, <2>4, <3>1
    <3> QED
      BY <2>3, <3>2 DEF Tells
  <2>6. i = c
    <3>1. \A n \in 1..Len(base) : n <= Len(base)
      BY <2>2
    <3> QED
      BY <2>1, <2>5, <3>1
  <2>7. Online(told, j) /\ j \in 1..Len(told) /\ Len(told) \in Nat
    <3>1. j \in 1..Len(told) /\ j # c /\ base'[j].status = "ONLINE"
      BY <2>1, <2>5, <2>6 DEF Online
    <3>2. told[j].status = "ONLINE"
      BY <2>5, <3>1
    <3>3. Len(told) \in Nat
      BY <2>5
    <3> QED
      BY <3>1, <3>2, <3>3 DEF Online
  <2>8. PICK k \in 1..Len(effect'.out) : effect'.out[k] = StatusNotice(told, j, i)
    <3>1. \E k \in 1..Len(send_all_status_changed(told, i)) :
            send_all_status_changed(told, i)[k] = StatusNotice(told, j, i)
      BY <2>7, NoticesSent
    <3>2. effect'.out = send_all_status_changed(told, i)
      BY <2>5, <2>6
    <3> QED
      BY <3>1, <3>2
  <2>9. effect'.out[k].to = base'[j].name /\ effect'.out[k].name = base'[i].name
    BY <2>1, <2>5, <2>8 DEF StatusNotice, ChatMessage
  <2>10. GetClientByName(base', base'[j].name) = j
    <3>1. Inductive'
      BY <2>1, OperateInductive
    <3>2. /\ \A n, l \in 1..Len(base') : base'[n].nameHash = base'[l].nameHash => n = l
          /\ base'[j].nameHash = Hash[base'[j].name]
      BY <3>1 DEF Inductive, UniqueHashes
    <3> QED
      BY <2>5, <3>2, OwnNameFound
  <2> QED
    BY <2>9, <2>10
<1> QED
  BY <1>1, InductiveInvariant, PTL DEF Spec, StatusChangesTold
=============================================================================
