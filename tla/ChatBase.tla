------------------------------ MODULE ChatBase ------------------------------
(***************************************************************************)
(* The base of registered clients (src/chat_base.cpp).  A base is a        *)
(* sequence of records, and its functions are operators from bases to      *)
(* bases; the record a C function returns by pointer is returned here by   *)
(* its place in the sequence, with 0 for NULL.  Clients are told apart by  *)
(* hash_djb2 of their names, which is only known to be a function: Hash    *)
(* may give two names the same value.                                      *)
(***************************************************************************)
EXTENDS Naturals, Sequences

CONSTANTS Name,         \* user names
          Pswd,         \* passwords
          Hash,         \* hash_djb2, on names and passwords
          Stream,       \* addresses of uv_tcp_t handles
          NoStream,     \* NULL
          MaxClients    \* base_size

VARIABLE base           \* the registered clients, in the order of registration

ASSUME ChatBaseAssumption ==
    /\ Name \cup Pswd \subseteq DOMAIN Hash
    /\ NoStream \notin Stream
    /\ MaxClients \in Nat

HashValue == {Hash[s] : s \in Name \cup Pswd}

Client == [stream : Stream, name : Name, nameHash : HashValue, pswdHash : HashValue,
           status : {"ONLINE", "OFFLINE"}]

\* The place of the first record in bs for which the test holds.
First(bs, Test(_)) ==
    IF \E i \in 1..Len(bs) : Test(bs[i])
    THEN CHOOSE i \in 1..Len(bs) :
            Test(bs[i]) /\ \A j \in 1..(i - 1) : ~Test(bs[j])
    ELSE 0

GetClientByName(bs, name) == First(bs, LAMBDA c : c.nameHash = Hash[name])

GetClientByStream(bs, stream) == First(bs, LAMBDA c : c.stream = stream)

change_status(bs, i) ==
    [bs EXCEPT ![i].status = IF @ = "ONLINE" THEN "OFFLINE" ELSE "ONLINE"]

\* Mutant: the stream is left NULL until the first log in.
NewClientUnconnected(stream, name, pswd) ==
    [stream |-> NoStream, name |-> name, nameHash |-> Hash[name],
     pswdHash |-> Hash[pswd], status |-> "OFFLINE"]

NewClient(stream, name, pswd) ==
    [stream |-> stream, name |-> name, nameHash |-> Hash[name],
     pswdHash |-> Hash[pswd], status |-> "OFFLINE"]

\* Mutant: the name is not looked up.
CanRegisterAgain(bs, name) == Len(bs) < MaxClients

\* registr_client adds a record, or returns NULL.
CanRegister(bs, name) ==
    /\ GetClientByName(bs, name) = 0
    /\ Len(bs) < MaxClients

registr_client(bs, stream, name, pswd) == Append(bs, NewClient(stream, name, pswd))

\* Mutant: the password is not looked at.
log_in_client_unchecked(bs, name, pswd) == GetClientByName(bs, name)

log_in_client(bs, name, pswd) ==
    LET i == GetClientByName(bs, name)
    IN  IF i # 0 /\ bs[i].pswdHash = Hash[pswd] THEN i ELSE 0

log_out_client(bs, name) == GetClientByName(bs, name)
=============================================================================
