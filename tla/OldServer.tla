------------------------------ MODULE OldServer ------------------------------
(***************************************************************************)
(* The first version of the server (src/old_c_version/server.c): one       *)
(* thread, a table of users, and commands that are handled to the end as   *)
(* they are read.  An action is one callback of the loop.  What is written *)
(* is left out, but not to whom: a write to a handle that has been freed   *)
(* is an error.  So commands that are refused, and PING and ONLINE, which  *)
(* only answer, are no steps.                                              *)
(*                                                                         *)
(* Memory errors of the handlers are recorded in fault, and nothing        *)
(* happens after one.  The names of init_users are taken to be empty, as   *)
(* fresh heap memory is.  Lines that do not fit the handlers' arrays are   *)
(* not typed.                                                              *)
(***************************************************************************)
EXTENDS Naturals, Sequences, FiniteSets

CONSTANTS Connection,   \* addresses of uv_tcp_t handles
          NULL,         \* the client of a user who is not connected
          Name, NoName, \* names that are typed, and the empty one
          Pswd, NoPswd,
          MAX_CONNECTIONS,      \* users of the table
          IN_WAIT,              \* connections ever accepted
          MaxMail               \* bound: messages kept for one user

ASSUME OldServerAssumption ==
    /\ NULL \notin Connection
    /\ MAX_CONNECTIONS \in Nat /\ IN_WAIT \in Nat

VARIABLES users,        \* the table
          handle,       \* state of each uv_tcp_t address
          in_wait,      \* connections accepted so far
          fault,
          acting,       \* history: the connection whose callback ran last
          claimed,      \* history: where each user was last claimed, with which password
          doubled       \* history: users who have shared a connection

oldVars == << users, handle, in_wait, fault, acting, claimed, doubled >>

User == 1..MAX_CONNECTIONS

\* A text for user number to; freed, once it has been written.
Mail == [to : User, freed : BOOLEAN]

\* struct _User
UserRecord == [client : Connection \cup {NULL}, name : Name \cup {NoName},
               password : Pswd \cup {NoPswd}, status : {"ONLINE", "OFFLINE"},
               messages : Seq(Mail)]

\* The place of a user whom nobody on a connection that exists has claimed.
Nowhere == << NULL, NoPswd >>

OldInit ==
    /\ users = [i \in User |-> [client |-> NULL, name |-> NoName, password |-> NoPswd,
                                status |-> "OFFLINE", messages |-> << >>]]
    /\ handle = [c \in Connection |-> "free"]
    /\ in_wait = 0
    /\ fault = "none"
    /\ acting = NULL
    /\ claimed = [i \in User |-> Nowhere]
    /\ doubled = {}

-----------------------------------------------------------------------------
(* Looking things up                                                       *)

\* The loops over the table stop at the first hit; 0 where there is none.
FirstOf(ids) == IF ids = {} THEN 0 ELSE CHOOSE i \in ids : \A j \in ids : i <= j

UsersOf(client) == {i \in User : users[i].client = client}

name_lookup(name) == FirstOf({i \in User : users[i].name = name})

\* Who is told of a change: everybody ONLINE but the connection it comes from.
OthersOnline(table, client) ==
    {i \in User : table[i].status = "ONLINE" /\ table[i].client # client}

\* The table once user i is here, under a name and a password.
Present(i, client, name, password) ==
    [users EXCEPT ![i].name = name, ![i].password = password,
                  ![i].client = client, ![i].status = "ONLINE"]

-----------------------------------------------------------------------------
(* Commands                                                                *)

\* on_client_read
Listening(client) == fault = "none" /\ handle[client] = "open"

\* Writing to these users comes before whatever else may go wrong.
Writing(table, ids, faults) ==
    fault' \in IF \E i \in ids : handle[table[i].client] = "free"
               THEN {"freed handle"} ELSE faults

\* The name and password given on a connection make it user i's.
Claim(client, i, password) ==
    LET shared == UsersOf(client) \ {i}
    IN  /\ claimed' = [claimed EXCEPT ![i] = << client, password >>]
        /\ doubled' = IF shared = {} THEN doubled ELSE doubled \cup shared \cup {i}
        /\ UNCHANGED << handle, in_wait >>

Unclaimed == UNCHANGED << handle, in_wait, claimed, doubled >>

\* A new name takes the first place whose name is empty.
cmd_register(client, name, password) ==
    LET i == name_lookup(NoName)
    IN  /\ Listening(client)
        /\ name_lookup(name) = 0 /\ i # 0
        /\ users' = Present(i, client, name, password)
        /\ Writing(users', OthersOnline(users', client), {"none"})
        /\ Claim(client, i, password)

\* pop_messages: the texts are written and freed, the list of them stays.
AllFreed(messages) == [k \in DOMAIN messages |-> [messages[k] EXCEPT !.freed = TRUE]]

\* Mutant: the password is not compared.
cmd_sign_in_unchecked(client, name, password) ==
    LET i == name_lookup(name)
    IN  /\ Listening(client)
        /\ i # 0
        /\ users' = Present(i, client, name, users[i].password)
        /\ Writing(users', OthersOnline(users', client), {"none"})
        /\ Claim(client, i, password)

\* Texts that are written a second time have been freed by the first.  The
\* notice is an array on the stack, which is freed after the first write.
cmd_sign_in(client, name, password) ==
    LET i == name_lookup(name)
        mail == users[i].messages
        others == OthersOnline(users', client)
    IN  /\ Listening(client)
        /\ i # 0 /\ users[i].password = password
        /\ users' = [Present(i, client, name, password) EXCEPT ![i].messages = AllFreed(mail)]
        /\ IF \E k \in 1..Len(mail) : mail[k].freed THEN fault' = "freed mail"
           ELSE Writing(users', others, IF others = {} THEN {"none"} ELSE {"freed stack"})
        /\ Claim(client, i, password)

\* Mutant: whoever registered last gets what nobody receives.
StoredForLast(client, addressee) ==
    CHOOSE i \in User : users[i].client = client /\ \A j \in UsersOf(client) : j <= i

\* send_message looks the place of a text up by the addressee's connection.
StoredFor(client, addressee) == FirstOf(UsersOf(client))

\* The text goes out, or is kept until somebody signs in as user id.
send_message(addressee, recipient) ==
    LET id == StoredFor(recipient, addressee)
        text == [to |-> addressee, freed |-> FALSE]
    IN  \/ /\ users[id].status = "ONLINE"
           /\ Writing(users, {id}, {"none"})
           /\ UNCHANGED users
        \/ /\ users[id].status # "ONLINE"
           /\ Len(users[id].messages) < MaxMail
           /\ users' = [users EXCEPT ![id].messages = << text >> \o @]
           /\ UNCHANGED fault

cmd_to(client, name) ==
    LET addressee == name_lookup(name)
    IN  /\ Listening(client)
        /\ UsersOf(client) # {} /\ addressee # 0
        /\ send_message(addressee, users[addressee].client)
        /\ Unclaimed

\* Mutant: the name is not looked up.
cmd_name_set_any(client, name) ==
    LET i == FirstOf(UsersOf(client))
    IN  /\ Listening(client)
        /\ i # 0
        /\ users' = [users EXCEPT ![i].name = name]
        /\ Writing(users, OthersOnline(users, client), {"none"})
        /\ Unclaimed

\* Each notice is appended to an array on the stack that has no room for it; the
\* old name, which is what is written, is freed after the first write.
cmd_name_set(client, name) ==
    LET i == FirstOf(UsersOf(client))
        others == OthersOnline(users, client)
    IN  /\ Listening(client)
        /\ i # 0 /\ name_lookup(name) = 0
        /\ users' = [users EXCEPT ![i].name = name]
        /\ Writing(users, others,
                   CASE Cardinality(others) = 0 -> {"none"}
                     [] Cardinality(others) = 1 -> {"none", "stack overrun"}
                     [] Cardinality(others) > 1 -> {"stack overrun", "freed name"})
        /\ Unclaimed

\* Who has left is not known of a connection without users: id is not set.
cmd_quit(client) ==
    LET others == OthersOnline(users, client)
    IN  /\ Listening(client)
        /\ handle' = [handle EXCEPT ![client] = "closing"]
        /\ Writing(users, others, IF UsersOf(client) # {} \/ others = {} THEN {"none"}
                                  ELSE {"none", "unset index"})
        /\ UNCHANGED << users, in_wait, claimed, doubled >>

process_userinput(c) ==
    \/ cmd_quit(c)
    \/ \E name \in Name \cup {NoName} : cmd_to(c, name) \/ cmd_name_set(c, name)
    \/ \E name \in Name \cup {NoName}, password \in Pswd \cup {NoPswd} :
          cmd_register(c, name, password) \/ cmd_sign_in(c, name, password)

-----------------------------------------------------------------------------
(* Connections                                                             *)

\* malloc may give an address that has been freed.
on_new_connection(c) ==
    /\ fault = "none"
    /\ handle[c] = "free"
    /\ IF in_wait < IN_WAIT
       THEN handle' = [handle EXCEPT ![c] = "open"] /\ in_wait' = in_wait + 1
       ELSE handle' = [handle EXCEPT ![c] = "closing"] /\ UNCHANGED in_wait
    /\ claimed' = [i \in User |-> IF claimed[i][1] = c THEN Nowhere ELSE claimed[i]]
    /\ UNCHANGED << users, fault, doubled >>

\* on_client_read with an error closes the connection; at the end of the stream
\* libuv stops reading, and the server does nothing.
ReadEnds(c) ==
    /\ Listening(c)
    /\ \E state \in {"closing", "deaf"} : handle' = [handle EXCEPT ![c] = state]
    /\ UNCHANGED << users, in_wait, fault, claimed, doubled >>

\* Mutant: the user goes OFFLINE and keeps the connection.
on_conn_close_keeping(c) ==
    /\ fault = "none"
    /\ handle[c] = "closing"
    /\ handle' = [handle EXCEPT ![c] = "free"]
    /\ users' = [i \in User |-> IF i # FirstOf(UsersOf(c)) THEN users[i]
                                ELSE [users[i] EXCEPT !.status = "OFFLINE"]]
    /\ UNCHANGED << in_wait, fault, claimed, doubled >>

\* The first of the connection's users is taken off it.
on_conn_close(c) ==
    /\ fault = "none"
    /\ handle[c] = "closing"
    /\ handle' = [handle EXCEPT ![c] = "free"]
    /\ users' = [i \in User |-> IF i # FirstOf(UsersOf(c)) THEN users[i]
                                ELSE [users[i] EXCEPT !.client = NULL, !.status = "OFFLINE"]]
    /\ UNCHANGED << in_wait, fault, claimed, doubled >>

OldNext ==
    \E c \in Connection :
        /\ acting' = c
        /\ process_userinput(c) \/ on_new_connection(c) \/ ReadEnds(c) \/ on_conn_close(c)

OldSpec == OldInit /\ [][OldNext]_oldVars

-----------------------------------------------------------------------------
(* Properties                                                              *)

\* The table is consistent: no two users have one name, although users register,
\* are renamed and vanish in any order, and who is ONLINE is who has a
\* connection.
TableConsistent ==
    /\ users \in [User -> UserRecord]
    /\ \A i \in User :
         users[i].status = IF users[i].client = NULL THEN "OFFLINE" ELSE "ONLINE"
    /\ \A i, j \in User : users[i].name = users[j].name /\ i # j => users[i].name = NoName
    /\ handle \in [Connection -> {"free", "open", "deaf", "closing"}]
    /\ in_wait \in 0..IN_WAIT

\* Nobody speaks for user i on a connection on which i's password was not given,
\* and no handle of a user is freed, unless i has shared a connection with
\* another user: then on_conn_close forgets one of the two, and whoever gets
\* the address next inherits that one.
Leftover(i) ==
    LET c == users[i].client
    IN  c # NULL /\ (handle[c] = "free" \/ claimed[i] # << c, users[i].password >>)

OnlySharedAreInherited == \A i \in User : Leftover(i) => i \in doubled

\* A text for a user who is not connected may be kept for somebody else, but
\* never for one who is later in the table than the addressee.
MailAtOrBeforeAddressee ==
    \A i \in User : \A k \in 1..Len(users[i].messages) : users[i].messages[k].to >= i

\* A name, once given, is changed only by a command that comes in on the
\* connection of its user, and only if the user's password was given on that
\* connection since it was accepted, but for the users whom on_conn_close has
\* forgotten on a connection they shared.  The password that goes with a name
\* never changes.
NamesKept ==
    [][\A i \in User : users[i].name # NoName =>
         /\ users'[i].password = users[i].password
         /\ users'[i].name # users[i].name =>
              /\ users[i].client = acting' /\ users'[i].client = acting'
              /\ handle[acting'] = "open"
              /\ claimed[i] = << acting', users[i].password >> \/ i \in doubled]_oldVars

\* The inductive invariant behind these properties (proved in OldServerProofs):
\* two users of one connection have shared it.
OldInductive ==
    /\ TableConsistent
    /\ claimed \in [User -> (Connection \cup {NULL}) \X (Pswd \cup {NoPswd})]
    /\ doubled \subseteq User
    /\ OnlySharedAreInherited
    /\ \A i, j \in User :
         users[i].client = users[j].client /\ i # j /\ users[i].client # NULL => i \in doubled
    /\ MailAtOrBeforeAddressee
=============================================================================
