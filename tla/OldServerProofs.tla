--------------------------- MODULE OldServerProofs --------------------------
(***************************************************************************)
(* Proofs about the first version of the server, for any names, passwords  *)
(* and connections, any MAX_CONNECTIONS and IN_WAIT, and lists of mail of  *)
(* any length.                                                             *)
(***************************************************************************)
EXTENDS OldServer, TLAPS, WellFoundedInduction

(* Looking things up.                                                      *)

\* The loops over the table stop at the least index that matches.
LEMMA LeastUser ==
    ASSUME NEW ids, ids \subseteq User, ids # {}
    PROVE  \E x \in ids : \A y \in ids : x <= y
<1>1. ids \subseteq Nat
  BY DEF User
<1>2. PICK x \in ids : \A y \in ids : ~(<<y, x>> \in OpToRel(<, Nat))
  BY <1>1, NatLessThanWellFounded, WFMin
<1>3. ASSUME NEW y \in ids
      PROVE  x <= y
  <2>1. x \in Nat /\ y \in Nat
    BY <1>1
  <2>2. ~(y < x)
    BY <1>2, <2>1 DEF OpToRel
  <2> QED
    BY <2>1, <2>2
<1> QED
  BY <1>3

\* A lookup finds the first user of the set, or 0 when there is none.
LEMMA FirstFound ==
    ASSUME NEW ids, ids \subseteq User
    PROVE  /\ ids = {} => FirstOf(ids) = 0
           /\ ids # {} => FirstOf(ids) \in ids /\ \A j \in ids : FirstOf(ids) <= j
<1>1. ids = {} => FirstOf(ids) = 0
  BY DEF FirstOf
<1>2. ASSUME ids # {}
      PROVE  FirstOf(ids) \in ids /\ \A j \in ids : FirstOf(ids) <= j
  <2>1. \E x \in ids : \A j \in ids : x <= j
    BY <1>2, LeastUser
  <2>2. FirstOf(ids) = CHOOSE x \in ids : \A j \in ids : x <= j
    BY <1>2 DEF FirstOf
  <2> QED
    BY <2>1, <2>2
<1> QED
  BY <1>1, <1>2

\* A number a lookup returns is no user, or a user of the set.
LEMMA FoundInTable ==
    ASSUME NEW ids, ids \subseteq User
    PROVE  /\ FirstOf(ids) # 0 => FirstOf(ids) \in ids
           /\ FirstOf(ids) = 0 => ids = {}
<1>1. 0 \notin User
  BY OldServerAssumption DEF User
<1> QED
  BY <1>1, FirstFound

\* name_lookup returns the number of a user of that name, or 0 if nobody has it.
LEMMA LookupOfNames ==
    ASSUME NEW name
    PROVE  /\ name_lookup(name) # 0
                => /\ name_lookup(name) \in User
                   /\ users[name_lookup(name)].name = name
           /\ name_lookup(name) = 0 => \A i \in User : users[i].name # name
<1> DEFINE ids == {i \in User : users[i].name = name}
<1>1. name_lookup(name) = FirstOf(ids)
  BY DEF name_lookup
<1>2. ids \subseteq User
  OBVIOUS
<1>3. (FirstOf(ids) # 0 => FirstOf(ids) \in ids) /\ (FirstOf(ids) = 0 => ids = {})
  BY <1>2, FoundInTable
<1> QED
  BY <1>1, <1>3

-----------------------------------------------------------------------------
(* The table after user i is here                                          *)

\* Present changes the record of user i alone, and not the mail kept for i.
LEMMA PresentTable ==
    ASSUME OldInductive, NEW i \in User, NEW client \in Connection,
           NEW name \in Name \cup {NoName}, NEW password \in Pswd \cup {NoPswd}
    PROVE  /\ Present(i, client, name, password) \in [User -> UserRecord]
           /\ Present(i, client, name, password)[i] =
                [client |-> client, name |-> name, password |-> password,
                 status |-> "ONLINE", messages |-> users[i].messages]
           /\ \A j \in User \ {i} : Present(i, client, name, password)[j] = users[j]
<1>1. users \in [User -> UserRecord]
  BY DEF OldInductive, TableConsistent
<1>2. users[i] \in UserRecord
  BY <1>1
<1> DEFINE r1 == [users[i] EXCEPT !.name = name]
           r2 == [r1 EXCEPT !.password = password]
           r3 == [r2 EXCEPT !.client = client]
           rec == [client |-> client, name |-> name, password |-> password,
                   status |-> "ONLINE", messages |-> users[i].messages]
<1>3. [r3 EXCEPT !.status = "ONLINE"] = rec
  <2>1. users[i] = [client |-> users[i].client, name |-> users[i].name,
                    password |-> users[i].password, status |-> users[i].status,
                    messages |-> users[i].messages]
    BY <1>2 DEF UserRecord
  <2>2. r1 = [client |-> users[i].client, name |-> name,
              password |-> users[i].password, status |-> users[i].status,
              messages |-> users[i].messages]
    BY <2>1
  <2> HIDE DEF r1
  <2>3. r2 = [client |-> users[i].client, name |-> name, password |-> password,
              status |-> users[i].status, messages |-> users[i].messages]
    BY <2>2
  <2> HIDE DEF r2
  <2>4. r3 = [client |-> client, name |-> name, password |-> password,
              status |-> users[i].status, messages |-> users[i].messages]
    BY <2>3
  <2> HIDE DEF r3
  <2> QED
    BY <2>4
<1>4. rec \in UserRecord
  BY <1>2 DEF UserRecord
<1>5. Present(i, client, name, password) = [users EXCEPT ![i] = rec]
  <2> DEFINE t1 == [users EXCEPT ![i] = r1]
             t2 == [t1 EXCEPT ![i] = r2]
             t3 == [t2 EXCEPT ![i] = r3]
  <2>1. t1 = [users EXCEPT ![i].name = name]
    OBVIOUS
  <2>2. t2 = [t1 EXCEPT ![i].password = password]
    BY <1>1
  <2>3. t3 = [t2 EXCEPT ![i].client = client]
    BY <1>1
  <2>4. [t3 EXCEPT ![i] = rec] = [t3 EXCEPT ![i].status = "ONLINE"]
    <3> HIDE DEF rec
    <3> QED
      BY <1>1, <1>3
  <2>5. [t3 EXCEPT ![i] = rec] = [users EXCEPT ![i] = rec]
    <3> HIDE DEF rec, r1, r2, r3
    <3> QED
      BY <1>1
  <2> QED
    BY <2>1, <2>2, <2>3, <2>4, <2>5 DEF Present
<1> HIDE DEF rec
<1>6. [users EXCEPT ![i] = rec] \in [User -> UserRecord]
  BY <1>1, <1>4
<1>7. [users EXCEPT ![i] = rec][i] = rec
      /\ \A j \in User \ {i} : [users EXCEPT ![i] = rec][j] = users[j]
  BY <1>1
<1> QED
  BY <1>5, <1>6, <1>7 DEF rec

\* A table in which one user is here, on a connection that is open, under a name
\* nobody else has, keeps the invariant if Claim records it.
LEMMA ClaimKeeps ==
    ASSUME OldInductive, NEW i \in User, NEW client \in Connection,
           NEW name \in Name \cup {NoName}, NEW password \in Pswd \cup {NoPswd},
           handle[client] = "open",
           \A j \in User \ {i} : users[j].name = name => name = NoName,
           users' \in [User -> UserRecord],
           users'[i].client = client, users'[i].name = name,
           users'[i].password = password, users'[i].status = "ONLINE",
           \A k \in 1..Len(users'[i].messages) : users'[i].messages[k].to >= i,
           \A j \in User \ {i} : users'[j] = users[j],
           Claim(client, i, password)
    PROVE  OldInductive'
<1>1. client # NULL
  BY OldServerAssumption
<1>2. handle' = handle /\ in_wait' = in_wait
  BY DEF Claim
<1>3. claimed \in [User -> (Connection \cup {NULL}) \X (Pswd \cup {NoPswd})]
      /\ doubled \subseteq User
  BY DEF OldInductive
<1>4. /\ claimed' = [claimed EXCEPT ![i] = << client, password >>]
      /\ doubled \subseteq doubled' /\ doubled' \subseteq User
      /\ \A j \in UsersOf(client) \ {i} : j \in doubled' /\ i \in doubled'
  BY <1>3 DEF Claim, UsersOf
<1>5. TableConsistent'
  <2>1. \A j \in User :
          users'[j].status = IF users'[j].client = NULL THEN "OFFLINE" ELSE "ONLINE"
    BY <1>1 DEF OldInductive, TableConsistent
  <2>2. \A j, k \in User : users'[j].name = users'[k].name /\ j # k => users'[j].name = NoName
    BY DEF OldInductive, TableConsistent
  <2> QED
    BY <1>2, <2>1, <2>2 DEF OldInductive, TableConsistent, User
<1>6. OnlySharedAreInherited'
  <2>1. ASSUME NEW j \in User, Leftover(j)'
        PROVE  j \in doubled'
    <3>1. j # i
      BY <1>2, <1>3, <1>4, <2>1 DEF Leftover
    <3>2. Leftover(j)
      BY <1>2, <1>3, <1>4, <2>1, <3>1 DEF Leftover
    <3> QED
      BY <1>4, <3>2 DEF OldInductive, OnlySharedAreInherited
  <2> QED
    BY <2>1 DEF OnlySharedAreInherited, User
<1>7. \A j, k \in User :
        users'[j].client = users'[k].client /\ j # k /\ users'[j].client # NULL
          => j \in doubled'
  <2>1. ASSUME NEW j \in User, NEW k \in User, users'[j].client = users'[k].client,
               j # k, users'[j].client # NULL
        PROVE  j \in doubled'
    <3>1. CASE j = i
      BY <1>4, <2>1, <3>1 DEF UsersOf
    <3>2. CASE k = i
      BY <1>4, <2>1, <3>2 DEF UsersOf
    <3>3. CASE j # i /\ k # i
      BY <1>4, <2>1, <3>3 DEF OldInductive
    <3> QED
      BY <3>1, <3>2, <3>3
  <2> QED
    BY <2>1
<1>8. MailAtOrBeforeAddressee'
  BY DEF OldInductive, MailAtOrBeforeAddressee, User
<1>9. (claimed \in [User -> (Connection \cup {NULL}) \X (Pswd \cup {NoPswd})])'
      /\ (doubled \subseteq User)'
  BY <1>3, <1>4 DEF User
<1> QED
  BY <1>5, <1>6, <1>7, <1>8, <1>9 DEF OldInductive, User

-----------------------------------------------------------------------------
(* Every step keeps the invariant                                          *)

LEMMA RegisterKeeps ==
    ASSUME OldInductive, NEW client \in Connection, NEW name \in Name \cup {NoName},
           NEW password \in Pswd \cup {NoPswd}, cmd_register(client, name, password)
    PROVE  OldInductive'
<1> DEFINE i == name_lookup(NoName)
<1>1. /\ handle[client] = "open" /\ name_lookup(name) = 0 /\ i # 0
      /\ users' = Present(i, client, name, password)
      /\ Claim(client, i, password)
  BY DEF cmd_register, Listening
<1>2. i \in User /\ \A j \in User : users[j].name # name
  BY <1>1, LookupOfNames
<1> HIDE DEF i
<1>3. /\ users' \in [User -> UserRecord]
      /\ users'[i] = [client |-> client, name |-> name, password |-> password,
                      status |-> "ONLINE", messages |-> users[i].messages]
      /\ \A j \in User \ {i} : users'[j] = users[j]
  BY <1>1, <1>2, PresentTable
<1>4. \A k \in 1..Len(users'[i].messages) : users'[i].messages[k].to >= i
  BY <1>2, <1>3 DEF OldInductive, MailAtOrBeforeAddressee
<1>5. /\ users'[i].client = client /\ users'[i].name = name
      /\ users'[i].password = password /\ users'[i].status = "ONLINE"
  BY <1>3
<1>6. \A j \in User \ {i} : users[j].name = name => name = NoName
  BY <1>2
<1> QED
  BY <1>1, <1>2, <1>3, <1>4, <1>5, <1>6, ClaimKeeps

LEMMA SignInKeeps ==
    ASSUME OldInductive, NEW client \in Connection, NEW name \in Name \cup {NoName},
           NEW password \in Pswd \cup {NoPswd}, cmd_sign_in(client, name, password)
    PROVE  OldInductive'
<1> DEFINE i == name_lookup(name)
           mail == users[i].messages
<1>1. /\ handle[client] = "open" /\ i # 0
      /\ users' = [Present(i, client, name, password) EXCEPT ![i].messages = AllFreed(mail)]
      /\ Claim(client, i, password)
  BY DEF cmd_sign_in, Listening
<1>2. i \in User /\ users[i].name = name
  BY <1>1, LookupOfNames
<1> HIDE DEF i
<1>3. mail \in Seq(Mail) /\ \A k \in 1..Len(mail) : mail[k].to >= i
  BY <1>2 DEF OldInductive, TableConsistent, UserRecord, MailAtOrBeforeAddressee
<1> HIDE DEF mail
<1>4. /\ AllFreed(mail) \in Seq(Mail)
      /\ \A k \in 1..Len(AllFreed(mail)) : AllFreed(mail)[k].to >= i
  <2>1. ASSUME NEW k \in DOMAIN mail
        PROVE  /\ [mail[k] EXCEPT !.freed = TRUE] \in Mail
               /\ [mail[k] EXCEPT !.freed = TRUE].to = mail[k].to
    <3>1. mail[k] \in Mail
      BY <1>3
    <3> QED
      BY <3>1 DEF Mail
  <2>2. DOMAIN mail = 1..Len(mail) /\ Len(mail) \in Nat
    BY <1>3
  <2>3. AllFreed(mail) \in [1..Len(mail) -> Mail]
    BY <2>1, <2>2 DEF AllFreed
  <2>4. AllFreed(mail) \in Seq(Mail) /\ Len(AllFreed(mail)) = Len(mail)
    BY <2>2, <2>3
  <2>5. \A k \in 1..Len(mail) : AllFreed(mail)[k].to = mail[k].to
    BY <2>1, <2>2 DEF AllFreed
  <2> QED
    BY <1>3, <2>4, <2>5
<1>5. /\ Present(i, client, name, password) \in [User -> UserRecord]
      /\ Present(i, client, name, password)[i] =
           [client |-> client, name |-> name, password |-> password,
            status |-> "ONLINE", messages |-> users[i].messages]
      /\ \A j \in User \ {i} : Present(i, client, name, password)[j] = users[j]
  BY <1>2, PresentTable
<1>6. /\ users' \in [User -> UserRecord]
      /\ users'[i] = [client |-> client, name |-> name, password |-> password,
                      status |-> "ONLINE", messages |-> AllFreed(mail)]
      /\ \A j \in User \ {i} : users'[j] = users[j]
  <2> DEFINE table == Present(i, client, name, password)
             rec == [client |-> client, name |-> name, password |-> password,
                     status |-> "ONLINE", messages |-> AllFreed(mail)]
  <2>1. rec \in UserRecord
    BY <1>4 DEF UserRecord
  <2>2. [table[i] EXCEPT !.messages = AllFreed(mail)] = rec
    BY <1>5
  <2>3. users' = [table EXCEPT ![i] = rec]
    <3>1. users' = [table EXCEPT ![i].messages = AllFreed(mail)]
      BY <1>1
    <3> HIDE DEF rec, table
    <3> QED
      BY <2>2, <3>1
  <2> HIDE DEF rec
  <2>4. users' \in [User -> UserRecord] /\ users'[i] = rec
        /\ \A j \in User \ {i} : users'[j] = users[j]
    BY <1>2, <1>5, <2>1, <2>3
  <2> QED
    BY <2>4 DEF rec
<1>7. /\ users'[i].client = client /\ users'[i].name = name
      /\ users'[i].password = password /\ users'[i].status = "ONLINE"
      /\ users'[i].messages = AllFreed(mail)
  BY <1>6
<1>8. \A j \in User \ {i} : users[j].name = name => name = NoName
  BY <1>2 DEF OldInductive, TableConsistent
<1> QED
  BY <1>1, <1>2, <1>4, <1>6, <1>7, <1>8, ClaimKeeps

LEMMA ToKeeps ==
    ASSUME OldInductive, NEW client \in Connection, NEW name \in Name \cup {NoName},
           cmd_to(client, name)
    PROVE  OldInductive'
<1> DEFINE addressee == name_lookup(name)
           recipient == users[addressee].client
           id == StoredFor(recipient, addressee)
           text == [to |-> addressee, freed |-> FALSE]
<1>1. /\ addressee # 0
      /\ UNCHANGED << handle, in_wait, claimed, doubled >>
      /\ \/ UNCHANGED users
         \/ users' = [users EXCEPT ![id].messages = << text >> \o @]
  BY DEF cmd_to, send_message, Unclaimed
<1>2. addressee \in User
  BY <1>1, LookupOfNames
<1>3. id \in User /\ id <= addressee
  <2>1. UsersOf(recipient) \subseteq User /\ addressee \in UsersOf(recipient)
    BY <1>2 DEF UsersOf
  <2> QED
    BY <2>1, FirstFound DEF StoredFor
<1> HIDE DEF addressee, id
<1>4. CASE UNCHANGED users
  BY <1>1, <1>4 DEF OldInductive, TableConsistent, OnlySharedAreInherited, Leftover,
                    MailAtOrBeforeAddressee, User
<1>5. CASE users' = [users EXCEPT ![id].messages = << text >> \o @]
  <2>1. users \in [User -> UserRecord] /\ users[id] \in UserRecord
    BY <1>3 DEF OldInductive, TableConsistent
  <2> DEFINE mail == users[id].messages
             rec == [users[id] EXCEPT !.messages = << text >> \o mail]
  <2>2. mail \in Seq(Mail) /\ \A k \in 1..Len(mail) : mail[k].to >= id
    BY <1>3, <2>1 DEF UserRecord, OldInductive, MailAtOrBeforeAddressee
  <2>3. text \in Mail /\ text.to = addressee
    BY <1>2 DEF Mail
  <2> HIDE DEF text, mail
  <2>4. /\ << text >> \o mail \in Seq(Mail)
        /\ \A k \in 1..Len(<< text >> \o mail) : (<< text >> \o mail)[k].to >= id
    <3>1. << text >> \o mail \in Seq(Mail) /\ Len(<< text >> \o mail) = 1 + Len(mail)
          /\ Len(mail) \in Nat
      BY <2>2, <2>3
    <3>2. ASSUME NEW k \in 1..Len(<< text >> \o mail)
          PROVE  (<< text >> \o mail)[k].to >= id
      <4>1. CASE k = 1
        <5>1. (<< text >> \o mail)[k] = text
          BY <2>2, <4>1
        <5> QED
          BY <1>2, <1>3, <2>3, <5>1 DEF User
      <4>2. CASE k # 1
        <5>1. k - 1 \in 1..Len(mail) /\ (<< text >> \o mail)[k] = mail[k - 1]
          BY <2>2, <3>1, <4>2
        <5> QED
          BY <2>2, <5>1
      <4> QED
        BY <4>1, <4>2
    <3> QED
      BY <3>1, <3>2
  <2>5. /\ rec \in UserRecord
        /\ rec.client = users[id].client /\ rec.name = users[id].name
        /\ rec.password = users[id].password /\ rec.status = users[id].status
        /\ rec.messages = << text >> \o mail
    BY <2>1, <2>4 DEF UserRecord
  <2>6. users' = [users EXCEPT ![id] = rec]
    BY <1>5 DEF mail
  <2> HIDE DEF rec
  <2>7. /\ users' \in [User -> UserRecord]
        /\ \A j \in User : /\ users'[j].client = users[j].client
                           /\ users'[j].name = users[j].name
                           /\ users'[j].password = users[j].password
                           /\ users'[j].status = users[j].status
        /\ \A j \in User \ {id} : users'[j] = users[j]
        /\ users'[id] = rec
    BY <1>3, <2>1, <2>5, <2>6
  <2>8. TableConsistent'
    BY <1>1, <2>7 DEF OldInductive, TableConsistent, User
  <2>9. OnlySharedAreInherited'
    BY <1>1, <2>7 DEF OldInductive, OnlySharedAreInherited, Leftover, User
  <2>10. MailAtOrBeforeAddressee'
    BY <2>4, <2>5, <2>7 DEF OldInductive, MailAtOrBeforeAddressee, User
  <2> QED
    BY <1>1, <2>7, <2>8, <2>9, <2>10 DEF OldInductive, User
<1> QED
  BY <1>1, <1>4, <1>5

LEMMA NameSetKeeps ==
    ASSUME OldInductive, NEW client \in Connection, NEW name \in Name \cup {NoName},
           cmd_name_set(client, name)
    PROVE  OldInductive'
<1> DEFINE i == FirstOf(UsersOf(client))
           rec == [users[i] EXCEPT !.name = name]
<1>1. /\ i # 0 /\ name_lookup(name) = 0
      /\ users' = [users EXCEPT ![i].name = name]
      /\ UNCHANGED << handle, in_wait, claimed, doubled >>
  BY DEF cmd_name_set, Unclaimed
<1>2. i \in User /\ \A j \in User : users[j].name # name
  <2>1. UsersOf(client) \subseteq User
    BY DEF UsersOf
  <2> QED
    BY <1>1, <2>1, FoundInTable, LookupOfNames
<1>3. users \in [User -> UserRecord]
  BY DEF OldInductive, TableConsistent
<1> HIDE DEF i
<1>4. /\ rec \in UserRecord
      /\ rec.client = users[i].client /\ rec.name = name
      /\ rec.password = users[i].password /\ rec.status = users[i].status
      /\ rec.messages = users[i].messages
  <2>1. users[i] \in UserRecord
    BY <1>2, <1>3
  <2> QED
    BY <2>1 DEF UserRecord
<1>5. users' = [users EXCEPT ![i] = rec]
  BY <1>1
<1> HIDE DEF rec
<1>6. /\ users' \in [User -> UserRecord]
      /\ \A j \in User : /\ users'[j].client = users[j].client
                         /\ users'[j].password = users[j].password
                         /\ users'[j].status = users[j].status
                         /\ users'[j].messages = users[j].messages
      /\ \A j \in User : users'[j].name = IF j = i THEN name ELSE users[j].name
  BY <1>2, <1>3, <1>4, <1>5
<1>7. TableConsistent'
  BY <1>1, <1>2, <1>6 DEF OldInductive, TableConsistent, User
<1>8. OnlySharedAreInherited'
  BY <1>1, <1>6 DEF OldInductive, OnlySharedAreInherited, Leftover, User
<1>9. MailAtOrBeforeAddressee'
  BY <1>6 DEF OldInductive, MailAtOrBeforeAddressee, User
<1> QED
  BY <1>1, <1>6, <1>7, <1>8, <1>9 DEF OldInductive, User

\* cmd_quit and the end of reading only take a connection's handle out of use.
LEMMA LeavingKeeps ==
    ASSUME OldInductive, NEW c \in Connection, NEW state \in {"closing", "deaf"},
           handle' = [handle EXCEPT ![c] = state],
           UNCHANGED << users, in_wait, claimed, doubled >>
    PROVE  OldInductive'
<1>1. handle \in [Connection -> {"free", "open", "deaf", "closing"}]
  BY DEF OldInductive, TableConsistent
<1>2. TableConsistent'
  BY <1>1 DEF OldInductive, TableConsistent, User
<1>3. OnlySharedAreInherited'
  <2>1. \A d \in Connection : handle'[d] = "free" => handle[d] = "free"
    BY <1>1
  <2>2. \A i \in User : users[i].client \in Connection \cup {NULL}
    BY DEF OldInductive, TableConsistent, UserRecord
  <2> QED
    BY <2>1, <2>2 DEF OldInductive, OnlySharedAreInherited, Leftover, User
<1> QED
  BY <1>2, <1>3 DEF OldInductive, MailAtOrBeforeAddressee, User

LEMMA NewConnectionKeeps ==
    ASSUME OldInductive, NEW c \in Connection, on_new_connection(c)
    PROVE  OldInductive'
<1>1. /\ handle[c] = "free"
      /\ \/ handle' = [handle EXCEPT ![c] = "open"] /\ in_wait' = in_wait + 1
            /\ in_wait < IN_WAIT
         \/ handle' = [handle EXCEPT ![c] = "closing"] /\ in_wait' = in_wait
      /\ claimed' = [i \in User |-> IF claimed[i][1] = c THEN Nowhere ELSE claimed[i]]
      /\ UNCHANGED << users, doubled >>
  BY DEF on_new_connection
<1>2. /\ handle \in [Connection -> {"free", "open", "deaf", "closing"}]
      /\ in_wait \in 0..IN_WAIT
      /\ \A i \in User : users[i].client \in Connection \cup {NULL}
  BY DEF OldInductive, TableConsistent, UserRecord
<1>3. handle' \in [Connection -> {"free", "open", "deaf", "closing"}]
      /\ in_wait' \in 0..IN_WAIT
  BY <1>1, <1>2, OldServerAssumption
<1>4. TableConsistent'
  BY <1>1, <1>3 DEF OldInductive, TableConsistent, User
<1>5. claimed' \in [User -> (Connection \cup {NULL}) \X (Pswd \cup {NoPswd})]
  BY <1>1 DEF OldInductive, Nowhere
<1>6. OnlySharedAreInherited'
  <2>1. ASSUME NEW i \in User, Leftover(i)'
        PROVE  i \in doubled'
    <3> DEFINE d == users[i].client
               place == << d, users[i].password >>
    <3>1. d # NULL /\ d \in Connection
          /\ (handle'[d] = "free" \/ claimed'[i] # place)
      BY <1>1, <1>2, <2>1 DEF Leftover
    <3>2. CASE handle'[d] = "free"
      <4>1. handle[d] = "free"
        BY <1>1, <1>2, <3>1, <3>2
      <4> QED
        BY <1>1, <3>1, <4>1 DEF OldInductive, OnlySharedAreInherited, Leftover
    <3>3. CASE claimed'[i] # place
      <4>1. CASE d = c
        BY <1>1, <3>1, <4>1 DEF OldInductive, OnlySharedAreInherited, Leftover
      <4>2. CASE d # c
        <5>1. claimed[i] # place
          <6>1. CASE claimed[i][1] = c
            <7>1. place[1] = d
              OBVIOUS
            <7> QED
              BY <4>2, <6>1, <7>1
          <6>2. CASE claimed[i][1] # c
            BY <1>1, <3>3, <6>2
          <6> QED
            BY <6>1, <6>2
        <5> QED
          BY <1>1, <3>1, <5>1 DEF OldInductive, OnlySharedAreInherited, Leftover
      <4> QED
        BY <4>1, <4>2
    <3> QED
      BY <3>1, <3>2, <3>3
  <2> QED
    BY <2>1 DEF OnlySharedAreInherited, User
<1> QED
  BY <1>1, <1>4, <1>5, <1>6 DEF OldInductive, MailAtOrBeforeAddressee, User

LEMMA CloseKeeps ==
    ASSUME OldInductive, NEW c \in Connection, on_conn_close(c)
    PROVE  OldInductive'
<1> DEFINE i == FirstOf(UsersOf(c))
           rec == [users[i] EXCEPT !.client = NULL, !.status = "OFFLINE"]
<1>1. /\ handle' = [handle EXCEPT ![c] = "free"]
      /\ users' = [j \in User |-> IF j # i THEN users[j] ELSE rec]
      /\ UNCHANGED << in_wait, claimed, doubled >>
  BY DEF on_conn_close
<1>2. UsersOf(c) \subseteq User
      /\ (i # 0 => i \in UsersOf(c)) /\ (i = 0 => UsersOf(c) = {})
  <2>1. UsersOf(c) \subseteq User
    BY DEF UsersOf
  <2> QED
    BY <2>1, FoundInTable
<1>3. /\ users \in [User -> UserRecord]
      /\ handle \in [Connection -> {"free", "open", "deaf", "closing"}]
  BY DEF OldInductive, TableConsistent
<1>4. 0 \notin User
  BY OldServerAssumption DEF User
<1> HIDE DEF i
<1>5. i \in User => /\ rec \in UserRecord
                    /\ rec.client = NULL /\ rec.status = "OFFLINE"
                    /\ rec.name = users[i].name /\ rec.password = users[i].password
                    /\ rec.messages = users[i].messages
  <2>1. i \in User => users[i] \in UserRecord
    BY <1>3
  <2> QED
    BY <2>1 DEF UserRecord
<1> HIDE DEF rec
<1>6. /\ users' \in [User -> UserRecord]
      /\ \A j \in User : /\ users'[j].name = users[j].name
                         /\ users'[j].password = users[j].password
                         /\ users'[j].messages = users[j].messages
      /\ \A j \in User : j # i => users'[j] = users[j]
      /\ i \in User => users'[i].client = NULL /\ users'[i].status = "OFFLINE"
  BY <1>1, <1>3, <1>5
<1>7. handle' \in [Connection -> {"free", "open", "deaf", "closing"}]
      /\ \A d \in Connection : d # c => handle'[d] = handle[d]
  BY <1>1, <1>3
<1>8. TableConsistent'
  BY <1>1, <1>6, <1>7 DEF OldInductive, TableConsistent, User
<1>9. OnlySharedAreInherited'
  <2>1. ASSUME NEW j \in User, Leftover(j)'
        PROVE  j \in doubled'
    <3>1. j # i /\ users'[j] = users[j] /\ users[j].client # NULL
      BY <1>6, <2>1 DEF Leftover
    <3>2. CASE users[j].client = c
      <4>1. j \in UsersOf(c)
        BY <3>2 DEF UsersOf
      <4>2. i \in User /\ users[i].client = c
        BY <1>2, <4>1 DEF UsersOf
      <4> QED
        BY <1>1, <3>1, <3>2, <4>2 DEF OldInductive
    <3>3. CASE users[j].client # c
      <4>1. users[j].client \in Connection
        BY <1>3, <3>1 DEF UserRecord
      <4>2. Leftover(j)
        BY <1>1, <1>7, <2>1, <3>1, <3>3, <4>1 DEF Leftover
      <4> QED
        BY <1>1, <4>2 DEF OldInductive, OnlySharedAreInherited
    <3> QED
      BY <3>2, <3>3
  <2> QED
    BY <2>1 DEF OnlySharedAreInherited, User
<1>10. MailAtOrBeforeAddressee'
  BY <1>6 DEF OldInductive, MailAtOrBeforeAddressee, User
<1>11. \A j, k \in User :
         users'[j].client = users'[k].client /\ j # k /\ users'[j].client # NULL
           => j \in doubled'
  BY <1>1, <1>6 DEF OldInductive
<1> QED
  BY <1>1, <1>8, <1>9, <1>10, <1>11 DEF OldInductive, User

-----------------------------------------------------------------------------
(* The theorems                                                            *)

\* The steps of the loop, one case for each.
LEMMA StepCases ==
    ASSUME OldNext
    PROVE  \E c \in Connection : acting' = c /\
           ( \/ cmd_quit(c)
             \/ \E name \in Name \cup {NoName} : cmd_to(c, name) \/ cmd_name_set(c, name)
             \/ \E name \in Name \cup {NoName}, password \in Pswd \cup {NoPswd} :
                   cmd_register(c, name, password) \/ cmd_sign_in(c, name, password)
             \/ on_new_connection(c)
             \/ ReadEnds(c)
             \/ on_conn_close(c) )
  BY DEF OldNext, process_userinput

LEMMA StepKeeps ==
    ASSUME OldInductive, [OldNext]_oldVars
    PROVE  OldInductive'
<1>1. CASE UNCHANGED oldVars
  BY <1>1 DEF oldVars, OldInductive, TableConsistent, OnlySharedAreInherited, Leftover,
              MailAtOrBeforeAddressee, User
<1>2. CASE OldNext
  <2>1. PICK c \in Connection :
             \/ cmd_quit(c)
             \/ \E name \in Name \cup {NoName} : cmd_to(c, name) \/ cmd_name_set(c, name)
             \/ \E name \in Name \cup {NoName}, password \in Pswd \cup {NoPswd} :
                   cmd_register(c, name, password) \/ cmd_sign_in(c, name, password)
             \/ on_new_connection(c)
             \/ ReadEnds(c)
             \/ on_conn_close(c)
    BY <1>2, StepCases
  <2>2. CASE cmd_quit(c)
    BY <2>2, LeavingKeeps DEF cmd_quit
  <2>3. CASE \E name \in Name \cup {NoName} : cmd_to(c, name) \/ cmd_name_set(c, name)
    BY <2>3, ToKeeps, NameSetKeeps
  <2>4. CASE \E name \in Name \cup {NoName}, password \in Pswd \cup {NoPswd} :
               cmd_register(c, name, password) \/ cmd_sign_in(c, name, password)
    BY <2>4, RegisterKeeps, SignInKeeps
  <2>5. CASE on_new_connection(c)
    BY <2>5, NewConnectionKeeps
  <2>6. CASE ReadEnds(c)
    BY <2>6, LeavingKeeps DEF ReadEnds
  <2>7. CASE on_conn_close(c)
    BY <2>7, CloseKeeps
  <2> QED
    BY <2>1, <2>2, <2>3, <2>4, <2>5, <2>6, <2>7
<1> QED
  BY <1>1, <1>2

LEMMA InitHolds ==
    ASSUME OldInit
    PROVE  OldInductive
<1> DEFINE vacant == [client |-> NULL, name |-> NoName, password |-> NoPswd,
                      status |-> "OFFLINE", messages |-> << >>]
<1>1. vacant \in UserRecord
  BY DEF UserRecord
<1>2. users = [i \in User |-> vacant]
  BY DEF OldInit
<1>3. \A i \in User : /\ users[i].client = NULL /\ users[i].status = "OFFLINE"
                      /\ users[i].name = NoName /\ users[i].messages = << >>
  BY <1>2
<1> HIDE DEF vacant
<1>4. users \in [User -> UserRecord]
  BY <1>1, <1>2
<1>5. TableConsistent
  BY <1>3, <1>4, OldServerAssumption DEF OldInit, TableConsistent
<1>6. OnlySharedAreInherited /\ MailAtOrBeforeAddressee
  BY <1>3 DEF OnlySharedAreInherited, Leftover, MailAtOrBeforeAddressee
<1> QED
  BY <1>3, <1>5, <1>6 DEF OldInit, OldInductive, Nowhere

\* What the table is relied on for at every moment.
LEMMA OldInvariant == OldSpec => []OldInductive
<1>1. OldInit => OldInductive
  BY InitHolds
<1>2. OldInductive /\ [OldNext]_oldVars => OldInductive'
  BY StepKeeps
<1> QED
  BY <1>1, <1>2, PTL DEF OldSpec

\* The table of users stays consistent: names are distinct and who has a
\* connection is ONLINE, in whatever order users register, sign in, are renamed
\* and leave.
THEOREM ConsistentTable == OldSpec => []TableConsistent
<1>1. OldInductive => TableConsistent
  BY DEF OldInductive
<1> QED
  BY <1>1, OldInvariant, PTL

\* A connection speaks only for users whose password was given on it, but for
\* users left behind by a connection two of them shared.
THEOREM OnlySharedUsersAreInherited == OldSpec => []OnlySharedAreInherited
<1>1. OldInductive => OnlySharedAreInherited
  BY DEF OldInductive
<1> QED
  BY <1>1, OldInvariant, PTL

\* What send_message keeps for an absent user is kept at that user's place or at
\* an earlier one.
THEOREM MailIsAtOrBefore == OldSpec => []MailAtOrBeforeAddressee
<1>1. OldInductive => MailAtOrBeforeAddressee
  BY DEF OldInductive
<1> QED
  BY <1>1, OldInvariant, PTL

\* What a step of connection c may do to the name and the password of user i.
Keeps(i, c) ==
    users[i].name # NoName =>
         /\ users'[i].password = users[i].password
         /\ users'[i].name # users[i].name =>
              /\ users[i].client = c /\ users'[i].client = c
              /\ handle[c] = "open"
              /\ claimed[i] = << c, users[i].password >> \/ i \in doubled

LEMMA NamesKeptByStep ==
    ASSUME OldInductive, OldNext, NEW i \in User
    PROVE  Keeps(i, acting')
<1>1. users \in [User -> UserRecord]
  BY DEF OldInductive, TableConsistent
<1>2. PICK c \in Connection : acting' = c /\
         ( \/ cmd_quit(c)
           \/ \E name \in Name \cup {NoName} : cmd_to(c, name) \/ cmd_name_set(c, name)
           \/ \E name \in Name \cup {NoName}, password \in Pswd \cup {NoPswd} :
                 cmd_register(c, name, password) \/ cmd_sign_in(c, name, password)
           \/ on_new_connection(c)
           \/ ReadEnds(c)
           \/ on_conn_close(c) )
  BY StepCases
<1>3. CASE UNCHANGED users
  BY <1>3 DEF Keeps
<1>4. CASE on_conn_close(c)
  <2>1. users'[i] = users[i]
        \/ users'[i] = [users[i] EXCEPT !.client = NULL, !.status = "OFFLINE"]
    BY <1>4 DEF on_conn_close
  <2>2. users[i] \in UserRecord
    BY <1>1
  <2>3. users'[i].name = users[i].name /\ users'[i].password = users[i].password
    BY <2>1, <2>2 DEF UserRecord
  <2> QED
    BY <2>3 DEF Keeps
<1>5. ASSUME NEW name \in Name \cup {NoName}, cmd_to(c, name)
      PROVE  Keeps(i, c)
  <2> DEFINE id == StoredFor(users[name_lookup(name)].client, name_lookup(name))
             text == [to |-> name_lookup(name), freed |-> FALSE]
  <2>1. users' = users \/ users' = [users EXCEPT ![id].messages = << text >> \o @]
    BY <1>5 DEF cmd_to, send_message
  <2>2. users[i] \in UserRecord
    BY <1>1
  <2> HIDE DEF id, text
  <2>3. users'[i].name = users[i].name /\ users'[i].password = users[i].password
    <3>1. ASSUME NEW mail
          PROVE  LET r == [users[i] EXCEPT !.messages = mail]
                 IN  r.name = users[i].name /\ r.password = users[i].password
      BY <2>2 DEF UserRecord
    <3>2. \/ users'[i] = users[i]
          \/ users'[i] = [users[i] EXCEPT !.messages = << text >> \o users[i].messages]
      BY <1>1, <2>1
    <3> QED
      BY <3>1, <3>2
  <2> QED
    BY <2>3 DEF Keeps
<1>6. ASSUME NEW name \in Name \cup {NoName}, cmd_name_set(c, name)
      PROVE  Keeps(i, c)
  <2> DEFINE k == FirstOf(UsersOf(c))
  <2>1. k # 0 /\ handle[c] = "open" /\ users' = [users EXCEPT ![k].name = name]
    BY <1>6 DEF cmd_name_set, Listening
  <2>2. k \in User /\ users[k].client = c
    <3>1. UsersOf(c) \subseteq User
      BY DEF UsersOf
    <3> QED
      BY <2>1, <3>1, FoundInTable DEF UsersOf
  <2> HIDE DEF k
  <2>3. users[i] \in UserRecord /\ c # NULL
    BY <1>1, OldServerAssumption
  <2>4. LET r == [users[i] EXCEPT !.name = name]
        IN  r.client = users[i].client /\ r.password = users[i].password
    BY <2>3 DEF UserRecord
  <2>5. users'[i] = IF i = k THEN [users[i] EXCEPT !.name = name] ELSE users[i]
    BY <1>1, <2>1, <2>2
  <2>6. i = k => claimed[i] = << c, users[i].password >> \/ i \in doubled
    BY <1>1, <2>2, <2>3 DEF OldInductive, OnlySharedAreInherited, Leftover
  <2> QED
    BY <2>1, <2>2, <2>3, <2>4, <2>5, <2>6 DEF Keeps
<1>7. ASSUME NEW name \in Name \cup {NoName}, NEW password \in Pswd \cup {NoPswd},
             cmd_register(c, name, password)
      PROVE  Keeps(i, c)
  <2> DEFINE k == name_lookup(NoName)
  <2>1. k # 0 /\ users' = Present(k, c, name, password)
    BY <1>7 DEF cmd_register
  <2>2. k \in User /\ users[k].name = NoName
    BY <2>1, LookupOfNames
  <2> HIDE DEF k
  <2>3. i # k => users'[i] = users[i]
    <3> DEFINE table == Present(k, c, name, password)
    <3>1. table[k] = [client |-> c, name |-> name, password |-> password,
                      status |-> "ONLINE", messages |-> users[k].messages]
          /\ table \in [User -> UserRecord]
          /\ \A j \in User \ {k} : table[j] = users[j]
      BY <1>7, <2>2, PresentTable
    <3>2. users' = table
      BY <2>1
    <3> HIDE DEF table
    <3> QED
      BY <3>1, <3>2
  <2> QED
    BY <2>2, <2>3 DEF Keeps
<1>8. ASSUME NEW name \in Name \cup {NoName}, NEW password \in Pswd \cup {NoPswd},
             cmd_sign_in(c, name, password)
      PROVE  Keeps(i, c)
  <2> DEFINE k == name_lookup(name)
             table == Present(k, c, name, password)
             mail == AllFreed(users[k].messages)
  <2>1. k # 0 /\ users[k].password = password
        /\ users' = [table EXCEPT ![k].messages = mail]
    BY <1>8 DEF cmd_sign_in
  <2>2. k \in User /\ users[k].name = name
    BY <2>1, LookupOfNames
  <2> HIDE DEF k
  <2>3. /\ table \in [User -> UserRecord]
        /\ table[k].name = name /\ table[k].password = password
        /\ \A j \in User \ {k} : table[j] = users[j]
    <3>1. table[k] = [client |-> c, name |-> name, password |-> password,
                      status |-> "ONLINE", messages |-> users[k].messages]
          /\ table \in [User -> UserRecord]
          /\ \A j \in User \ {k} : table[j] = users[j]
      BY <2>2, PresentTable
    <3>2. table[k].name = name /\ table[k].password = password
      BY <3>1
    <3> HIDE DEF table
    <3> QED
      BY <3>1, <3>2
  <2> HIDE DEF table, mail
  <2>4. LET r == [table[k] EXCEPT !.messages = mail]
        IN  r.name = name /\ r.password = password
    <3>1. table[k] \in UserRecord
      BY <2>2, <2>3
    <3> QED
      BY <2>3, <3>1 DEF UserRecord
  <2>5. /\ i # k => users'[i] = users[i]
        /\ users'[k].name = name /\ users'[k].password = password
    BY <2>1, <2>2, <2>3, <2>4
  <2> QED
    BY <2>1, <2>2, <2>5 DEF Keeps
<1>9. cmd_quit(c) \/ on_new_connection(c) \/ ReadEnds(c) => UNCHANGED users
  BY DEF cmd_quit, on_new_connection, ReadEnds
<1> QED
  BY <1>2, <1>3, <1>4, <1>5, <1>6, <1>7, <1>8, <1>9

\* A command changes a name only if it comes in on the connection of the name's
\* user, and that user's password was given there or the user has shared a
\* connection; the password of a name never changes.
THEOREM NamesAreKeptByOwners == OldSpec => NamesKept
<1>1. ASSUME OldInductive, [OldNext]_oldVars
      PROVE  [\A i \in User : Keeps(i, acting')]_oldVars
  BY <1>1, NamesKeptByStep
<1>2. [\A i \in User : Keeps(i, acting')]_oldVars
        => [\A i \in User : users[i].name # NoName =>
              /\ users'[i].password = users[i].password
              /\ users'[i].name # users[i].name =>
                   /\ users[i].client = acting' /\ users'[i].client = acting'
                   /\ handle[acting'] = "open"
                   /\ claimed[i] = << acting', users[i].password >> \/ i \in doubled]_oldVars
  BY DEF Keeps
<1> QED
  BY <1>1, <1>2, OldInvariant, PTL DEF OldSpec, NamesKept
=============================================================================
