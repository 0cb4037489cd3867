-------------------------------- MODULE Wire --------------------------------
(***************************************************************************)
(* One direction of a connection, from what a program wants to say to what *)
(* the other one understands: a client's front end (src/client.cpp) or the *)
(* server's interface (src/server.cpp) makes messages, send_message writes *)
(* their bytes, TCP carries the bytes in order and hands them over in      *)
(* chunks of its own choice, and on_read (src/networking.cpp) makes a      *)
(* message of every chunk.  Writes that the async handles lose are         *)
(* modelled in AsyncCall; here every one reaches the stream.               *)
(***************************************************************************)
EXTENDS Messages

CONSTANTS User,         \* names that are typed
          Secret,       \* passwords that are typed
          Line,         \* bodies of texts
          Owner,        \* names whose records point to the server's end
          Stat,         \* error codes of answers
          MaxSent       \* bound: messages ever sent

VARIABLES end,          \* whose messages these are: "client" or "server"
          reversed,     \* whether the linker has put the arrays below in reverse order
          memory,       \* the front end's arrays my_name, my_pswd and server_name
          typed,        \* history: the name and the password that were typed last
          stream,       \* bytes written and not yet read
          offset,       \* how many bytes have been read
          fault,        \* how on_read has ended the process
          meant,        \* history: what each message was to say
          sent,         \* history: the messages
          starts,       \* history: the offsets of their first bytes
          latest        \* history: the last chunk and what on_read made of it

frontVars == << reversed, memory, typed >>
readVars == << offset, fault, latest >>

wireVars == << end, frontVars, stream, readVars, meant, sent, starts >>

\* What fscanf("%s") takes: a string of any length.
Typed == {s \in Seq(Byte) : \A i \in 1..Len(s) : s[i] # 0}

ASSUME WireAssumption ==
    /\ User \subseteq Typed /\ Owner \subseteq Typed /\ Secret \subseteq Typed
    /\ Line \subseteq Chars(MsgSize)
    /\ Stat \subseteq Chars(IntSize)

\* A message of no type that is sent.
NoMessage == create_chat_message(Word(4))

\* The three arrays fill 3 * NameSize bytes, in the order of their declarations or
\* in the opposite one; my_pswd is the one in the middle.
NameAt == IF reversed THEN 2 * NameSize ELSE 0
PswdAt == NameSize

my_name(bytes)     == Copy(bytes, NameAt, NameSize)
my_pswd(bytes)     == Copy(bytes, PswdAt, NameSize)
server_name(bytes) == Copy(bytes, 2 * NameSize - NameAt, NameSize)

WireInit ==
    /\ end \in {"client", "server"}
    /\ reversed \in (IF end = "client" THEN BOOLEAN ELSE {FALSE})
    /\ memory = Zeros(3 * NameSize)
    /\ typed = [name |-> << >>, pswd |-> << >>]
    /\ stream = << >> /\ offset = 0
    /\ fault = "none"
    /\ meant = << >> /\ sent = << >> /\ starts = << >>
    /\ latest = [at |-> 0, size |-> 0, msg |-> NoMessage]

-----------------------------------------------------------------------------
\* The sender's send_message and async_send: the whole buffer is written.
Write(msg, meaning) ==
    /\ fault = "none"
    /\ Len(sent) < MaxSent
    /\ stream' = stream \o Encoded(msg).buf
    /\ starts' = Append(starts, offset + Len(stream))
    /\ sent' = Append(sent, msg)
    /\ meant' = Append(meant, meaning)
    /\ UNCHANGED << end, readVars >>

\* A string in an array of its own that held nothing before; on the stack of
\* front_for_test_only, what goes past it is lost.
Fresh(string) == Scanned(Zeros(NameSize), 0, string)

TypeText(to, line) ==
    /\ end = "client"
    /\ Write(TextFrom(my_name(memory), Fresh(to), line),
             [what |-> "text", from |-> typed.name, to |-> to, pswd |-> typed.pswd])
    /\ UNCHANGED frontVars

\* Log in and registration both ask for the name first.
TypeCredentials(command, name, pswd) ==
    LET scanned == Scanned(Scanned(memory, NameAt, name), PswdAt, pswd)
    IN  /\ end = "client"
        /\ memory' = scanned
        /\ typed' = [name |-> name, pswd |-> pswd]
        /\ Write(Credentials(command, server_name(scanned), my_name(scanned), my_pswd(scanned)),
                 [what |-> "credentials", from |-> name, to |-> << >>, pswd |-> pswd])
        /\ UNCHANGED reversed

TypeLogOut ==
    /\ end = "client"
    /\ Write(LogOutOf(server_name(memory), my_name(memory)),
             [what |-> "log out", from |-> typed.name, to |-> << >>, pswd |-> typed.pswd])
    /\ UNCHANGED frontVars

\* The server writes to a client whose record holds its name padded with zeros.
Notify(to, about) ==
    /\ end = "server"
    /\ Write(NoticeFor(Fresh(to), Fresh(about)),
             [what |-> "notice", from |-> << >>, to |-> to, pswd |-> << >>])
    /\ UNCHANGED frontVars

Answer(to, stat) ==
    /\ end = "server"
    /\ Write(AnswerFor(Fresh(to), stat),
             [what |-> "answer", from |-> << >>, to |-> to, pswd |-> << >>])
    /\ UNCHANGED frontVars

\* A text that comes from another client is passed on as it was received.
Forward(from, to, line) ==
    /\ end = "server"
    /\ Write(TextFrom(Fresh(from), Fresh(to), line),
             [what |-> "text", from |-> from, to |-> to, pswd |-> << >>])
    /\ UNCHANGED frontVars

-----------------------------------------------------------------------------
\* Mutant: the buffer of the last chunk is used again as it is.
ReadReusing(n) ==
    LET chunk == SubSeq(stream, 1, n)
        buf == [i \in 1..Capacity(SYSTEM) |-> IF i <= n THEN chunk[i]
                                              ELSE IF latest.size < i THEN 0 ELSE 1]
    IN  /\ fault = "none"
        /\ stream' = SubSeq(stream, n + 1, Len(stream))
        /\ offset' = offset + n
        /\ fault' = ReadFault(buf)
        /\ latest' = IF fault' = "none"
                     THEN [at |-> offset, size |-> n, msg |-> Decoded(buf)] ELSE latest
        /\ UNCHANGED << end, frontVars, meant, sent, starts >>

\* on_read with nread = n: a message of its own from every chunk.
Read(n) ==
    LET buf == InBuffer(SubSeq(stream, 1, n))
    IN  /\ fault = "none"
        /\ stream' = SubSeq(stream, n + 1, Len(stream))
        /\ offset' = offset + n
        /\ fault' = ReadFault(buf)
        /\ latest' = IF fault' = "none"
                     THEN [at |-> offset, size |-> n, msg |-> Decoded(buf)] ELSE latest
        /\ UNCHANGED << end, frontVars, meant, sent, starts >>

-----------------------------------------------------------------------------
FrontEnd ==
    \/ \E to \in User, line \in Line : TypeText(to, line)
    \/ \E command \in {LOG_IN, REGISTR}, name \in User, pswd \in Secret :
          TypeCredentials(command, name, pswd)
    \/ TypeLogOut

Server ==
    \/ \E to \in Owner, about \in User : Notify(to, about)
    \/ \E to \in Owner, stat \in Stat : Answer(to, stat)
    \/ \E from \in User, to \in Owner, line \in Line : Forward(from, to, line)

Loop == \E n \in 1..Len(stream) : Read(n)

WireNext == FrontEnd \/ Server \/ Loop

WireSpec == WireInit /\ [][WireNext]_wireVars

-----------------------------------------------------------------------------
(* Properties                                                              *)

Total == offset + Len(stream)

\* The next call of on_read begins within a message.
Astray == Total # offset /\ \A i \in 1..Len(starts) : starts[i] # offset

\* The message the last chunk begins with; 0 if it begins within one.
Origin ==
    IF \E i \in 1..Len(starts) : starts[i] = latest.at
    THEN CHOOSE i \in 1..Len(starts) : starts[i] = latest.at ELSE 0

Whole == Origin # 0 /\ latest.size >= Capacity(sent[Origin].msg_type)

\* The variables have their types; every message filled its buffer exactly, so
\* fill_body wrote nothing behind it, and all of it went into the stream.
WireTypeOK ==
    /\ Len(sent) = Len(starts) /\ Len(sent) = Len(meant)
    /\ \A i \in 1..Len(sent) :
         /\ sent[i] \in Message
         /\ Encoded(sent[i]).size = Encoded(sent[i]).capacity
         /\ Capacity(sent[i].msg_type) = (IF i = Len(sent) THEN Total ELSE starts[i + 1]) - starts[i]
    /\ \A i \in 1..Len(stream) : stream[i] \in Byte
    /\ latest.size > 0 => latest.msg \in Message
    /\ fault \in {"none", "no handler", "null buffer"}

\* The first message in the stream that begins at offset or later.
NextSent ==
    CHOOSE j \in 1..(Len(starts) + 1) :
        /\ \A i \in 1..(j - 1) : starts[i] < offset
        /\ \A i \in j..Len(starts) : starts[i] >= offset

\* Bytes, buffers and chunks implement the channel: whole messages arrive
\* unchanged, in order and at most once; a message is lost only when it shares
\* a chunk with an earlier one or a chunk has cut one, and a call that begins
\* with a message gets it whatever went wrong before.
Ideal == INSTANCE Channel WITH
           Damaged <- NoMessage,
           next <- NextSent,
           astray <- Astray,
           got <- IF Whole THEN latest.msg ELSE NoMessage,
           dead <- fault # "none"

ImplementsChannel == Ideal!Spec

\* What a chunk of n bytes with which msg begins gives: the message, cut short.
CutTo(read, msg, n) ==
    LET whole == Encoded(msg).buf
    IN  /\ read.msg_type = msg.msg_type
        /\ Encoded(read).buf = [i \in 1..Len(whole) |-> IF i <= n THEN whole[i] ELSE 0]

\* A message that a chunk has cut keeps its type, so on_read finds its handler,
\* and all that arrived of it; the rest reads as zeros and never as bytes of
\* another message.
CutsOnlyTruncate ==
    latest.size > 0 /\ Origin # 0 => CutTo(latest.msg, sent[Origin], latest.size)

\* on_read ends the process only by a chunk that begins within a message, which
\* takes an earlier chunk that has ended there.
CrashNeedsStray ==
    fault # "none" => \A i \in 1..Len(starts) : starts[i] # latest.at + latest.size

\* The part of a string that a field holds.
Held(string) == SubSeq(string, 1, IF Len(string) < NameSize THEN Len(string) ELSE NameSize)

\* What is left of a name when the password has been typed after it: a password
\* that fills my_pswd goes on into the array behind it, with its terminator; that
\* is my_name when their order is turned.
NameLeft(turned, name, pswd) ==
    IF turned /\ Len(pswd) >= NameSize
    THEN Held(SubSeq(pswd, NameSize + 1, Len(pswd))) ELSE Held(name)

\* What the server takes out of a message is what was to be said, as far as the
\* fields hold it.  get_client reads a name that fills its field on into the body.
Says(turned, msg, said) ==
    /\ CString(msg.from) = NameLeft(turned, said.from, said.pswd)
    /\ said.what \in {"credentials", "log out"} =>
         CString(UserName(msg)) = NameLeft(turned, said.from, said.pswd)
    /\ said.what = "credentials" => CString(Password(msg)) = Held(said.pswd)
    /\ said.what \notin {"credentials", "log out"} =>
         Addressee(msg) = IF Len(said.to) < NameSize THEN said.to
                          ELSE Held(said.to) \o CString(msg.msg_body)

\* What arrives whole means at the server what the user typed last: the name and
\* the password, cut to their fields and without a trace of longer strings that
\* the arrays held before, and the name that is looked up as addressee.  The
\* exceptions are exactly two: where my_name lies behind my_pswd, a password that
\* fills its array replaces the name; and a name that fills the field of the
\* addressee is looked up together with the text.
NamesSurvive == latest.size > 0 /\ Whole => Says(reversed, latest.msg, meant[Origin])

-----------------------------------------------------------------------------
(* Why they hold: each message's bytes lie behind those of the messages    *)
(* before it, and those that were not read are in the stream.              *)

EndOf(i) == starts[i] + Capacity(sent[i].msg_type)

Meaning ==
    [what : {"text", "credentials", "log out", "notice", "answer"},
     from : Seq(Byte), to : Seq(Byte), pswd : Seq(Byte)]

Histories ==
    /\ Len(sent) = Len(starts) /\ Len(sent) = Len(meant)
    /\ \A i \in 1..Len(sent) :
         /\ sent[i] \in Message
         /\ Sendable(sent[i])
         /\ Says(reversed, sent[i], meant[i])

InTurn ==
    \A i \in 1..Len(sent) :
        /\ starts[i] \in Nat
        /\ EndOf(i) = IF i = Len(sent) THEN Total ELSE starts[i + 1]
        /\ EndOf(i) <= Total
        /\ \A j \in 1..Len(sent) : i < j => EndOf(i) <= starts[j]

Carried ==
    \A i \in 1..Len(sent) : \A k \in 1..Capacity(sent[i].msg_type) :
        starts[i] + k > offset => stream[(starts[i] + k) - offset] = Encoded(sent[i]).buf[k]

LatestRead ==
    /\ latest.at \in Nat /\ latest.size \in Nat
    /\ latest.size > 0 => latest.msg \in Message
    /\ latest.at + latest.size <= offset
    /\ fault = "none" => latest.at + latest.size = offset
    /\ \A i \in 1..Len(sent) : latest.size > 0 /\ starts[i] = latest.at =>
         /\ CutTo(latest.msg, sent[i], latest.size)
         /\ latest.size >= Capacity(sent[i].msg_type) => latest.msg = sent[i]

WireInductive ==
    /\ reversed \in BOOLEAN /\ memory \in Chars(3 * NameSize)
    /\ typed \in [name : Typed, pswd : Typed]
    /\ CString(my_name(memory)) = NameLeft(reversed, typed.name, typed.pswd)
    /\ stream \in Seq(Byte) /\ offset \in Nat
    /\ fault \in {"none", "no handler", "null buffer"}
    /\ sent \in Seq(Message) /\ starts \in Seq(Nat) /\ meant \in Seq(Meaning)
    /\ Histories
    /\ InTurn
    /\ Carried
    /\ LatestRead
    /\ CrashNeedsStray

=============================================================================
