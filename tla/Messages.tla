------------------------------ MODULE Messages ------------------------------
(***************************************************************************)
(* Messages and their bytes (src/inc/messages/messages.cpp), and the       *)
(* programs' functions that make and take them apart.  A char array of n   *)
(* elements is a sequence of n bytes; the fields of a chat_message_t are   *)
(* the bytes they have in memory, and a 64-bit number is little-endian     *)
(* (only its lowest byte is ever set).  The pointer of a char array at     *)
(* offset k is the pair of the array and k.                                *)
(***************************************************************************)
EXTENDS Naturals, Sequences

CONSTANTS Byte,         \* values of a char
          IntSize,      \* sizeof(MSG_TYPE), sizeof(COMMAND) and sizeof(ERR_STAT)
          IndexSize,    \* sizeof(int)
          NameSize,     \* NAME_SIZE and PSWD_SIZE
          MsgSize       \* MSG_SIZE

ASSUME MessagesAssumption ==
    /\ 0..8 \subseteq Byte
    /\ IntSize \in Nat /\ IndexSize \in 1..IntSize
    /\ NameSize \in Nat \ {0}
    /\ MsgSize \in Nat /\ MsgSize >= 2 * NameSize

Chars(n) == [1..n -> Byte]

Zeros(n) == [i \in 1..n |-> 0]

Word(k) == [i \in 1..IntSize |-> IF i = 1 THEN k ELSE 0]

\* MSG_TYPE, COMMAND and ERR_STAT, as far as messages with them are sent.
SYSTEM    == Word(0)
TXT_MSG   == Word(1)
BROADCAST == Word(2)
ERROR_MSG == Word(3)

LOG_IN  == Word(1)
LOG_OUT == Word(2)
REGISTR == Word(3)
ONLINE  == Word(4)

MsgType == {SYSTEM, TXT_MSG, BROADCAST, ERROR_MSG}

\* memcpy out of an array: the n bytes behind offset at.
Copy(bytes, at, n) == [i \in 1..n |-> bytes[at + i]]

\* strncpy: what comes before a terminator, filled up with zeros.
strncpy(bytes, n) ==
    [i \in 1..n |-> IF \A j \in 1..i : bytes[j] # 0 THEN bytes[i] ELSE 0]

\* The C string at the start of an array; without a terminator, all of it.
CString(bytes) ==
    LET inside == {n \in 0..Len(bytes) : \A i \in 1..n : bytes[i] # 0}
    IN  SubSeq(bytes, 1, CHOOSE n \in inside : \A k \in inside : k <= n)

-----------------------------------------------------------------------------
(* Buffers                                                                 *)

\* What goes past the capacity is written over the heap and is not kept here, but
\* counts in the size.
fill_body(buffer, source, n) ==
    [buffer EXCEPT !.buf = [i \in 1..buffer.capacity |->
                              IF buffer.size < i /\ i <= buffer.size + n
                              THEN source[i - buffer.size] ELSE buffer.buf[i]],
                   !.size = @ + n]

\* Bytes of a message: type, two names, a command or error code, and the body.
Capacity(type) ==
    IntSize + 2 * NameSize + MsgSize + (IF type \in {SYSTEM, ERROR_MSG} THEN IntSize ELSE 0)

\* Defined for the four types; NULL for others.
create_type_buffer(type) ==
    fill_body([buf |-> Zeros(Capacity(type)), type |-> type, size |-> 0,
               capacity |-> Capacity(type)], type, IntSize)

-----------------------------------------------------------------------------
(* Messages                                                                *)

Message ==
    [msg_type : MsgType, error_stat : Chars(IntSize), sys_command : Chars(IntSize),
     from : Chars(NameSize), to : Chars(NameSize), msg_body : Chars(MsgSize)]

\* Fields that are not sent with a type have their first value.
Sendable(msg) ==
    /\ msg.msg_type # SYSTEM => msg.sys_command = Word(0)
    /\ msg.msg_type # ERROR_MSG => msg.error_stat = Word(0)

create_chat_message(type) ==
    [msg_type |-> type, error_stat |-> Word(0), sys_command |-> Word(0),
     from |-> Zeros(NameSize), to |-> Zeros(NameSize), msg_body |-> Zeros(MsgSize)]

\* Mutant: the order of messages.h, sender first.
read_system_msg_from_first(msg, buf) ==
    [msg EXCEPT !.from        = Copy(buf, IntSize, NameSize),
                !.to          = Copy(buf, IntSize + NameSize, NameSize),
                !.sys_command = Copy(buf, IntSize + 2 * NameSize, IntSize),
                !.msg_body    = Copy(buf, 2 * IntSize + 2 * NameSize, MsgSize)]

read_system_msg(msg, buf) ==
    [msg EXCEPT !.to          = Copy(buf, IntSize, NameSize),
                !.from        = Copy(buf, IntSize + NameSize, NameSize),
                !.sys_command = Copy(buf, IntSize + 2 * NameSize, IntSize),
                !.msg_body    = Copy(buf, 2 * IntSize + 2 * NameSize, MsgSize)]

read_text_msg(msg, buf) ==
    [msg EXCEPT !.to       = Copy(buf, IntSize, NameSize),
                !.from     = Copy(buf, IntSize + NameSize, NameSize),
                !.msg_body = Copy(buf, IntSize + 2 * NameSize, MsgSize)]

read_broadcast_msg(msg, buf) == read_text_msg(msg, buf)

read_error_msg(msg, buf) ==
    [msg EXCEPT !.to         = Copy(buf, IntSize, NameSize),
                !.from       = Copy(buf, IntSize + NameSize, NameSize),
                !.error_stat = Copy(buf, IntSize + 2 * NameSize, IntSize),
                !.msg_body   = Copy(buf, 2 * IntSize + 2 * NameSize, MsgSize)]

\* msg.read_message: the handler at the place of the type in read_handlers.
read_message(msg, buf) ==
    CASE msg.msg_type = SYSTEM    -> read_system_msg(msg, buf)
      [] msg.msg_type = TXT_MSG   -> read_text_msg(msg, buf)
      [] msg.msg_type = BROADCAST -> read_broadcast_msg(msg, buf)
      [] msg.msg_type = ERROR_MSG -> read_error_msg(msg, buf)

Addressed(msg, buffer) ==
    fill_body(fill_body(buffer, msg.to, NameSize), msg.from, NameSize)

write_system_msg(msg, buffer) ==
    fill_body(fill_body(Addressed(msg, buffer), msg.sys_command, IntSize),
              msg.msg_body, MsgSize)

write_text_msg(msg, buffer) == fill_body(Addressed(msg, buffer), msg.msg_body, MsgSize)

write_broadcast_msg(msg, buffer) == write_text_msg(msg, buffer)

write_error_msg(msg, buffer) ==
    fill_body(fill_body(Addressed(msg, buffer), msg.error_stat, IntSize),
              msg.msg_body, MsgSize)

write_message(msg, buffer) ==
    CASE msg.msg_type = SYSTEM    -> write_system_msg(msg, buffer)
      [] msg.msg_type = TXT_MSG   -> write_text_msg(msg, buffer)
      [] msg.msg_type = BROADCAST -> write_broadcast_msg(msg, buffer)
      [] msg.msg_type = ERROR_MSG -> write_error_msg(msg, buffer)

\* Mutant: one size of buffer for all types.
EncodedInLargest(msg) ==
    LET buffer == create_type_buffer(SYSTEM)
    IN  write_message(msg, fill_body([buffer EXCEPT !.size = 0], msg.msg_type, IntSize))

\* send_message: the buffer whose capacity bytes go to call_async_write.
Encoded(msg) == write_message(msg, create_type_buffer(msg.msg_type))

-----------------------------------------------------------------------------
(* What arrives                                                            *)

\* alloc_cb gives each chunk of the stream a zeroed buffer of its own, of which
\* the handlers look at no more than the largest capacity.
InBuffer(chunk) ==
    [i \in 1..Capacity(SYSTEM) |-> IF i <= Len(chunk) THEN chunk[i] ELSE 0]

get_msg_type(buf) == Copy(buf, 0, IntSize)

\* Mutant: the last handler is out of bounds.
HandlerFoundBelow(type) ==
    \E k \in 0..2 : \A i \in 1..IndexSize : type[i] = Word(k)[i]

\* static_cast<int>(type) is the index of a handler.
HandlerFound(type) ==
    \E k \in 0..3 : \A i \in 1..IndexSize : type[i] = Word(k)[i]

\* create_chat_message asserts its index; a type that only looks like one of the
\* four after the cast gets no buffer.
ReadFault(buf) ==
    CASE ~HandlerFound(get_msg_type(buf)) -> "no handler"
      [] HandlerFound(get_msg_type(buf)) /\ get_msg_type(buf) \notin MsgType -> "null buffer"
      [] OTHER -> "none"

\* on_read, when it finds no fault.
Decoded(buf) == read_message(create_chat_message(get_msg_type(buf)), buf)

-----------------------------------------------------------------------------
(* What the front end makes                                                *)

\* fscanf("%s") with the pointer at offset at: the whole string and its terminator,
\* over what was there.  No width stops it at the end of an array.
Scanned(memory, at, string) ==
    [i \in DOMAIN memory |-> IF at < i /\ i <= at + Len(string) THEN string[i - at]
                             ELSE IF i = at + Len(string) + 1 THEN 0 ELSE memory[i]]

TextFrom(my_name, name, msg_body) ==
    LET addressed == fill_body(fill_body(create_type_buffer(TXT_MSG), name, NameSize),
                               my_name, NameSize)
    IN  read_message(create_chat_message(TXT_MSG),
                     fill_body(addressed, msg_body, MsgSize).buf)

\* The buffer of a command, up to the name with which its body begins.
CommandBuffer(command, server_name, my_name) ==
    LET addressed == fill_body(fill_body(create_type_buffer(SYSTEM), server_name, NameSize),
                               my_name, NameSize)
    IN  fill_body(fill_body(addressed, command, IntSize), my_name, NameSize)

\* Mutant: the terminated strings follow each other.
CredentialsPacked(command, server_name, my_name, my_pswd) ==
    LET buffer == CommandBuffer(command, server_name, my_name)
        packed == [buffer EXCEPT !.size = @ - NameSize + Len(CString(my_name)) + 1]
    IN  read_message(create_chat_message(SYSTEM), fill_body(packed, my_pswd, NameSize).buf)

\* LOG_IN and REGISTR
Credentials(command, server_name, my_name, my_pswd) ==
    read_message(create_chat_message(SYSTEM),
                 fill_body(CommandBuffer(command, server_name, my_name), my_pswd, NameSize).buf)

LogOutOf(server_name, my_name) ==
    read_message(create_chat_message(SYSTEM), CommandBuffer(LOG_OUT, server_name, my_name).buf)

-----------------------------------------------------------------------------
(* What the server makes, and what it understands                          *)

\* send_all_status_changed and send_online_list, for names as records hold them.
NoticeFor(to, about) ==
    [create_chat_message(SYSTEM) EXCEPT
        !.sys_command = ONLINE,
        !.to = strncpy(to, NameSize),
        !.msg_body = strncpy(about, NameSize) \o Zeros(MsgSize - NameSize)]

\* start_interface's answer to a request that failed.
AnswerFor(to, stat) ==
    [create_chat_message(ERROR_MSG) EXCEPT !.error_stat = stat, !.to = strncpy(to, NameSize)]

\* The name and the password that registr_client and log_in_client, and the name
\* that log_out_client, take from a body.
UserName(msg) == strncpy(msg.msg_body, NameSize)
Password(msg) == strncpy(Copy(msg.msg_body, NameSize, NameSize), NameSize)

\* What get_client hashes: the addressee, and, when that fills its field, the
\* body that follows it in a chat_message_t.
Addressee(msg) == CString(msg.to \o msg.msg_body)
=============================================================================
