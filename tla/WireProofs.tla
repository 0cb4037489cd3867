----------------------------- MODULE WireProofs -----------------------------
(***************************************************************************)
(* A connection is a channel, for every size of names, bodies and          *)
(* integers, every sequence of messages and every division of their bytes  *)
(* into chunks.  The first sections are about one message: its buffer is   *)
(* followed through the calls of fill_body (Filled says what one call      *)
(* leaves alone and what it adds, the Layout lemmas what is in the buffer  *)
(* in the end), and the readers copy the same places, also out of a chunk  *)
(* that has only the first bytes.  Then each message that the programs     *)
(* write is shown to say what was meant (Sound).  The last sections are    *)
(* about the stream: the inductive invariant is that messages lie behind   *)
(* each other and that what was not read of them is in the stream, and the *)
(* place of the next message in the channel is found by its offset.        *)
(***************************************************************************)
EXTENDS Wire, TLAPS, WellFoundedInduction

-----------------------------------------------------------------------------
(* Numbers                                                                 *)

\* Every nonempty set of numbers has a least one.
LEMMA LeastNumber ==
    ASSUME NEW S, S \subseteq Nat, S # {}
    PROVE  \E x \in S : \A y \in S : x <= y
<1>2. PICK x \in S : \A y \in S : ~(<<y, x>> \in OpToRel(<, Nat))
  BY NatLessThanWellFounded, WFMin
<1>3. ASSUME NEW y \in S
      PROVE  x <= y
  <2>1. x \in Nat /\ y \in Nat
    OBVIOUS
  <2>2. ~(y < x)
    BY <1>2, <2>1 DEF OpToRel
  <2> QED
    BY <2>1, <2>2
<1> QED
  BY <1>3

\* A bounded set of numbers has a greatest one.
LEMMA HasGreatest ==
    ASSUME NEW S \in SUBSET Nat, NEW e \in S, NEW n \in Nat, \A k \in S : k <= n
    PROVE  \E top \in S : \A k \in S : k <= top
<1> DEFINE rest == {d \in 0..n : n - d \in S}
<1>1. rest \subseteq Nat /\ n - e \in rest
  BY SMT
<1> HIDE DEF rest
<1>2. PICK least \in rest : \A m \in rest : least <= m
  BY <1>1, LeastNumber
<1> USE DEF rest
<1>3. n - least \in S
  BY <1>2
<1>4. \A k \in S : k <= n - least
  <2> TAKE k \in S
  <2>1. n - k \in rest
    BY SMT
  <2>2. least <= n - k
    BY <1>2, <2>1
  <2>3. least \in Nat /\ k \in Nat /\ n \in Nat
    BY <1>1, <1>2
  <2> QED
    BY <2>2, <2>3
<1> QED
  BY <1>3, <1>4

-----------------------------------------------------------------------------
(* Buffers                                                                 *)

Buffer(c) == [buf : Chars(c), type : MsgType, size : 0..c, capacity : {c}]

\* The bytes 0, 1, 2 and 3 in an integer tell the types apart.
LEMMA WordsDiffer ==
    ASSUME NEW j \in 0..8, NEW k \in 0..8, j # k
    PROVE  Word(j) # Word(k)
<1>1. 1 \in 1..IntSize
  BY MessagesAssumption, SMT
<1>2. Word(j)[1] = j /\ Word(k)[1] = k
  BY <1>1 DEF Word
<1> QED
  BY <1>2

LEMMA WordIsChars ==
    ASSUME NEW k \in 0..8
    PROVE  Word(k) \in Chars(IntSize)
BY MessagesAssumption DEF Word, Chars

LEMMA TypesAreWords == MsgType \subseteq Chars(IntSize)
BY WordIsChars DEF MsgType, SYSTEM, TXT_MSG, BROADCAST, ERROR_MSG

LEMMA Capacities ==
    ASSUME NEW type \in MsgType
    PROVE  /\ Capacity(type) \in Nat
           /\ type \in {SYSTEM, ERROR_MSG} =>
                 Capacity(type) = IntSize + NameSize + NameSize + IntSize + MsgSize
           /\ type \notin {SYSTEM, ERROR_MSG} =>
                 Capacity(type) = IntSize + NameSize + NameSize + MsgSize
           /\ Capacity(type) <= Capacity(SYSTEM)
           /\ Capacity(SYSTEM) \in Nat
BY MessagesAssumption, SMT DEF Capacity

\* fill_body keeps what is in the buffer and adds its source behind it.
LEMMA Filled ==
    ASSUME NEW c \in Nat, NEW b \in Buffer(c), NEW n \in Nat, NEW source \in Chars(n),
           b.size + n <= c
    PROVE  LET filled == fill_body(b, source, n)
           IN  /\ filled \in Buffer(c)
               /\ filled.size = b.size + n
               /\ filled.type = b.type
               /\ Copy(filled.buf, b.size, n) = source
               /\ \A at, k \in Nat : at + k <= b.size =>
                     Copy(filled.buf, at, k) = Copy(b.buf, at, k)
<1> DEFINE filled == fill_body(b, source, n)
           bytes == [i \in 1..b.capacity |-> IF b.size < i /\ i <= b.size + n
                                             THEN source[i - b.size] ELSE b.buf[i]]
<1>1. /\ b.size \in 0..c /\ b.capacity = c /\ b.buf \in Chars(c) /\ b.type \in MsgType
  BY DEF Buffer
<1>2. /\ filled.buf = bytes /\ filled.size = b.size + n
      /\ filled.type = b.type /\ filled.capacity = c
  <2>1. filled = [b EXCEPT !.buf = bytes, !.size = b.size + n]
    BY DEF fill_body
  <2> HIDE DEF filled, bytes
  <2> QED
    BY <2>1 DEF Buffer
<1>3. \A i \in 1..c : bytes[i] \in Byte
  BY <1>1, SMT DEF Chars
<1>4. bytes \in Chars(c)
  BY <1>1, <1>3 DEF Chars
<1>5. filled \in Buffer(c)
  <2>1. filled = [b EXCEPT !.buf = bytes, !.size = b.size + n]
    BY DEF fill_body
  <2>2. b.size + n \in 0..c
    BY <1>1, SMT
  <2> HIDE DEF filled, bytes
  <2> QED
    BY <1>4, <2>1, <2>2 DEF Buffer
<1>6. Copy(filled.buf, b.size, n) = source
  <2>1. \A i \in 1..n : bytes[b.size + i] = source[i]
    BY <1>1, SMT
  <2>2. source = [i \in 1..n |-> source[i]]
    BY DEF Chars
  <2> QED
    BY <1>2, <2>1, <2>2 DEF Copy
<1>7. ASSUME NEW at \in Nat, NEW k \in Nat, at + k <= b.size
      PROVE  Copy(filled.buf, at, k) = Copy(b.buf, at, k)
  <2>1. \A i \in 1..k : bytes[at + i] = b.buf[at + i]
    BY <1>1, <1>7, SMT
  <2> QED
    BY <1>2, <2>1 DEF Copy
<1> QED
  BY <1>2, <1>5, <1>6, <1>7

LEMMA Created ==
    ASSUME NEW type \in MsgType
    PROVE  LET b == create_type_buffer(type)
           IN  /\ b \in Buffer(Capacity(type))
               /\ b.size = IntSize
               /\ Copy(b.buf, 0, IntSize) = type
<1> DEFINE c == Capacity(type)
           empty == [buf |-> Zeros(c), type |-> type, size |-> 0, capacity |-> c]
<1>1. c \in Nat /\ 0 + IntSize <= c /\ IntSize \in Nat
  BY Capacities, MessagesAssumption, SMT
<1>2. 0 \in Byte
  BY MessagesAssumption
<1>3. empty \in Buffer(c)
  BY <1>1, <1>2 DEF Buffer, Zeros, Chars
<1>4. type \in Chars(IntSize)
  BY TypesAreWords
<1>5. create_type_buffer(type) = fill_body(empty, type, IntSize)
  BY DEF create_type_buffer
<1> HIDE DEF c, empty
<1>6. empty.size = 0
  BY DEF empty
<1> QED
  BY <1>1, <1>3, <1>4, <1>5, <1>6, Filled DEF c

\* Type and names are at the front of every buffer.
LEMMA AddressedLayout ==
    ASSUME NEW msg \in Message
    PROVE  LET b == Addressed(msg, create_type_buffer(msg.msg_type))
           IN  /\ b \in Buffer(Capacity(msg.msg_type))
               /\ b.size = IntSize + NameSize + NameSize
               /\ Copy(b.buf, 0, IntSize) = msg.msg_type
               /\ Copy(b.buf, IntSize, NameSize) = msg.to
               /\ Copy(b.buf, IntSize + NameSize, NameSize) = msg.from
<1> DEFINE c == Capacity(msg.msg_type)
           b0 == create_type_buffer(msg.msg_type)
           b1 == fill_body(b0, msg.to, NameSize)
           b2 == fill_body(b1, msg.from, NameSize)
<1>1. /\ msg.msg_type \in MsgType
      /\ msg.to \in Chars(NameSize) /\ msg.from \in Chars(NameSize)
  BY DEF Message
<1>2. /\ c \in Nat /\ IntSize + NameSize + NameSize <= c
      /\ IntSize \in Nat /\ NameSize \in Nat
  BY <1>1, Capacities, MessagesAssumption, SMT
<1>3. b0 \in Buffer(c) /\ b0.size = IntSize /\ Copy(b0.buf, 0, IntSize) = msg.msg_type
  BY <1>1, Created
<1> HIDE DEF c, b0
<1>4. /\ b1 \in Buffer(c) /\ b1.size = IntSize + NameSize
      /\ Copy(b1.buf, 0, IntSize) = msg.msg_type
      /\ Copy(b1.buf, IntSize, NameSize) = msg.to
  <2>1. b0.size + NameSize <= c /\ 0 + IntSize <= b0.size /\ 0 \in Nat
    BY <1>2, <1>3, SMT
  <2> HIDE DEF b1
  <2> QED
    BY <1>1, <1>2, <1>3, <2>1, Filled DEF b1
<1> HIDE DEF b1
<1>5. /\ b2 \in Buffer(c) /\ b2.size = IntSize + NameSize + NameSize
      /\ Copy(b2.buf, 0, IntSize) = msg.msg_type
      /\ Copy(b2.buf, IntSize, NameSize) = msg.to
      /\ Copy(b2.buf, IntSize + NameSize, NameSize) = msg.from
  <2>1. /\ b1.size + NameSize <= c /\ 0 + IntSize <= b1.size /\ 0 \in Nat
        /\ IntSize + NameSize <= b1.size
    BY <1>2, <1>4, SMT
  <2> HIDE DEF b2
  <2> QED
    BY <1>1, <1>2, <1>4, <2>1, Filled DEF b2
<1> QED
  BY <1>5 DEF Addressed, b1, b0, c

\* The bytes of a message whose type has neither command nor error code.
Short(msg) == msg.msg_type \in {TXT_MSG, BROADCAST}

Extra(msg) == IF msg.msg_type = SYSTEM THEN msg.sys_command ELSE msg.error_stat

LEMMA TypesDiffer ==
    /\ SYSTEM # TXT_MSG /\ SYSTEM # BROADCAST /\ SYSTEM # ERROR_MSG
    /\ TXT_MSG # BROADCAST /\ TXT_MSG # ERROR_MSG /\ BROADCAST # ERROR_MSG
BY WordsDiffer DEF SYSTEM, TXT_MSG, BROADCAST, ERROR_MSG

LEMMA ShortLayout ==
    ASSUME NEW msg \in Message, Short(msg)
    PROVE  LET b == Encoded(msg)
           IN  /\ b \in Buffer(Capacity(msg.msg_type))
               /\ b.size = Capacity(msg.msg_type)
               /\ Copy(b.buf, 0, IntSize) = msg.msg_type
               /\ Copy(b.buf, IntSize, NameSize) = msg.to
               /\ Copy(b.buf, IntSize + NameSize, NameSize) = msg.from
               /\ Copy(b.buf, IntSize + 2 * NameSize, MsgSize) = msg.msg_body
<1> DEFINE c == Capacity(msg.msg_type)
           b2 == Addressed(msg, create_type_buffer(msg.msg_type))
           b3 == fill_body(b2, msg.msg_body, MsgSize)
<1>1. msg.msg_type \in MsgType /\ msg.msg_body \in Chars(MsgSize)
  BY DEF Message
<1>2. /\ c \in Nat /\ c = IntSize + NameSize + NameSize + MsgSize
      /\ IntSize \in Nat /\ NameSize \in Nat /\ MsgSize \in Nat
      /\ 2 * NameSize = NameSize + NameSize
  BY <1>1, Capacities, TypesDiffer, MessagesAssumption, SMT DEF Short
<1>3. /\ b2 \in Buffer(c)
      /\ b2.size = IntSize + NameSize + NameSize
      /\ Copy(b2.buf, 0, IntSize) = msg.msg_type
      /\ Copy(b2.buf, IntSize, NameSize) = msg.to
      /\ Copy(b2.buf, IntSize + NameSize, NameSize) = msg.from
  BY AddressedLayout
<1>4. Encoded(msg) = b3
  BY TypesDiffer DEF Encoded, write_message, write_text_msg, write_broadcast_msg, Short
<1> HIDE DEF c, b2
<1>5. /\ b3 \in Buffer(c) /\ b3.size = c
      /\ Copy(b3.buf, 0, IntSize) = msg.msg_type
      /\ Copy(b3.buf, IntSize, NameSize) = msg.to
      /\ Copy(b3.buf, IntSize + NameSize, NameSize) = msg.from
      /\ Copy(b3.buf, IntSize + 2 * NameSize, MsgSize) = msg.msg_body
  <2>1. /\ b2.size + MsgSize <= c /\ b2.size + MsgSize = c
        /\ 0 + IntSize <= b2.size /\ 0 \in Nat
        /\ IntSize + NameSize <= b2.size /\ IntSize + NameSize \in Nat
        /\ (IntSize + NameSize) + NameSize <= b2.size
        /\ IntSize + 2 * NameSize = b2.size
    BY <1>2, <1>3, SMT
  <2> HIDE DEF b3
  <2> QED
    BY <1>1, <1>2, <1>3, <2>1, Filled DEF b3
<1> QED
  BY <1>4, <1>5 DEF c

LEMMA LongLayout ==
    ASSUME NEW msg \in Message, ~Short(msg)
    PROVE  LET b == Encoded(msg)
           IN  /\ b \in Buffer(Capacity(msg.msg_type))
               /\ b.size = Capacity(msg.msg_type)
               /\ Copy(b.buf, 0, IntSize) = msg.msg_type
               /\ Copy(b.buf, IntSize, NameSize) = msg.to
               /\ Copy(b.buf, IntSize + NameSize, NameSize) = msg.from
               /\ Copy(b.buf, IntSize + 2 * NameSize, IntSize) = Extra(msg)
               /\ Copy(b.buf, 2 * IntSize + 2 * NameSize, MsgSize) = msg.msg_body
<1> DEFINE c == Capacity(msg.msg_type)
           b2 == Addressed(msg, create_type_buffer(msg.msg_type))
           b3 == fill_body(b2, Extra(msg), IntSize)
           b4 == fill_body(b3, msg.msg_body, MsgSize)
<1>1. /\ msg.msg_type \in MsgType /\ msg.msg_body \in Chars(MsgSize)
      /\ Extra(msg) \in Chars(IntSize)
  BY DEF Message, Extra
<1>2. msg.msg_type \in {SYSTEM, ERROR_MSG}
  BY <1>1 DEF MsgType, Short
<1>3. /\ c \in Nat /\ c = IntSize + NameSize + NameSize + IntSize + MsgSize
      /\ IntSize \in Nat /\ NameSize \in Nat /\ MsgSize \in Nat
  BY <1>1, <1>2, Capacities, MessagesAssumption, SMT
<1>4. /\ b2 \in Buffer(c)
      /\ b2.size = IntSize + NameSize + NameSize
      /\ Copy(b2.buf, 0, IntSize) = msg.msg_type
      /\ Copy(b2.buf, IntSize, NameSize) = msg.to
      /\ Copy(b2.buf, IntSize + NameSize, NameSize) = msg.from
  BY AddressedLayout
<1>5. Encoded(msg) = b4
  BY <1>2, TypesDiffer DEF Encoded, write_message, write_system_msg, write_error_msg, Extra
<1> HIDE DEF c, b2
<1>6. /\ b3 \in Buffer(c) /\ b3.size = IntSize + 2 * NameSize + IntSize
      /\ Copy(b3.buf, 0, IntSize) = msg.msg_type
      /\ Copy(b3.buf, IntSize, NameSize) = msg.to
      /\ Copy(b3.buf, IntSize + NameSize, NameSize) = msg.from
      /\ Copy(b3.buf, IntSize + 2 * NameSize, IntSize) = Extra(msg)
  <2>1. /\ b2.size + IntSize <= c /\ b2.size = IntSize + 2 * NameSize
        /\ 0 + IntSize <= b2.size /\ 0 \in Nat
        /\ IntSize + NameSize <= b2.size /\ IntSize + NameSize \in Nat
        /\ (IntSize + NameSize) + NameSize <= b2.size
    BY <1>3, <1>4, SMT
  <2> HIDE DEF b3
  <2> QED
    BY <1>1, <1>3, <1>4, <2>1, Filled DEF b3
<1> HIDE DEF b3
<1>7. /\ b4 \in Buffer(c) /\ b4.size = c
      /\ Copy(b4.buf, 0, IntSize) = msg.msg_type
      /\ Copy(b4.buf, IntSize, NameSize) = msg.to
      /\ Copy(b4.buf, IntSize + NameSize, NameSize) = msg.from
      /\ Copy(b4.buf, IntSize + 2 * NameSize, IntSize) = Extra(msg)
      /\ Copy(b4.buf, 2 * IntSize + 2 * NameSize, MsgSize) = msg.msg_body
  <2>1. /\ b3.size + MsgSize <= c /\ b3.size + MsgSize = c
        /\ 0 + IntSize <= b3.size /\ 0 \in Nat
        /\ IntSize + NameSize <= b3.size /\ IntSize + NameSize \in Nat
        /\ (IntSize + NameSize) + NameSize <= b3.size
        /\ IntSize + 2 * NameSize \in Nat
        /\ (IntSize + 2 * NameSize) + IntSize <= b3.size
        /\ 2 * IntSize + 2 * NameSize = b3.size
    BY <1>3, <1>6, SMT
  <2> HIDE DEF b4
  <2>2. /\ b4 \in Buffer(c) /\ b4.size = b3.size + MsgSize
        /\ Copy(b4.buf, b3.size, MsgSize) = msg.msg_body
        /\ \A at, k \in Nat : at + k <= b3.size => Copy(b4.buf, at, k) = Copy(b3.buf, at, k)
    BY <1>1, <1>3, <1>6, <2>1, Filled DEF b4
  <2>3. /\ Copy(b4.buf, 0, IntSize) = Copy(b3.buf, 0, IntSize)
        /\ Copy(b4.buf, IntSize, NameSize) = Copy(b3.buf, IntSize, NameSize)
        /\ Copy(b4.buf, IntSize + NameSize, NameSize) = Copy(b3.buf, IntSize + NameSize, NameSize)
        /\ Copy(b4.buf, IntSize + 2 * NameSize, IntSize)
             = Copy(b3.buf, IntSize + 2 * NameSize, IntSize)
    BY <1>3, <2>1, <2>2
  <2> QED
    BY <1>6, <2>1, <2>2, <2>3
<1> QED
  BY <1>5, <1>7 DEF c, b3

-----------------------------------------------------------------------------
(* Reading                                                                 *)

\* A buffer into which all of a message's bytes were put, whatever follows them.
Holds(buf, b, c) == \A i \in 1..c : buf[i] = b.buf[i]

LEMMA SameCopies ==
    ASSUME NEW buf, NEW b, NEW c \in Nat, Holds(buf, b, c),
           NEW at \in Nat, NEW k \in Nat, at + k <= c
    PROVE  Copy(buf, at, k) = Copy(b.buf, at, k)
<1>1. \A i \in 1..k : at + i \in 1..c
  OBVIOUS
<1> QED
  BY <1>1 DEF Copy, Holds

LEMMA ChunkHolds ==
    ASSUME NEW msg \in Message, NEW rest \in Seq(Byte)
    PROVE  Holds(InBuffer(Encoded(msg).buf \o rest), Encoded(msg), Capacity(msg.msg_type))
<1> DEFINE c == Capacity(msg.msg_type)
           bytes == Encoded(msg).buf
<1>1. Encoded(msg) \in Buffer(c)
  BY ShortLayout, LongLayout
<1>2. bytes \in Chars(c) /\ c \in Nat /\ c <= Capacity(SYSTEM) /\ Capacity(SYSTEM) \in Nat
  BY <1>1, Capacities DEF Buffer, Message
<1> HIDE DEF c, bytes
<1>3. bytes \in Seq(Byte) /\ Len(bytes) = c
  BY <1>2 DEF Chars
<1>4. \A i \in 1..c : (bytes \o rest)[i] = bytes[i] /\ i <= Len(bytes \o rest)
  BY <1>2, <1>3
<1>5. \A i \in 1..c : InBuffer(bytes \o rest)[i] = bytes[i]
  BY <1>2, <1>4 DEF InBuffer
<1> QED
  BY <1>5 DEF Holds, c, bytes

\* Two messages with the same fields are the same.
LEMMA SameFields ==
    ASSUME NEW m \in Message, NEW n \in Message,
           m.msg_type = n.msg_type, m.error_stat = n.error_stat,
           m.sys_command = n.sys_command, m.from = n.from, m.to = n.to,
           m.msg_body = n.msg_body
    PROVE  m = n
BY DEF Message

\* A buffer that begins with a message's bytes gives the message.
LEMMA ReadsBack ==
    ASSUME NEW msg \in Message, Sendable(msg), NEW buf,
           Holds(buf, Encoded(msg), Capacity(msg.msg_type))
    PROVE  /\ get_msg_type(buf) = msg.msg_type
           /\ ReadFault(buf) = "none"
           /\ Decoded(buf) = msg
<1> DEFINE c == Capacity(msg.msg_type)
           new == create_chat_message(msg.msg_type)
<1>1. msg.msg_type \in MsgType
  BY DEF Message
<1>2. Holds(buf, Encoded(msg), c)
  OBVIOUS
<1>3. /\ c \in Nat /\ IntSize \in Nat /\ NameSize \in Nat /\ MsgSize \in Nat
      /\ c = IntSize + NameSize + NameSize + (IF Short(msg) THEN 0 ELSE IntSize) + MsgSize
  BY <1>1, Capacities, TypesDiffer, MessagesAssumption, SMT DEF Short, MsgType
<1> HIDE DEF c
<1>4. /\ Copy(buf, 0, IntSize) = msg.msg_type
      /\ Copy(buf, IntSize, NameSize) = msg.to
      /\ Copy(buf, IntSize + NameSize, NameSize) = msg.from
  <2>1. /\ Copy(Encoded(msg).buf, 0, IntSize) = msg.msg_type
        /\ Copy(Encoded(msg).buf, IntSize, NameSize) = msg.to
        /\ Copy(Encoded(msg).buf, IntSize + NameSize, NameSize) = msg.from
    BY ShortLayout, LongLayout
  <2>2. /\ 0 \in Nat /\ 0 + IntSize <= c /\ IntSize + NameSize <= c
        /\ IntSize + NameSize \in Nat /\ (IntSize + NameSize) + NameSize <= c
    BY <1>3, SMT
  <2>3. /\ Copy(buf, 0, IntSize) = Copy(Encoded(msg).buf, 0, IntSize)
        /\ Copy(buf, IntSize, NameSize) = Copy(Encoded(msg).buf, IntSize, NameSize)
        /\ Copy(buf, IntSize + NameSize, NameSize)
             = Copy(Encoded(msg).buf, IntSize + NameSize, NameSize)
    BY <1>2, <1>3, <2>2, SameCopies
  <2> QED
    BY <2>1, <2>3
<1>5. get_msg_type(buf) = msg.msg_type
  BY <1>4 DEF get_msg_type
<1>6. HandlerFound(msg.msg_type)
  BY <1>1 DEF HandlerFound, MsgType, SYSTEM, TXT_MSG, BROADCAST, ERROR_MSG
<1>7. ReadFault(buf) = "none"
  BY <1>1, <1>5, <1>6 DEF ReadFault
<1>8. new \in Message
  BY <1>1, WordIsChars, MessagesAssumption DEF create_chat_message, Message, Chars, Zeros
<1>9. /\ new.msg_type = msg.msg_type /\ new.sys_command = Word(0) /\ new.error_stat = Word(0)
  BY DEF create_chat_message
<1>10. Decoded(buf) = read_message(new, buf)
  BY <1>5 DEF Decoded
<1> HIDE DEF new
<1>11. /\ msg.to \in Chars(NameSize) /\ msg.from \in Chars(NameSize)
       /\ msg.msg_body \in Chars(MsgSize)
       /\ msg.error_stat \in Chars(IntSize) /\ msg.sys_command \in Chars(IntSize)
  BY DEF Message
<1>12. CASE Short(msg)
  <2>1. Copy(buf, IntSize + 2 * NameSize, MsgSize) = msg.msg_body
    <3>1. IntSize + 2 * NameSize \in Nat /\ (IntSize + 2 * NameSize) + MsgSize <= c
      BY <1>3, <1>12, SMT
    <3> QED
      BY <1>2, <1>3, <1>12, <3>1, SameCopies, ShortLayout
  <2>2. read_message(new, buf) = read_text_msg(new, buf)
    BY <1>9, <1>12, TypesDiffer DEF read_message, read_broadcast_msg, Short
  <2>3. read_text_msg(new, buf) = [new EXCEPT !.to = msg.to, !.from = msg.from,
                                              !.msg_body = msg.msg_body]
    BY <1>4, <2>1 DEF read_text_msg
  <2>4. msg.sys_command = Word(0) /\ msg.error_stat = Word(0)
    BY <1>12, TypesDiffer DEF Sendable, Short
  <2>5. read_text_msg(new, buf) \in Message
    BY <1>8, <1>11, <2>3 DEF Message
  <2>6. LET m == read_text_msg(new, buf)
        IN  /\ m.msg_type = new.msg_type /\ m.error_stat = new.error_stat
            /\ m.sys_command = new.sys_command
            /\ m.from = msg.from /\ m.to = msg.to /\ m.msg_body = msg.msg_body
    BY <1>8, <2>3 DEF Message
  <2> QED
    BY <1>5, <1>7, <1>9, <1>10, <2>2, <2>4, <2>5, <2>6, SameFields
<1>13. CASE msg.msg_type = SYSTEM
  <2>1. /\ Copy(buf, IntSize + 2 * NameSize, IntSize) = msg.sys_command
        /\ Copy(buf, 2 * IntSize + 2 * NameSize, MsgSize) = msg.msg_body
    <3>1. /\ IntSize + 2 * NameSize \in Nat /\ (IntSize + 2 * NameSize) + IntSize <= c
          /\ 2 * IntSize + 2 * NameSize \in Nat /\ (2 * IntSize + 2 * NameSize) + MsgSize <= c
      BY <1>3, <1>13, TypesDiffer, SMT DEF Short
    <3>2. ~Short(msg) /\ Extra(msg) = msg.sys_command
      BY <1>13, TypesDiffer DEF Short, Extra
    <3>3. /\ Copy(Encoded(msg).buf, IntSize + 2 * NameSize, IntSize) = msg.sys_command
          /\ Copy(Encoded(msg).buf, 2 * IntSize + 2 * NameSize, MsgSize) = msg.msg_body
      BY <3>2, LongLayout
    <3> QED
      BY <1>2, <1>3, <3>1, <3>3, SameCopies
  <2>2. read_message(new, buf) = read_system_msg(new, buf)
    BY <1>9, <1>13, TypesDiffer DEF read_message
  <2>3. read_system_msg(new, buf) = [new EXCEPT !.to = msg.to, !.from = msg.from,
                                                !.sys_command = msg.sys_command,
                                                !.msg_body = msg.msg_body]
    BY <1>4, <2>1 DEF read_system_msg
  <2>4. msg.error_stat = Word(0)
    BY <1>13, TypesDiffer DEF Sendable
  <2>5. read_system_msg(new, buf) \in Message
    BY <1>8, <1>11, <2>3 DEF Message
  <2>6. LET m == read_system_msg(new, buf)
        IN  /\ m.msg_type = new.msg_type /\ m.error_stat = new.error_stat
            /\ m.sys_command = msg.sys_command
            /\ m.from = msg.from /\ m.to = msg.to /\ m.msg_body = msg.msg_body
    BY <1>8, <2>3 DEF Message
  <2> QED
    BY <1>5, <1>7, <1>9, <1>10, <2>2, <2>4, <2>5, <2>6, SameFields
<1>14. CASE msg.msg_type = ERROR_MSG
  <2>1. /\ Copy(buf, IntSize + 2 * NameSize, IntSize) = msg.error_stat
        /\ Copy(buf, 2 * IntSize + 2 * NameSize, MsgSize) = msg.msg_body
    <3>1. /\ IntSize + 2 * NameSize \in Nat /\ (IntSize + 2 * NameSize) + IntSize <= c
          /\ 2 * IntSize + 2 * NameSize \in Nat /\ (2 * IntSize + 2 * NameSize) + MsgSize <= c
      BY <1>3, <1>14, TypesDiffer, SMT DEF Short
    <3>2. ~Short(msg) /\ Extra(msg) = msg.error_stat
      BY <1>14, TypesDiffer DEF Short, Extra
    <3>3. /\ Copy(Encoded(msg).buf, IntSize + 2 * NameSize, IntSize) = msg.error_stat
          /\ Copy(Encoded(msg).buf, 2 * IntSize + 2 * NameSize, MsgSize) = msg.msg_body
      BY <3>2, LongLayout
    <3> QED
      BY <1>2, <1>3, <3>1, <3>3, SameCopies
  <2>2. read_message(new, buf) = read_error_msg(new, buf)
    BY <1>9, <1>14, TypesDiffer DEF read_message
  <2>3. read_error_msg(new, buf) = [new EXCEPT !.to = msg.to, !.from = msg.from,
                                               !.error_stat = msg.error_stat,
                                               !.msg_body = msg.msg_body]
    BY <1>4, <2>1 DEF read_error_msg
  <2>4. msg.sys_command = Word(0)
    BY <1>14, TypesDiffer DEF Sendable
  <2>5. read_error_msg(new, buf) \in Message
    BY <1>8, <1>11, <2>3 DEF Message
  <2>6. LET m == read_error_msg(new, buf)
        IN  /\ m.msg_type = new.msg_type /\ m.error_stat = msg.error_stat
            /\ m.sys_command = new.sys_command
            /\ m.from = msg.from /\ m.to = msg.to /\ m.msg_body = msg.msg_body
    BY <1>8, <2>3 DEF Message
  <2> QED
    BY <1>5, <1>7, <1>9, <1>10, <2>2, <2>4, <2>5, <2>6, SameFields
<1> QED
  BY <1>1, <1>5, <1>7, <1>12, <1>13, <1>14 DEF MsgType, Short

\* A chunk of the stream that begins with a message gives that message back,
\* whatever the sizes are and whatever follows: on_read finds its handler and
\* its buffer, and every field has the value it was written with.
THEOREM ReadAfterWrite ==
    ASSUME NEW msg \in Message, Sendable(msg), NEW rest \in Seq(Byte)
    PROVE  LET buf == InBuffer(Encoded(msg).buf \o rest)
           IN  /\ ReadFault(buf) = "none"
               /\ Decoded(buf) = msg
BY ChunkHolds, ReadsBack

\* The handlers' assertion "msg read overlaping" and the bytes handed to uv_write:
\* writing a message fills exactly the buffer of its type, for every type.
THEOREM BuffersAreFilled ==
    ASSUME NEW msg \in Message
    PROVE  /\ Encoded(msg).size = Encoded(msg).capacity
           /\ Encoded(msg).buf \in Chars(Capacity(msg.msg_type))
<1>1. /\ Encoded(msg) \in Buffer(Capacity(msg.msg_type))
      /\ Encoded(msg).size = Capacity(msg.msg_type)
  BY ShortLayout, LongLayout
<1> QED
  BY <1>1 DEF Buffer

-----------------------------------------------------------------------------
(* Names                                                                   *)

-----------------------------------------------------------------------------
(* Reading what was cut                                                    *)

LEMMA Sizes ==
    /\ IntSize \in Nat /\ 1 <= IntSize /\ NameSize \in Nat /\ 1 <= NameSize
    /\ MsgSize \in Nat /\ NameSize + NameSize <= MsgSize
    /\ 2 * NameSize = NameSize + NameSize /\ 2 * IntSize = IntSize + IntSize
    /\ 0 \in Byte
BY MessagesAssumption, SMT

LEMMA CopyIsChars ==
    ASSUME NEW c \in Nat, NEW buf \in Chars(c), NEW at \in Nat, NEW n \in Nat, at + n <= c
    PROVE  Copy(buf, at, n) \in Chars(n)
<1>1. \A i \in 1..n : at + i \in 1..c
  OBVIOUS
<1> QED
  BY <1>1 DEF Copy, Chars

\* Buffers with the same copy have the same bytes there.
LEMMA CopyGives ==
    ASSUME NEW a, NEW b, NEW at \in Nat, NEW n \in Nat, Copy(a, at, n) = Copy(b, at, n),
           NEW i \in Nat, at < i, i <= at + n
    PROVE  a[i] = b[i]
<1>1. i - at \in 1..n /\ at + (i - at) = i
  OBVIOUS
<1>2. Copy(a, at, n)[i - at] = a[at + (i - at)] /\ Copy(b, at, n)[i - at] = b[at + (i - at)]
  BY <1>1 DEF Copy
<1> QED
  BY <1>1, <1>2

LEMMA EmptyMessage ==
    ASSUME NEW type \in MsgType
    PROVE  /\ create_chat_message(type) \in Message
           /\ create_chat_message(type).msg_type = type
           /\ create_chat_message(type).sys_command = Word(0)
           /\ create_chat_message(type).error_stat = Word(0)
BY WordIsChars, MessagesAssumption DEF create_chat_message, Message, Chars, Zeros

\* The fields of a message are the places of the buffer that its type reads.
LEMMA DecodedFields ==
    ASSUME NEW buf \in Chars(Capacity(SYSTEM)), get_msg_type(buf) \in MsgType
    PROVE  LET msg == Decoded(buf)
           IN  /\ msg \in Message
               /\ Sendable(msg)
               /\ msg.msg_type = get_msg_type(buf)
               /\ msg.to = Copy(buf, IntSize, NameSize)
               /\ msg.from = Copy(buf, IntSize + NameSize, NameSize)
               /\ Short(msg) => msg.msg_body = Copy(buf, IntSize + 2 * NameSize, MsgSize)
               /\ ~Short(msg) =>
                    /\ Extra(msg) = Copy(buf, IntSize + 2 * NameSize, IntSize)
                    /\ msg.msg_body = Copy(buf, 2 * IntSize + 2 * NameSize, MsgSize)
<1> DEFINE type == get_msg_type(buf)
           new == create_chat_message(type)
           to == Copy(buf, IntSize, NameSize)
           from == Copy(buf, IntSize + NameSize, NameSize)
           near == Copy(buf, IntSize + 2 * NameSize, MsgSize)
           extra == Copy(buf, IntSize + 2 * NameSize, IntSize)
           far == Copy(buf, 2 * IntSize + 2 * NameSize, MsgSize)
<1>1. /\ to \in Chars(NameSize) /\ from \in Chars(NameSize)
      /\ near \in Chars(MsgSize) /\ far \in Chars(MsgSize) /\ extra \in Chars(IntSize)
  <2>1. /\ Capacity(SYSTEM) \in Nat
        /\ Capacity(SYSTEM) = IntSize + NameSize + NameSize + IntSize + MsgSize
    BY Capacities DEF MsgType
  <2>2. /\ IntSize + NameSize <= Capacity(SYSTEM)
        /\ IntSize + NameSize \in Nat
        /\ (IntSize + NameSize) + NameSize <= Capacity(SYSTEM)
        /\ IntSize + 2 * NameSize \in Nat
        /\ (IntSize + 2 * NameSize) + MsgSize <= Capacity(SYSTEM)
        /\ (IntSize + 2 * NameSize) + IntSize <= Capacity(SYSTEM)
        /\ 2 * IntSize + 2 * NameSize \in Nat
        /\ (2 * IntSize + 2 * NameSize) + MsgSize <= Capacity(SYSTEM)
    BY <2>1, Sizes, SMT
  <2> QED
    BY <2>1, <2>2, Sizes, CopyIsChars
<1>2. /\ type \in MsgType /\ new \in Message /\ new.msg_type = type
      /\ new.sys_command = Word(0) /\ new.error_stat = Word(0)
  BY EmptyMessage
<1>3. Decoded(buf) = read_message(new, buf)
  BY DEF Decoded
<1> HIDE DEF type, new, to, from, near, extra, far
<1>4. CASE type \in {TXT_MSG, BROADCAST}
  <2>1. Decoded(buf) = [new EXCEPT !.to = to, !.from = from, !.msg_body = near]
    <3>1. Decoded(buf) = read_text_msg(new, buf)
      BY <1>2, <1>3, <1>4, TypesDiffer DEF read_message, read_broadcast_msg
    <3> QED
      BY <3>1 DEF read_text_msg, to, from, near
  <2>2. /\ Decoded(buf) \in Message
        /\ Decoded(buf).msg_type = type /\ Decoded(buf).to = to
        /\ Decoded(buf).from = from /\ Decoded(buf).msg_body = near
        /\ Decoded(buf).sys_command = Word(0) /\ Decoded(buf).error_stat = Word(0)
    BY <1>1, <1>2, <2>1 DEF Message
  <2>3. Short(Decoded(buf)) /\ Sendable(Decoded(buf))
    BY <1>4, <2>2 DEF Short, Sendable
  <2> QED
    BY <2>2, <2>3 DEF to, from, near, type
<1>5. CASE type = SYSTEM
  <2>1. Decoded(buf) = [new EXCEPT !.to = to, !.from = from, !.sys_command = extra,
                                   !.msg_body = far]
    <3>1. Decoded(buf) = read_system_msg(new, buf)
      BY <1>2, <1>3, <1>5, TypesDiffer DEF read_message
    <3> QED
      BY <3>1 DEF read_system_msg, to, from, extra, far
  <2>2. /\ Decoded(buf) \in Message
        /\ Decoded(buf).msg_type = type /\ Decoded(buf).to = to
        /\ Decoded(buf).from = from /\ Decoded(buf).sys_command = extra
        /\ Decoded(buf).msg_body = far /\ Decoded(buf).error_stat = Word(0)
    BY <1>1, <1>2, <2>1 DEF Message
  <2>3. ~Short(Decoded(buf)) /\ Extra(Decoded(buf)) = extra /\ Sendable(Decoded(buf))
    BY <1>5, <2>2, TypesDiffer DEF Short, Extra, Sendable
  <2> QED
    BY <2>2, <2>3 DEF to, from, extra, far, type
<1>6. CASE type = ERROR_MSG
  <2>1. Decoded(buf) = [new EXCEPT !.to = to, !.from = from, !.error_stat = extra,
                                   !.msg_body = far]
    <3>1. Decoded(buf) = read_error_msg(new, buf)
      BY <1>2, <1>3, <1>6, TypesDiffer DEF read_message
    <3> QED
      BY <3>1 DEF read_error_msg, to, from, extra, far
  <2>2. /\ Decoded(buf) \in Message
        /\ Decoded(buf).msg_type = type /\ Decoded(buf).to = to
        /\ Decoded(buf).from = from /\ Decoded(buf).error_stat = extra
        /\ Decoded(buf).msg_body = far /\ Decoded(buf).sys_command = Word(0)
    BY <1>1, <1>2, <2>1 DEF Message
  <2>3. ~Short(Decoded(buf)) /\ Extra(Decoded(buf)) = extra /\ Sendable(Decoded(buf))
    BY <1>6, <2>2, TypesDiffer DEF Short, Extra, Sendable
  <2> QED
    BY <2>2, <2>3 DEF to, from, extra, far, type
<1> QED
  BY <1>2, <1>4, <1>5, <1>6 DEF MsgType

\* A message that was read from any bytes whose type has a handler is written with
\* the same bytes: readers and writers agree on every offset, for every type.
THEOREM WriteAfterRead ==
    ASSUME NEW buf \in Chars(Capacity(SYSTEM)), get_msg_type(buf) \in MsgType
    PROVE  /\ Decoded(buf) \in Message
           /\ Decoded(buf).msg_type = get_msg_type(buf)
           /\ Holds(buf, Encoded(Decoded(buf)), Capacity(get_msg_type(buf)))
<1> DEFINE msg == Decoded(buf)
           bytes == Encoded(msg).buf
           c == Capacity(msg.msg_type)
<1>1. /\ msg \in Message
      /\ msg.msg_type = get_msg_type(buf)
      /\ msg.to = Copy(buf, IntSize, NameSize)
      /\ msg.from = Copy(buf, IntSize + NameSize, NameSize)
      /\ Short(msg) => msg.msg_body = Copy(buf, IntSize + 2 * NameSize, MsgSize)
      /\ ~Short(msg) =>
           /\ Extra(msg) = Copy(buf, IntSize + 2 * NameSize, IntSize)
           /\ msg.msg_body = Copy(buf, 2 * IntSize + 2 * NameSize, MsgSize)
  BY DecodedFields
<1> HIDE DEF msg
<1>2. /\ Copy(bytes, 0, IntSize) = Copy(buf, 0, IntSize)
      /\ Copy(bytes, IntSize, NameSize) = Copy(buf, IntSize, NameSize)
      /\ Copy(bytes, IntSize + NameSize, NameSize) = Copy(buf, IntSize + NameSize, NameSize)
  BY <1>1, ShortLayout, LongLayout DEF get_msg_type
<1>3. /\ c \in Nat
      /\ c = IntSize + NameSize + NameSize + (IF Short(msg) THEN 0 ELSE IntSize) + MsgSize
  <2>1. msg.msg_type \in MsgType
    BY <1>1
  <2> QED
    BY <2>1, Capacities, TypesDiffer, MessagesAssumption, SMT DEF Short, MsgType
<1>4. Short(msg) => Copy(bytes, IntSize + 2 * NameSize, MsgSize)
                    = Copy(buf, IntSize + 2 * NameSize, MsgSize)
  BY <1>1, ShortLayout
<1>5. ~Short(msg) =>
        /\ Copy(bytes, IntSize + 2 * NameSize, IntSize)
             = Copy(buf, IntSize + 2 * NameSize, IntSize)
        /\ Copy(bytes, 2 * IntSize + 2 * NameSize, MsgSize)
             = Copy(buf, 2 * IntSize + 2 * NameSize, MsgSize)
  BY <1>1, LongLayout
<1> HIDE DEF bytes, c
<1>6. ASSUME NEW i \in 1..c PROVE buf[i] = bytes[i]
  <2>1. i \in Nat /\ 0 < i
    BY <1>3
  <2>2. CASE i <= IntSize
    <3>1. 0 \in Nat /\ i <= 0 + IntSize
      BY <2>2, Sizes
    <3> QED
      BY <1>2, <2>1, <3>1, Sizes, CopyGives
  <2>3. CASE IntSize < i /\ i <= IntSize + NameSize
    BY <1>2, <2>1, <2>3, Sizes, CopyGives
  <2>4. CASE IntSize + NameSize < i /\ i <= IntSize + 2 * NameSize
    <3>1. IntSize + NameSize \in Nat /\ i <= (IntSize + NameSize) + NameSize
      BY <2>1, <2>4, Sizes
    <3> QED
      BY <1>2, <2>1, <2>4, <3>1, Sizes, CopyGives
  <2>5. CASE IntSize + 2 * NameSize < i
    <3>1. IntSize + 2 * NameSize \in Nat
      BY Sizes
    <3>2. CASE Short(msg)
      <4>1. i <= (IntSize + 2 * NameSize) + MsgSize
        BY <1>3, <3>2, Sizes
      <4> QED
        BY <1>4, <2>1, <2>5, <3>1, <3>2, <4>1, Sizes, CopyGives
    <3>3. CASE ~Short(msg) /\ i <= 2 * IntSize + 2 * NameSize
      <4>1. i <= (IntSize + 2 * NameSize) + IntSize
        BY <2>1, <3>3, Sizes
      <4> QED
        BY <1>5, <2>1, <2>5, <3>1, <3>3, <4>1, Sizes, CopyGives
    <3>4. CASE ~Short(msg) /\ 2 * IntSize + 2 * NameSize < i
      <4>1. /\ i <= (2 * IntSize + 2 * NameSize) + MsgSize
            /\ 2 * IntSize + 2 * NameSize \in Nat
        BY <1>3, <3>4, Sizes
      <4> QED
        BY <1>5, <2>1, <3>4, <4>1, Sizes, CopyGives
    <3> QED
      BY <2>1, <3>1, <3>2, <3>3, <3>4, Sizes
  <2> QED
    BY <2>1, <2>2, <2>3, <2>4, <2>5, Sizes
<1> QED
  BY <1>1, <1>6 DEF Holds, msg, bytes, c

LEMMA HandlersFind ==
    ASSUME NEW buf, get_msg_type(buf) \in MsgType
    PROVE  ReadFault(buf) = "none"
<1>1. HandlerFound(get_msg_type(buf))
  BY DEF HandlerFound, MsgType, SYSTEM, TXT_MSG, BROADCAST, ERROR_MSG
<1> QED
  BY <1>1 DEF ReadFault

LEMMA InBufferIs ==
    ASSUME NEW chunk \in Seq(Byte)
    PROVE  /\ InBuffer(chunk) \in Chars(Capacity(SYSTEM))
           /\ \A i \in 1..Capacity(SYSTEM) :
                 InBuffer(chunk)[i] = IF i <= Len(chunk) THEN chunk[i] ELSE 0
<1>1. Capacity(SYSTEM) \in Nat
  BY Capacities DEF MsgType
<1>2. \A i \in 1..Capacity(SYSTEM) : i <= Len(chunk) => chunk[i] \in Byte
  BY <1>1, SMT
<1> QED
  BY <1>1, <1>2, Sizes DEF InBuffer, Chars

\* Any chunk that begins with the first n bytes of a message finds its handler and
\* gives the message cut to n bytes, and all of it when n is long enough.
LEMMA ChunkIsCut ==
    ASSUME NEW msg \in Message, Sendable(msg), NEW chunk \in Seq(Byte), Len(chunk) > 0,
           \A k \in 1..Capacity(msg.msg_type) : k <= Len(chunk) => chunk[k] = Encoded(msg).buf[k]
    PROVE  LET buf == InBuffer(chunk)
           IN  /\ ReadFault(buf) = "none"
               /\ Decoded(buf) \in Message
               /\ CutTo(Decoded(buf), msg, Len(chunk))
               /\ Len(chunk) >= Capacity(msg.msg_type) => Decoded(buf) = msg
<1> DEFINE c == Capacity(msg.msg_type)
           whole == Encoded(msg).buf
           buf == InBuffer(chunk)
           n == Len(chunk)
<1>1. /\ msg.msg_type \in MsgType /\ c \in Nat /\ IntSize <= c /\ c <= Capacity(SYSTEM)
      /\ Capacity(SYSTEM) \in Nat
  <2>1. msg.msg_type \in MsgType
    BY DEF Message
  <2> QED
    BY <2>1, Capacities, Sizes, SMT
<1>2. whole \in Chars(c) /\ Copy(whole, 0, IntSize) = msg.msg_type
  BY BuffersAreFilled, ShortLayout, LongLayout
<1>3. /\ buf \in Chars(Capacity(SYSTEM))
      /\ \A i \in 1..c : buf[i] = IF i <= n THEN whole[i] ELSE 0
  <2>1. /\ buf \in Chars(Capacity(SYSTEM))
        /\ \A i \in 1..Capacity(SYSTEM) : buf[i] = IF i <= n THEN chunk[i] ELSE 0
    BY InBufferIs
  <2> HIDE DEF buf, whole, n
  <2>2. \A i \in 1..c : i \in 1..Capacity(SYSTEM)
    BY <1>1, SMT
  <2>3. \A k \in 1..c : k <= n => chunk[k] = whole[k]
    BY DEF whole, n
  <2> QED
    BY <2>1, <2>2, <2>3
<1>4. n \in Nat /\ n > 0
  OBVIOUS
<1> HIDE DEF c, whole, buf, n
<1>5. get_msg_type(buf) = msg.msg_type
  <2>1. \A i \in 1..IntSize : buf[i] = whole[i]
    <3> TAKE i \in 1..IntSize
    <3>1. i \in 1..c /\ i \in Nat
      BY <1>1, Sizes
    <3>2. whole[i] = msg.msg_type[i]
      <4>1. Copy(whole, 0, IntSize)[i] = whole[0 + i]
        BY DEF Copy
      <4> QED
        BY <1>2, <3>1, <4>1
    <3>3. CASE i <= n
      BY <1>3, <3>1, <3>3
    <3>4. CASE i > n
      <4>1. i # 1 /\ ~(i <= n)
        BY <1>4, <3>1, <3>4
      <4>2. msg.msg_type[i] = 0
        BY <1>1, <4>1 DEF MsgType, SYSTEM, TXT_MSG, BROADCAST, ERROR_MSG, Word
      <4> QED
        BY <1>3, <3>1, <3>2, <4>1, <4>2
    <3> QED
      BY <1>4, <3>1, <3>3, <3>4
  <2>2. Copy(buf, 0, IntSize) = Copy(whole, 0, IntSize)
    <3>1. \A i \in 1..IntSize : 0 + i = i
      OBVIOUS
    <3> QED
      BY <2>1, <3>1 DEF Copy
  <2> QED
    BY <1>2, <2>2 DEF get_msg_type
<1>6. ReadFault(buf) = "none"
  BY <1>1, <1>5, HandlersFind
<1>7. /\ Decoded(buf) \in Message
      /\ Decoded(buf).msg_type = msg.msg_type
      /\ Holds(buf, Encoded(Decoded(buf)), c)
  BY <1>1, <1>3, <1>5, WriteAfterRead DEF c
<1>8. CutTo(Decoded(buf), msg, n)
  <2> DEFINE again == Encoded(Decoded(buf)).buf
             short == [i \in 1..c |-> IF i <= n THEN whole[i] ELSE 0]
  <2>1. again \in Chars(c)
    BY <1>7, BuffersAreFilled DEF c
  <2>2. \A i \in 1..c : again[i] = buf[i]
    BY <1>7 DEF Holds
  <2>3. Len(whole) = c
    BY <1>1, <1>2 DEF Chars
  <2>4. again = short
    <3> HIDE DEF again
    <3>1. again = [i \in 1..c |-> again[i]]
      BY <2>1 DEF Chars
    <3>2. \A i \in 1..c : again[i] = IF i <= n THEN whole[i] ELSE 0
      BY <1>3, <2>2
    <3> QED
      BY <3>1, <3>2
  <2> QED
    BY <1>7, <2>3, <2>4 DEF CutTo, whole
<1>9. n >= c => Decoded(buf) = msg
  <2> HAVE n >= c
  <2>1. \A i \in 1..c : i <= n
    BY <1>1, <1>4
  <2>2. \A i \in 1..c : buf[i] = whole[i]
    BY <1>3, <2>1
  <2>3. Holds(buf, Encoded(msg), c)
    BY <2>2 DEF Holds, whole
  <2> QED
    BY <2>3, ReadsBack DEF c
<1> QED
  BY <1>6, <1>7, <1>8, <1>9 DEF buf, n, c

-----------------------------------------------------------------------------
(* What the programs write                                                 *)

LEMMA ZerosAreChars ==
    ASSUME NEW n \in Nat
    PROVE  Zeros(n) \in Chars(n)
BY Sizes DEF Zeros, Chars

LEMMA CharsAreSeq ==
    ASSUME NEW n \in Nat, NEW bytes \in Chars(n)
    PROVE  bytes \in Seq(Byte) /\ Len(bytes) = n
BY DEF Chars

\* strncpy does not change which C string an array holds.
LEMMA SameString ==
    ASSUME NEW n \in Nat, NEW bytes \in Chars(n)
    PROVE  CString(strncpy(bytes, n)) = CString(bytes)
<1> DEFINE copy == strncpy(bytes, n)
           inside(s) == {k \in 0..n : \A i \in 1..k : s[i] # 0}
           longest(s) == CHOOSE k \in inside(s) : \A m \in inside(s) : m <= k
<1>1. copy \in Chars(n) /\ \A i \in 1..n : copy[i] \in {0, bytes[i]}
  BY Sizes DEF strncpy, Chars
<1>2. Len(bytes) = n /\ Len(copy) = n
  BY <1>1, CharsAreSeq
<1>3. ASSUME NEW k \in 0..n
      PROVE  /\ (\A i \in 1..k : bytes[i] # 0) => \A i \in 1..k : copy[i] = bytes[i]
             /\ (\A i \in 1..k : copy[i] # 0) => \A i \in 1..k : bytes[i] # 0
  <2>1. \A i \in 1..k : i \in 1..n /\ \A j \in 1..i : j \in 1..k
    OBVIOUS
  <2>2. ASSUME \A i \in 1..k : bytes[i] # 0, NEW i \in 1..k PROVE copy[i] = bytes[i]
    BY <2>1, <2>2 DEF strncpy
  <2>3. ASSUME \A i \in 1..k : copy[i] # 0, NEW i \in 1..k PROVE bytes[i] # 0
    BY <1>1, <2>1, <2>3
  <2> QED
    BY <2>2, <2>3
<1> HIDE DEF copy
<1>4. inside(copy) = inside(bytes)
  BY <1>3
<1>5. /\ CString(bytes) = SubSeq(bytes, 1, longest(bytes))
      /\ CString(copy) = SubSeq(copy, 1, longest(bytes))
  <2>1. CString(bytes) = SubSeq(bytes, 1, longest(bytes))
    BY <1>2 DEF CString
  <2>2. CString(copy) = SubSeq(copy, 1, longest(copy))
    BY <1>2 DEF CString
  <2>3. longest(copy) = longest(bytes)
    BY <1>4
  <2> QED
    BY <2>1, <2>2, <2>3
<1>6. PICK top \in inside(bytes) : \A k \in inside(bytes) : k <= top
  <2>1. inside(bytes) \subseteq Nat /\ 0 \in inside(bytes) /\ \A k \in inside(bytes) : k <= n
    BY SMT
  <2> HIDE DEF inside
  <2> QED
    BY <2>1, HasGreatest
<1>7. longest(bytes) \in inside(bytes)
  <2> HIDE DEF inside
  <2> QED
    BY <1>6
<1> HIDE DEF longest
<1>8. /\ longest(bytes) \in 0..n
      /\ \A i \in 1..longest(bytes) : copy[i] = bytes[i]
  BY <1>3, <1>7
<1>9. bytes \in Seq(Byte) /\ copy \in Seq(Byte)
  BY <1>1, CharsAreSeq
<1>10. SubSeq(copy, 1, longest(bytes)) = SubSeq(bytes, 1, longest(bytes))
  BY <1>2, <1>8, <1>9
<1> QED
  BY <1>5, <1>10 DEF copy

-----------------------------------------------------------------------------
(* Strings                                                                 *)

\* A string ends at the first zero.
LEMMA StringEnds ==
    ASSUME NEW bytes \in Seq(Byte), NEW n \in 0..Len(bytes),
           \A i \in 1..n : bytes[i] # 0,
           n < Len(bytes) => bytes[n + 1] = 0
    PROVE  CString(bytes) = SubSeq(bytes, 1, n)
<1> DEFINE inside == {k \in 0..Len(bytes) : \A i \in 1..k : bytes[i] # 0}
           longest == CHOOSE k \in inside : \A m \in inside : m <= k
<1>1. n \in inside
  OBVIOUS
<1>2. \A k \in inside : k <= n
  <2>1. SUFFICES ASSUME NEW k \in inside, k > n PROVE FALSE
    BY SMT
  <2>2. n + 1 \in 1..k /\ n < Len(bytes)
    BY <2>1, SMT
  <2> QED
    BY <2>1, <2>2
<1>3. inside \subseteq Nat
  BY SMT
<1> HIDE DEF inside
<1>4. longest \in inside /\ \A k \in inside : k <= longest
  BY <1>1, <1>2
<1> HIDE DEF longest
<1>5. longest = n
  <2>1. longest <= n /\ n <= longest
    BY <1>1, <1>2, <1>4
  <2>2. longest \in Nat /\ n \in Nat
    BY <1>3, <1>4
  <2> QED
    BY <2>1, <2>2, SMT
<1> QED
  BY <1>5 DEF CString, inside, longest

\* Every array has its first zero, or none.
LEMMA StringHasEnd ==
    ASSUME NEW bytes \in Seq(Byte)
    PROVE  \E n \in 0..Len(bytes) :
              /\ \A i \in 1..n : bytes[i] # 0
              /\ n < Len(bytes) => bytes[n + 1] = 0
              /\ CString(bytes) = SubSeq(bytes, 1, n)
<1> DEFINE inside == {k \in 0..Len(bytes) : \A i \in 1..k : bytes[i] # 0}
<1>1. PICK n \in inside : \A k \in inside : k <= n
  <2>1. /\ inside \in SUBSET Nat /\ 0 \in inside /\ Len(bytes) \in Nat
        /\ \A k \in inside : k <= Len(bytes)
    BY SMT
  <2> HIDE DEF inside
  <2> QED
    BY <2>1, HasGreatest
<1>2. n \in 0..Len(bytes) /\ \A i \in 1..n : bytes[i] # 0
  OBVIOUS
<1>3. ASSUME n < Len(bytes), bytes[n + 1] # 0 PROVE FALSE
  <2>1. n + 1 \in 0..Len(bytes) /\ \A i \in 1..(n + 1) : i \in 1..n \/ i = n + 1
    BY <1>2, <1>3
  <2>2. n + 1 \in inside
    BY <1>2, <1>3, <2>1
  <2>3. n + 1 <= n
    BY <1>1, <2>2
  <2> QED
    BY <1>2, <2>3
<1> QED
  BY <1>2, <1>3, StringEnds

\* A string that fills its array is read on into the next.
LEMMA StringJoins ==
    ASSUME NEW front \in Seq(Byte), NEW back \in Seq(Byte),
           \A i \in 1..Len(front) : front[i] # 0
    PROVE  CString(front \o back) = front \o CString(back)
<1> DEFINE all == front \o back
<1>1. PICK n \in 0..Len(back) :
              /\ \A i \in 1..n : back[i] # 0
              /\ n < Len(back) => back[n + 1] = 0
              /\ CString(back) = SubSeq(back, 1, n)
  BY StringHasEnd
<1> DEFINE m == Len(front) + n
<1>2. /\ all \in Seq(Byte) /\ Len(all) = Len(front) + Len(back)
      /\ m \in 0..Len(all)
      /\ \A i \in 1..Len(front) : all[i] = front[i]
      /\ \A i \in 1..Len(back) : all[Len(front) + i] = back[i]
  OBVIOUS
<1>3. \A i \in 1..m : all[i] # 0
  <2> TAKE i \in 1..m
  <2>1. CASE i \in 1..Len(front)
    BY <1>2, <2>1
  <2>2. CASE i \notin 1..Len(front)
    <3>1. i - Len(front) \in 1..n /\ Len(front) + (i - Len(front)) = i
      BY <2>2
    <3>2. i - Len(front) \in 1..Len(back)
      BY <3>1
    <3> QED
      BY <1>1, <1>2, <3>1, <3>2
  <2> QED
    BY <2>1, <2>2
<1>4. m < Len(all) => all[m + 1] = 0
  <2> HAVE m < Len(all)
  <2>1. n < Len(back) /\ n + 1 \in 1..Len(back) /\ Len(front) + (n + 1) = m + 1
    BY <1>2
  <2> QED
    BY <1>1, <1>2, <2>1
<1> HIDE DEF m, all
<1>5. CString(all) = SubSeq(all, 1, m)
  BY <1>2, <1>3, <1>4, StringEnds
<1>6. SubSeq(all, 1, m) = front \o SubSeq(back, 1, n)
  BY <1>2 DEF m, all
<1> QED
  BY <1>1, <1>5, <1>6 DEF all

-----------------------------------------------------------------------------
(* Names                                                                   *)

LEMMA HeldIs ==
    ASSUME NEW s \in Typed
    PROVE  /\ Held(s) \in Seq(Byte) /\ s \in Seq(Byte) /\ Len(s) \in Nat
           /\ Len(Held(s)) <= NameSize /\ Len(Held(s)) <= Len(s)
           /\ Len(s) < NameSize => Held(s) = s
           /\ ~(Len(s) < NameSize) => Len(Held(s)) = NameSize
           /\ \A i \in 1..Len(Held(s)) : Held(s)[i] = s[i] /\ s[i] # 0
<1>1. s \in Seq(Byte) /\ Len(s) \in Nat /\ \A i \in 1..Len(s) : s[i] # 0
  BY DEF Typed
<1> DEFINE n == IF Len(s) < NameSize THEN Len(s) ELSE NameSize
<1>2. n \in Nat /\ n <= NameSize /\ n <= Len(s) /\ \A i \in 1..n : i \in 1..Len(s)
  BY <1>1, Sizes
<1>3. Held(s) = SubSeq(s, 1, n)
  BY DEF Held
<1>4. /\ SubSeq(s, 1, n) \in Seq(Byte) /\ Len(SubSeq(s, 1, n)) = n
      /\ \A i \in 1..n : SubSeq(s, 1, n)[i] = s[i]
  <2> HIDE DEF n
  <2> QED
    BY <1>1, <1>2
<1>5. Len(s) < NameSize => SubSeq(s, 1, Len(s)) = s
  BY <1>1
<1> QED
  BY <1>1, <1>2, <1>3, <1>4, <1>5

LEMMA ScannedIs ==
    ASSUME NEW c \in Nat, NEW memory_ \in Chars(c), NEW at \in Nat, at + NameSize <= c,
           NEW s \in Typed
    PROVE  LET field == Copy(Scanned(memory_, at, s), at, NameSize)
           IN  /\ Scanned(memory_, at, s) \in Chars(c)
               /\ field \in Chars(NameSize)
               /\ \A i \in 1..Len(Held(s)) : field[i] = Held(s)[i] /\ field[i] # 0
               /\ Len(s) < NameSize => field[Len(s) + 1] = 0
<1> DEFINE scanned == Scanned(memory_, at, s)
           field == Copy(scanned, at, NameSize)
<1>1. s \in Seq(Byte) /\ Len(s) \in Nat
  BY HeldIs
<1>2. DOMAIN memory_ = 1..c /\ \A i \in 1..c : memory_[i] \in Byte
  BY DEF Chars
<1>3. scanned \in Chars(c)
  <2>1. ASSUME NEW i \in 1..c, at < i, i <= at + Len(s) PROVE s[i - at] \in Byte
    <3>1. i - at \in 1..Len(s)
      BY <1>1, <2>1
    <3> QED
      BY <1>1, <3>1
  <2> QED
    BY <1>2, <2>1, Sizes DEF Scanned, Chars
<1>4. ASSUME NEW i \in 1..NameSize
      PROVE  /\ field[i] = scanned[at + i] /\ at + i \in 1..c
             /\ i <= Len(s) => field[i] = s[i]
             /\ i = Len(s) + 1 => field[i] = 0
  <2>1. at + i \in 1..c /\ at < at + i /\ (at + i) - at = i
    BY Sizes
  <2>2. field[i] = scanned[at + i]
    BY DEF Copy
  <2>3. /\ i <= Len(s) => at + i <= at + Len(s)
        /\ i = Len(s) + 1 => ~(at + i <= at + Len(s)) /\ at + i = at + Len(s) + 1
    BY <1>1
  <2> QED
    BY <1>2, <2>1, <2>2, <2>3 DEF Scanned
<1>5. field \in Chars(NameSize)
  BY <1>3, Sizes, CopyIsChars
<1> HIDE DEF field, scanned
<1>6. \A i \in 1..Len(Held(s)) : field[i] = Held(s)[i] /\ field[i] # 0
  <2> TAKE i \in 1..Len(Held(s))
  <2>1. i \in 1..NameSize /\ i <= Len(s)
    BY HeldIs, Sizes
  <2> QED
    BY <1>4, <2>1, HeldIs
<1>7. Len(s) < NameSize => field[Len(s) + 1] = 0
  <2> HAVE Len(s) < NameSize
  <2>1. Len(s) + 1 \in 1..NameSize
    BY <1>1, Sizes
  <2> QED
    BY <1>4, <2>1
<1> QED
  BY <1>3, <1>5, <1>6, <1>7 DEF field, scanned

\* A name of any length that was typed over any other, wherever its array lies:
\* the first NameSize characters of it are the name that a log in, a registration
\* or a log out takes from the body.  As the addressee of a text it is looked up
\* whole if it is shorter than that, and together with the text if it is not.
THEOREM NamesAreKept ==
    ASSUME NEW c \in Nat, NEW memory_ \in Chars(c), NEW at \in Nat, at + NameSize <= c,
           NEW s \in Typed, NEW body \in Chars(MsgSize)
    PROVE  LET field == Copy(Scanned(memory_, at, s), at, NameSize)
           IN  /\ CString(field) = Held(s)
               /\ CString(strncpy(field, NameSize)) = Held(s)
               /\ CString(field \o body) = IF Len(s) < NameSize THEN s
                                           ELSE Held(s) \o CString(body)
<1> DEFINE field == Copy(Scanned(memory_, at, s), at, NameSize)
           n == Len(Held(s))
<1>1. /\ field \in Chars(NameSize)
      /\ \A i \in 1..n : field[i] = Held(s)[i] /\ field[i] # 0
      /\ Len(s) < NameSize => field[Len(s) + 1] = 0
  BY ScannedIs
<1>2. /\ Held(s) \in Seq(Byte) /\ n \in Nat /\ n <= NameSize
      /\ Len(s) < NameSize => Held(s) = s
      /\ ~(Len(s) < NameSize) => n = NameSize
  BY HeldIs
<1> HIDE DEF field
<1>3. field \in Seq(Byte) /\ Len(field) = NameSize /\ body \in Seq(Byte) /\ Len(body) = MsgSize
  BY <1>1, Sizes, CharsAreSeq
<1>4. SubSeq(field, 1, n) = Held(s)
  BY <1>1, <1>2, <1>3
<1>5. CString(field) = Held(s)
  <2>1. n \in 0..Len(field) /\ (n < Len(field) => field[n + 1] = 0)
    BY <1>1, <1>2, <1>3
  <2> QED
    BY <1>1, <1>3, <1>4, <2>1, StringEnds
<1>6. CASE Len(s) < NameSize
  <2>1. n = Len(s) /\ Held(s) = s
    BY <1>2, <1>6
  <2>2. /\ field \o body \in Seq(Byte) /\ n \in 0..Len(field \o body)
        /\ \A i \in 1..NameSize : (field \o body)[i] = field[i]
        /\ \A i \in 1..(n + 1) : i \in 1..NameSize
        /\ n + 1 \in 1..NameSize
    BY <1>2, <1>3, <1>6, <2>1, Sizes
  <2>3. /\ \A i \in 1..n : (field \o body)[i] # 0
        /\ (field \o body)[n + 1] = 0
    <3>1. \A i \in 1..n : i \in 1..NameSize
      BY <1>2, Sizes
    <3> QED
      BY <1>1, <1>6, <2>1, <2>2, <3>1
  <2>4. CString(field \o body) = SubSeq(field \o body, 1, n)
    BY <2>2, <2>3, StringEnds
  <2>5. SubSeq(field \o body, 1, n) = SubSeq(field, 1, n)
    BY <1>2, <1>3
  <2> QED
    BY <1>1, <1>4, <1>5, <1>6, <2>1, <2>4, <2>5, Sizes, SameString DEF field
<1>7. CASE ~(Len(s) < NameSize)
  <2>1. n = NameSize /\ Held(s) = field
    BY <1>2, <1>3, <1>4, <1>7
  <2>2. CString(field \o body) = field \o CString(body)
    BY <1>1, <1>3, <2>1, StringJoins
  <2> QED
    BY <1>1, <1>5, <1>7, <2>1, <2>2, Sizes, SameString DEF field
<1> QED
  BY <1>6, <1>7

\* A field that was empty and has a typed string.
LEMMA FreshIs ==
    ASSUME NEW s \in Typed
    PROVE  /\ Fresh(s) \in Chars(NameSize)
           /\ CString(Fresh(s)) = Held(s)
           /\ strncpy(Fresh(s), NameSize) = Fresh(s)
           /\ \A body \in Chars(MsgSize) :
                CString(Fresh(s) \o body) = IF Len(s) < NameSize THEN s
                                            ELSE Held(s) \o CString(body)
<1>1. Zeros(NameSize) \in Chars(NameSize) /\ NameSize \in Nat /\ 0 \in Nat /\ 0 + NameSize <= NameSize
  BY Sizes, ZerosAreChars
<1>2. Fresh(s) \in Chars(NameSize)
  BY <1>1, ScannedIs DEF Fresh
<1>3. Copy(Fresh(s), 0, NameSize) = Fresh(s)
  <2>1. \A i \in 1..NameSize : 0 + i = i
    BY Sizes
  <2> QED
    BY <1>2, <2>1 DEF Copy, Chars
<1>4. \A body \in Chars(MsgSize) :
        /\ CString(Fresh(s)) = Held(s)
        /\ CString(Fresh(s) \o body) = IF Len(s) < NameSize THEN s
                                       ELSE Held(s) \o CString(body)
  BY <1>1, <1>3, NamesAreKept DEF Fresh
<1>5. Zeros(MsgSize) \in Chars(MsgSize)
  BY Sizes, ZerosAreChars
<1>6. \A i \in 1..NameSize : strncpy(Fresh(s), NameSize)[i] = Fresh(s)[i]
  <2> TAKE i \in 1..NameSize
  <2>1. s \in Seq(Byte) /\ Len(s) \in Nat /\ i \in Nat /\ \A j \in 1..Len(s) : s[j] # 0
    BY Sizes DEF Typed
  <2>2. ASSUME NEW j \in 1..NameSize
        PROVE  Fresh(s)[j] = IF j <= Len(s) THEN s[j] ELSE 0
    <3>1. /\ DOMAIN Zeros(NameSize) = 1..NameSize /\ Zeros(NameSize)[j] = 0
          /\ 0 < j /\ j - 0 = j /\ 0 + Len(s) = Len(s)
      BY <2>1, Sizes DEF Zeros
    <3> QED
      BY <3>1 DEF Fresh, Scanned
  <2>3. CASE i <= Len(s)
    <3>1. \A j \in 1..i : j \in 1..NameSize /\ j <= Len(s) /\ j \in 1..Len(s)
      <4>1. Len(s) \in Nat /\ i \in Nat /\ i <= NameSize /\ NameSize \in Nat
        BY <2>1, Sizes
      <4> QED
        BY <2>3, <4>1
    <3>2. \A j \in 1..i : Fresh(s)[j] # 0
      BY <2>1, <2>2, <3>1
    <3> QED
      BY <3>2 DEF strncpy
  <2>4. CASE ~(i <= Len(s))
    BY <2>2, <2>4 DEF strncpy
  <2> QED
    BY <2>3, <2>4
<1>7. strncpy(Fresh(s), NameSize) = Fresh(s)
  <2>1. Fresh(s) = [i \in 1..NameSize |-> Fresh(s)[i]]
    BY <1>2 DEF Chars
  <2>2. strncpy(Fresh(s), NameSize) = [i \in 1..NameSize |-> strncpy(Fresh(s), NameSize)[i]]
    BY DEF strncpy
  <2> QED
    BY <1>6, <2>1, <2>2
<1> QED
  BY <1>2, <1>4, <1>5, <1>7

\* A field that was never filled holds the empty string, whatever the order of the
\* arrays is.
LEMMA NobodyIs ==
    /\ << >> \in Typed
    /\ CString(Zeros(NameSize)) = << >>
    /\ \A turned : NameLeft(turned, << >>, << >>) = << >>
    /\ \A turned, name : NameLeft(turned, name, << >>) = Held(name)
<1>1. << >> \in Typed
  BY Sizes DEF Typed
<1>2. Held(<< >>) = << >>
  BY <1>1, HeldIs, Sizes
<1>3. \A i \in 1..NameSize : Fresh(<< >>)[i] = 0
  <2> TAKE i \in 1..NameSize
  <2>1. ~(i <= 0 + Len(<< >>)) /\ i \in DOMAIN Zeros(NameSize) /\ Zeros(NameSize)[i] = 0
    BY Sizes DEF Zeros
  <2> QED
    BY <2>1 DEF Fresh, Scanned
<1>4. Fresh(<< >>) = Zeros(NameSize)
  <2>1. Fresh(<< >>) = [i \in 1..NameSize |-> Fresh(<< >>)[i]]
    BY <1>1, FreshIs DEF Chars
  <2> QED
    BY <1>3, <2>1 DEF Zeros
<1>5. CString(Zeros(NameSize)) = << >>
  BY <1>1, <1>2, <1>4, FreshIs
<1>6. ~(Len(<< >>) >= NameSize)
  BY Sizes
<1> QED
  BY <1>1, <1>2, <1>5, <1>6 DEF NameLeft

\* What is typed into the front end's arrays: the password is never touched, and the
\* name is what NameLeft says.
LEMMA ArraysHold ==
    ASSUME memory \in Chars(3 * NameSize), reversed \in BOOLEAN,
           NEW name \in Typed, NEW pswd \in Typed
    PROVE  LET scanned == Scanned(Scanned(memory, NameAt, name), PswdAt, pswd)
           IN  /\ scanned \in Chars(3 * NameSize)
               /\ my_name(scanned) \in Chars(NameSize)
               /\ my_pswd(scanned) \in Chars(NameSize)
               /\ server_name(scanned) \in Chars(NameSize)
               /\ CString(my_pswd(scanned)) = Held(pswd)
               /\ CString(my_name(scanned)) = NameLeft(reversed, name, pswd)
<1> DEFINE c == 3 * NameSize
           first == Scanned(memory, NameAt, name)
           scanned == Scanned(first, PswdAt, pswd)
           rest == SubSeq(pswd, NameSize + 1, Len(pswd))
           body == Zeros(MsgSize)
<1>1. /\ c \in Nat /\ c = NameSize + NameSize + NameSize
      /\ NameAt \in Nat /\ NameAt + NameSize <= c
      /\ PswdAt \in Nat /\ PswdAt + NameSize <= c
      /\ 2 * NameSize - NameAt \in Nat /\ 2 * NameSize - NameAt + NameSize <= c
      /\ body \in Chars(MsgSize)
  BY Sizes, ZerosAreChars DEF NameAt, PswdAt
<1>2. first \in Chars(c)
  BY <1>1, ScannedIs
<1>3. CString(Copy(first, NameAt, NameSize)) = Held(name)
  BY <1>1, NamesAreKept
<1> HIDE DEF first
<1>4. scanned \in Chars(c)
  BY <1>1, <1>2, ScannedIs
<1>5. CString(my_pswd(scanned)) = Held(pswd)
  BY <1>1, <1>2, NamesAreKept DEF my_pswd
<1>6. /\ my_name(scanned) \in Chars(NameSize)
      /\ my_pswd(scanned) \in Chars(NameSize)
      /\ server_name(scanned) \in Chars(NameSize)
  BY <1>1, <1>4, Sizes, CopyIsChars DEF my_name, my_pswd, server_name
<1>7. pswd \in Seq(Byte) /\ Len(pswd) \in Nat /\ DOMAIN first = 1..c
  BY <1>2, HeldIs DEF Chars
<1>8. CASE ~(reversed /\ Len(pswd) >= NameSize)
  <2>1. ASSUME NEW i \in 1..NameSize
        PROVE  scanned[NameAt + i] = first[NameAt + i]
    <3>1. NameAt + i \in 1..c
      <4>1. NameAt \in Nat /\ c \in Nat /\ NameAt + NameSize <= c /\ NameSize \in Nat
        BY <1>1, Sizes
      <4> HIDE DEF c
      <4> QED
        BY <4>1
    <3>2. /\ ~(PswdAt < NameAt + i /\ NameAt + i <= PswdAt + Len(pswd))
          /\ NameAt + i # PswdAt + Len(pswd) + 1
      BY <1>7, <1>8, Sizes DEF NameAt, PswdAt
    <3> QED
      BY <1>7, <3>1, <3>2 DEF Scanned
  <2>2. my_name(scanned) = Copy(first, NameAt, NameSize)
    BY <2>1 DEF my_name, Copy
  <2> QED
    BY <1>3, <1>4, <1>5, <1>6, <1>8, <2>2 DEF NameLeft, first
<1>9. CASE reversed /\ Len(pswd) >= NameSize
  <2>1. NameAt = NameSize + NameSize /\ PswdAt = NameSize
    BY <1>9, Sizes DEF NameAt, PswdAt
  <2>2. /\ rest \in Seq(Byte) /\ Len(rest) = Len(pswd) - NameSize
        /\ \A i \in 1..(Len(pswd) - NameSize) : rest[i] = pswd[NameSize + i]
    BY <1>7, <1>9, Sizes
  <2>3. rest \in Typed
    <3>1. \A i \in 1..Len(rest) : NameSize + i \in 1..Len(pswd)
      BY <1>7, <1>9, <2>2, Sizes
    <3> QED
      BY <2>2, <3>1 DEF Typed
  <2> HIDE DEF rest
  <2>4. ASSUME NEW i \in 1..NameSize
        PROVE  scanned[NameAt + i] = Scanned(first, NameAt, rest)[NameAt + i]
    <3>1. /\ NameAt + i \in 1..c /\ PswdAt < NameAt + i /\ NameAt < NameAt + i
          /\ (NameAt + i) - PswdAt = NameSize + i /\ (NameAt + i) - NameAt = i
      BY <1>1, <2>1, Sizes
    <3>2. /\ NameAt + i <= PswdAt + Len(pswd) <=> NameAt + i <= NameAt + Len(rest)
          /\ NameAt + i = PswdAt + Len(pswd) + 1 <=> NameAt + i = NameAt + Len(rest) + 1
          /\ NameAt + i <= PswdAt + Len(pswd) => i \in 1..(Len(pswd) - NameSize)
      <4>1. /\ Len(pswd) \in Nat /\ Len(rest) = Len(pswd) - NameSize
            /\ NameSize \in Nat /\ i \in Nat /\ 1 <= i
        BY <1>7, <2>2, Sizes
      <4>2. NameAt + i <= PswdAt + Len(pswd) <=> i <= Len(pswd) - NameSize
        BY <2>1, <4>1
      <4>3. NameAt + i <= NameAt + Len(rest) <=> i <= Len(pswd) - NameSize
        BY <2>1, <4>1
      <4>4. NameAt + i = PswdAt + Len(pswd) + 1 <=> NameAt + i = NameAt + Len(rest) + 1
        BY <2>1, <4>1
      <4>5. i <= Len(pswd) - NameSize => i \in 1..(Len(pswd) - NameSize)
        BY <4>1
      <4> QED
        BY <4>2, <4>3, <4>4, <4>5
    <3> QED
      BY <1>7, <2>2, <3>1, <3>2 DEF Scanned
  <2>5. my_name(scanned) = Copy(Scanned(first, NameAt, rest), NameAt, NameSize)
    BY <2>4 DEF my_name, Copy
  <2>6. CString(my_name(scanned)) = Held(rest)
    BY <1>1, <1>2, <2>3, <2>5, NamesAreKept
  <2> QED
    BY <1>4, <1>5, <1>6, <1>9, <2>6 DEF NameLeft, first, rest
<1> QED
  BY <1>8, <1>9

-----------------------------------------------------------------------------
(* What the programs write                                                 *)

\* The front end's buffer of a text, and the server's of one it passes on.
LEMMA TextIs ==
    ASSUME NEW my_name_ \in Chars(NameSize), NEW name \in Chars(NameSize),
           NEW body \in Chars(MsgSize)
    PROVE  LET msg == TextFrom(my_name_, name, body)
           IN  /\ msg \in Message /\ Sendable(msg)
               /\ msg.from = my_name_ /\ msg.to = name /\ msg.msg_body = body
<1> DEFINE m == [create_chat_message(TXT_MSG) EXCEPT !.from = my_name_, !.to = name,
                                                     !.msg_body = body]
           new == create_chat_message(TXT_MSG)
<1>1. /\ new \in Message /\ new.msg_type = TXT_MSG
      /\ new.sys_command = Word(0) /\ new.error_stat = Word(0)
  BY EmptyMessage DEF MsgType
<1> HIDE DEF new
<1>2. /\ m \in Message /\ m.msg_type = TXT_MSG
      /\ m.sys_command = Word(0) /\ m.error_stat = Word(0)
      /\ m.from = my_name_ /\ m.to = name /\ m.msg_body = body
  BY <1>1 DEF Message, new
<1> HIDE DEF m
<1>3. Sendable(m)
  BY <1>2 DEF Sendable
<1>4. Encoded(m) = fill_body(fill_body(fill_body(create_type_buffer(TXT_MSG), name, NameSize),
                                       my_name_, NameSize), body, MsgSize)
  BY <1>2, TypesDiffer DEF Encoded, write_message, write_text_msg, Addressed
<1>5. TextFrom(my_name_, name, body) = read_message(new, Encoded(m).buf)
  BY <1>4 DEF TextFrom, new
<1>6. Holds(Encoded(m).buf, Encoded(m), Capacity(m.msg_type))
  BY DEF Holds
<1>7. Decoded(Encoded(m).buf) = m /\ get_msg_type(Encoded(m).buf) = TXT_MSG
  BY <1>2, <1>3, <1>6, ReadsBack
<1>8. TextFrom(my_name_, name, body) = m
  BY <1>5, <1>7 DEF Decoded, new
<1> QED
  BY <1>2, <1>3, <1>8

\* What is at the front of the buffer of a command.
CommandFront(b, command, to, name) ==
    /\ Copy(b.buf, 0, IntSize) = SYSTEM
    /\ Copy(b.buf, IntSize, NameSize) = to
    /\ Copy(b.buf, IntSize + NameSize, NameSize) = name
    /\ Copy(b.buf, IntSize + 2 * NameSize, IntSize) = command
    /\ Copy(b.buf, 2 * IntSize + 2 * NameSize, NameSize) = name

LEMMA CommandSizes ==
    /\ Capacity(SYSTEM) \in Nat
    /\ Capacity(SYSTEM) = IntSize + NameSize + NameSize + IntSize + MsgSize
    /\ SYSTEM \in MsgType
BY Capacities DEF MsgType

LEMMA CommandFilled ==
    ASSUME NEW command \in Chars(IntSize), NEW to \in Chars(NameSize),
           NEW name \in Chars(NameSize)
    PROVE  LET b == CommandBuffer(command, to, name)
           IN  /\ b \in Buffer(Capacity(SYSTEM))
               /\ b.size = 2 * IntSize + 3 * NameSize
               /\ CommandFront(b, command, to, name)
<1> DEFINE c == Capacity(SYSTEM)
           b0 == create_type_buffer(SYSTEM)
           b1 == fill_body(b0, to, NameSize)
           b2 == fill_body(b1, name, NameSize)
           b3 == fill_body(b2, command, IntSize)
           b4 == fill_body(b3, name, NameSize)
<1>1. c \in Nat /\ c = IntSize + NameSize + NameSize + IntSize + MsgSize
  BY CommandSizes
<1>2. b0 \in Buffer(c) /\ b0.size = IntSize /\ Copy(b0.buf, 0, IntSize) = SYSTEM
  BY CommandSizes, Created
<1> HIDE DEF c, b0
<1>3. /\ b1 \in Buffer(c) /\ b1.size = IntSize + NameSize
      /\ Copy(b1.buf, 0, IntSize) = SYSTEM
      /\ Copy(b1.buf, IntSize, NameSize) = to
  <2>1. b0.size + NameSize <= c /\ 0 + IntSize <= b0.size /\ 0 \in Nat
    BY <1>1, <1>2, Sizes
  <2> HIDE DEF b1
  <2> QED
    BY <1>1, <1>2, <2>1, Sizes, Filled DEF b1
<1> HIDE DEF b1
<1>4. /\ b2 \in Buffer(c) /\ b2.size = IntSize + 2 * NameSize
      /\ Copy(b2.buf, 0, IntSize) = SYSTEM
      /\ Copy(b2.buf, IntSize, NameSize) = to
      /\ Copy(b2.buf, IntSize + NameSize, NameSize) = name
  <2>1. /\ b1.size + NameSize <= c /\ 0 + IntSize <= b1.size /\ 0 \in Nat
        /\ IntSize + NameSize <= b1.size /\ b1.size + NameSize = IntSize + 2 * NameSize
    BY <1>1, <1>3, Sizes
  <2> HIDE DEF b2
  <2> QED
    BY <1>1, <1>3, <2>1, Sizes, Filled DEF b2
<1> HIDE DEF b2
<1>5. /\ b3 \in Buffer(c) /\ b3.size = 2 * IntSize + 2 * NameSize
      /\ Copy(b3.buf, 0, IntSize) = SYSTEM
      /\ Copy(b3.buf, IntSize, NameSize) = to
      /\ Copy(b3.buf, IntSize + NameSize, NameSize) = name
      /\ Copy(b3.buf, IntSize + 2 * NameSize, IntSize) = command
  <2>1. /\ b2.size + IntSize <= c /\ 0 + IntSize <= b2.size /\ 0 \in Nat
        /\ IntSize + NameSize <= b2.size /\ IntSize + NameSize \in Nat
        /\ (IntSize + NameSize) + NameSize <= b2.size
        /\ b2.size + IntSize = 2 * IntSize + 2 * NameSize
    BY <1>1, <1>4, Sizes
  <2> HIDE DEF b3
  <2> QED
    BY <1>1, <1>4, <2>1, Sizes, Filled DEF b3
<1> HIDE DEF b3
<1>6. /\ b4 \in Buffer(c) /\ b4.size = 2 * IntSize + 3 * NameSize
      /\ CommandFront(b4, command, to, name)
  <2>1. /\ b3.size + NameSize <= c /\ 0 + IntSize <= b3.size /\ 0 \in Nat
        /\ IntSize + NameSize <= b3.size /\ IntSize + NameSize \in Nat
        /\ (IntSize + NameSize) + NameSize <= b3.size
        /\ IntSize + 2 * NameSize \in Nat
        /\ (IntSize + 2 * NameSize) + IntSize <= b3.size
        /\ b3.size + NameSize = 2 * IntSize + 3 * NameSize
    BY <1>1, <1>5, Sizes
  <2> HIDE DEF b4
  <2>2. /\ b4 \in Buffer(c) /\ b4.size = b3.size + NameSize
        /\ Copy(b4.buf, b3.size, NameSize) = name
        /\ \A at, k \in Nat : at + k <= b3.size => Copy(b4.buf, at, k) = Copy(b3.buf, at, k)
    BY <1>1, <1>5, <2>1, Sizes, Filled DEF b4
  <2>3. /\ Copy(b4.buf, 0, IntSize) = Copy(b3.buf, 0, IntSize)
        /\ Copy(b4.buf, IntSize, NameSize) = Copy(b3.buf, IntSize, NameSize)
        /\ Copy(b4.buf, IntSize + NameSize, NameSize) = Copy(b3.buf, IntSize + NameSize, NameSize)
        /\ Copy(b4.buf, IntSize + 2 * NameSize, IntSize)
             = Copy(b3.buf, IntSize + 2 * NameSize, IntSize)
    BY <2>1, <2>2, Sizes
  <2> QED
    BY <1>5, <2>1, <2>2, <2>3 DEF CommandFront
<1> QED
  BY <1>6 DEF CommandBuffer, b3, b2, b1, b0, c

\* What the server takes from the body of a command.
LEMMA CommandIs ==
    ASSUME NEW b \in Buffer(Capacity(SYSTEM)), NEW command, NEW to,
           NEW name \in Chars(NameSize),
           CommandFront(b, command, to, name), NEW pswd
    PROVE  LET msg == read_message(create_chat_message(SYSTEM), b.buf)
           IN  /\ msg \in Message /\ Sendable(msg)
               /\ msg.from = name
               /\ UserName(msg) = strncpy(name, NameSize)
               /\ Copy(b.buf, 2 * IntSize + 3 * NameSize, NameSize) = pswd
                    => Password(msg) = strncpy(pswd, NameSize)
<1> DEFINE at == 2 * IntSize + 2 * NameSize
           msg == read_message(create_chat_message(SYSTEM), b.buf)
<1>1. b.buf \in Chars(Capacity(SYSTEM)) /\ get_msg_type(b.buf) = SYSTEM
  BY DEF Buffer, CommandFront, get_msg_type
<1>2. msg = Decoded(b.buf)
  BY <1>1 DEF Decoded
<1>3. /\ msg \in Message /\ Sendable(msg)
      /\ msg.from = name
      /\ msg.msg_body = Copy(b.buf, at, MsgSize)
  <2>1. ~Short(Decoded(b.buf))
    BY <1>1, CommandSizes, DecodedFields, TypesDiffer DEF Short
  <2> QED
    BY <1>1, <1>2, <2>1, CommandSizes, DecodedFields DEF CommandFront
<1> HIDE DEF msg
<1>4. at \in Nat /\ at + NameSize = 2 * IntSize + 3 * NameSize
  BY Sizes
<1> HIDE DEF at
<1>5. \A i \in 1..NameSize : msg.msg_body[i] = name[i]
  <2> TAKE i \in 1..NameSize
  <2>1. i \in 1..MsgSize
    BY Sizes
  <2>2. msg.msg_body[i] = b.buf[at + i]
    BY <1>3, <2>1 DEF Copy
  <2>3. Copy(b.buf, at, NameSize)[i] = b.buf[at + i]
    BY DEF Copy
  <2> QED
    BY <2>2, <2>3 DEF CommandFront, at
<1>6. UserName(msg) = strncpy(name, NameSize)
  <2>1. \A i \in 1..NameSize : \A j \in 1..i : j \in 1..NameSize
    BY Sizes
  <2> QED
    BY <1>5, <2>1 DEF UserName, strncpy
<1>7. Copy(msg.msg_body, NameSize, NameSize) = Copy(b.buf, at + NameSize, NameSize)
  <2>1. ASSUME NEW i \in 1..NameSize
        PROVE  msg.msg_body[NameSize + i] = b.buf[(at + NameSize) + i]
    <3>1. NameSize + i \in 1..MsgSize /\ at + (NameSize + i) = (at + NameSize) + i
      BY <1>4, Sizes
    <3>2. msg.msg_body[NameSize + i] = b.buf[at + (NameSize + i)]
      BY <1>3, <3>1 DEF Copy
    <3> QED
      BY <3>1, <3>2
  <2> QED
    BY <2>1 DEF Copy
<1> QED
  BY <1>3, <1>4, <1>6, <1>7 DEF Password, msg

\* A message that can be written, and says what it was to say.
Sound(turned, msg, said) ==
    /\ msg \in Message
    /\ Sendable(msg)
    /\ said \in Meaning
    /\ Says(turned, msg, said)

LEMMA TextIsSound ==
    ASSUME NEW turned, NEW array \in Chars(NameSize),
           NEW name \in Typed, NEW pswd \in Typed,
           CString(array) = NameLeft(turned, name, pswd),
           NEW to \in Typed, NEW line \in Chars(MsgSize)
    PROVE  Sound(turned, TextFrom(array, Fresh(to), line),
                 [what |-> "text", from |-> name, to |-> to, pswd |-> pswd])
<1> DEFINE msg == TextFrom(array, Fresh(to), line)
<1>1. /\ msg \in Message /\ Sendable(msg)
      /\ msg.from = array /\ msg.to = Fresh(to) /\ msg.msg_body = line
  BY FreshIs, TextIs
<1> HIDE DEF msg
<1>2. Addressee(msg) = IF Len(to) < NameSize THEN to ELSE Held(to) \o CString(msg.msg_body)
  BY <1>1, FreshIs DEF Addressee
<1>3. name \in Seq(Byte) /\ pswd \in Seq(Byte) /\ to \in Seq(Byte)
  BY DEF Typed
<1> QED
  BY <1>1, <1>2, <1>3 DEF Sound, Says, Meaning, msg

LEMMA CredentialsAreSound ==
    ASSUME NEW turned, NEW array \in Chars(NameSize), NEW second \in Chars(NameSize),
           NEW to \in Chars(NameSize),
           NEW name \in Typed, NEW pswd \in Typed,
           CString(array) = NameLeft(turned, name, pswd), CString(second) = Held(pswd),
           NEW command \in Chars(IntSize)
    PROVE  Sound(turned, Credentials(command, to, array, second),
                 [what |-> "credentials", from |-> name, to |-> << >>, pswd |-> pswd])
<1> DEFINE front == CommandBuffer(command, to, array)
           b == fill_body(front, second, NameSize)
           msg == Credentials(command, to, array, second)
<1>2. /\ front \in Buffer(Capacity(SYSTEM))
      /\ front.size = 2 * IntSize + 3 * NameSize
      /\ CommandFront(front, command, to, array)
  BY CommandFilled
<1> HIDE DEF front
<1>3. /\ b \in Buffer(Capacity(SYSTEM))
      /\ CommandFront(b, command, to, array)
      /\ Copy(b.buf, 2 * IntSize + 3 * NameSize, NameSize) = second
  <2>1. /\ front.size + NameSize <= Capacity(SYSTEM)
        /\ 0 + IntSize <= front.size /\ 0 \in Nat
        /\ IntSize + NameSize <= front.size /\ IntSize + NameSize \in Nat
        /\ (IntSize + NameSize) + NameSize <= front.size
        /\ IntSize + 2 * NameSize \in Nat
        /\ (IntSize + 2 * NameSize) + IntSize <= front.size
        /\ 2 * IntSize + 2 * NameSize \in Nat
        /\ (2 * IntSize + 2 * NameSize) + NameSize <= front.size
    BY <1>2, CommandSizes, Sizes
  <2> HIDE DEF b
  <2>2. /\ b \in Buffer(Capacity(SYSTEM))
        /\ Copy(b.buf, front.size, NameSize) = second
        /\ \A at, k \in Nat : at + k <= front.size => Copy(b.buf, at, k) = Copy(front.buf, at, k)
    BY <1>2, <2>1, CommandSizes, Sizes, Filled DEF b
  <2>3. /\ Copy(b.buf, 0, IntSize) = Copy(front.buf, 0, IntSize)
        /\ Copy(b.buf, IntSize, NameSize) = Copy(front.buf, IntSize, NameSize)
        /\ Copy(b.buf, IntSize + NameSize, NameSize)
             = Copy(front.buf, IntSize + NameSize, NameSize)
        /\ Copy(b.buf, IntSize + 2 * NameSize, IntSize)
             = Copy(front.buf, IntSize + 2 * NameSize, IntSize)
        /\ Copy(b.buf, 2 * IntSize + 2 * NameSize, NameSize)
             = Copy(front.buf, 2 * IntSize + 2 * NameSize, NameSize)
    BY <2>1, <2>2, Sizes
  <2> QED
    BY <1>2, <2>2, <2>3 DEF CommandFront
<1>4. msg = read_message(create_chat_message(SYSTEM), b.buf)
  BY DEF Credentials, front
<1> HIDE DEF b, msg
<1>5. /\ msg \in Message /\ Sendable(msg)
      /\ msg.from = array
      /\ UserName(msg) = strncpy(array, NameSize)
      /\ Password(msg) = strncpy(second, NameSize)
  BY <1>3, <1>4, CommandIs
<1>6. /\ CString(strncpy(array, NameSize)) = NameLeft(turned, name, pswd)
      /\ CString(strncpy(second, NameSize)) = Held(pswd)
  BY Sizes, SameString
<1>7. name \in Seq(Byte) /\ pswd \in Seq(Byte)
  BY DEF Typed
<1> QED
  BY <1>5, <1>6, <1>7 DEF Sound, Says, Meaning, msg

LEMMA LogOutIsSound ==
    ASSUME NEW turned, NEW array \in Chars(NameSize), NEW to \in Chars(NameSize),
           NEW name \in Typed, NEW pswd \in Typed,
           CString(array) = NameLeft(turned, name, pswd)
    PROVE  Sound(turned, LogOutOf(to, array),
                 [what |-> "log out", from |-> name, to |-> << >>, pswd |-> pswd])
<1> DEFINE b == CommandBuffer(LOG_OUT, to, array)
           msg == LogOutOf(to, array)
<1>1. LOG_OUT \in Chars(IntSize)
  BY WordIsChars DEF LOG_OUT
<1>2. b \in Buffer(Capacity(SYSTEM)) /\ CommandFront(b, LOG_OUT, to, array)
  BY <1>1, CommandFilled
<1>3. msg = read_message(create_chat_message(SYSTEM), b.buf)
  BY DEF LogOutOf
<1> HIDE DEF b, msg
<1>4. /\ msg \in Message /\ Sendable(msg)
      /\ msg.from = array
      /\ UserName(msg) = strncpy(array, NameSize)
  BY <1>2, <1>3, CommandIs
<1>5. CString(strncpy(array, NameSize)) = NameLeft(turned, name, pswd)
  BY Sizes, SameString
<1>6. name \in Seq(Byte) /\ pswd \in Seq(Byte)
  BY DEF Typed
<1> QED
  BY <1>4, <1>5, <1>6 DEF Sound, Says, Meaning, msg

LEMMA NoticeIsSound ==
    ASSUME NEW turned, NEW to \in Typed, NEW about \in Typed
    PROVE  Sound(turned, NoticeFor(Fresh(to), Fresh(about)),
                 [what |-> "notice", from |-> << >>, to |-> to, pswd |-> << >>])
<1> DEFINE new == create_chat_message(SYSTEM)
           body == Fresh(about) \o Zeros(MsgSize - NameSize)
           msg == [new EXCEPT !.sys_command = ONLINE, !.to = Fresh(to), !.msg_body = body]
<1>1. /\ new \in Message /\ new.msg_type = SYSTEM /\ new.error_stat = Word(0)
      /\ new.from = Zeros(NameSize)
  BY EmptyMessage, CommandSizes DEF create_chat_message
<1>2. NoticeFor(Fresh(to), Fresh(about)) = msg
  BY FreshIs DEF NoticeFor
<1>3. body \in Chars(MsgSize)
  <2>1. MsgSize - NameSize \in Nat /\ NameSize + (MsgSize - NameSize) = MsgSize
    BY Sizes
  <2>2. Fresh(about) \in Seq(Byte) /\ Len(Fresh(about)) = NameSize
    BY FreshIs, Sizes, CharsAreSeq
  <2>3. /\ Zeros(MsgSize - NameSize) \in Seq(Byte)
        /\ Len(Zeros(MsgSize - NameSize)) = MsgSize - NameSize
    BY <2>1, ZerosAreChars, CharsAreSeq
  <2>4. body \in Seq(Byte) /\ Len(body) = MsgSize
    BY <2>1, <2>2, <2>3
  <2> HIDE DEF body
  <2> QED
    BY <2>4 DEF Chars
<1>4. ONLINE \in Chars(IntSize) /\ Fresh(to) \in Chars(NameSize)
  BY WordIsChars, FreshIs DEF ONLINE
<1> HIDE DEF new, body
<1>5. /\ msg \in Message /\ msg.msg_type = SYSTEM /\ msg.error_stat = Word(0)
      /\ msg.from = Zeros(NameSize) /\ msg.to = Fresh(to) /\ msg.msg_body = body
  BY <1>1, <1>3, <1>4 DEF Message
<1> HIDE DEF msg
<1>6. Sendable(msg)
  BY <1>5, TypesDiffer DEF Sendable
<1>7. /\ Addressee(msg) = IF Len(to) < NameSize THEN to ELSE Held(to) \o CString(msg.msg_body)
      /\ CString(msg.from) = NameLeft(turned, << >>, << >>)
  BY <1>3, <1>5, FreshIs, NobodyIs DEF Addressee
<1>8. to \in Seq(Byte)
  BY DEF Typed
<1> QED
  BY <1>2, <1>5, <1>6, <1>7, <1>8 DEF Sound, Says, Meaning

LEMMA AnswerIsSound ==
    ASSUME NEW turned, NEW to \in Typed, NEW stat \in Chars(IntSize)
    PROVE  Sound(turned, AnswerFor(Fresh(to), stat),
                 [what |-> "answer", from |-> << >>, to |-> to, pswd |-> << >>])
<1> DEFINE new == create_chat_message(ERROR_MSG)
           msg == [new EXCEPT !.error_stat = stat, !.to = Fresh(to)]
<1>1. /\ new \in Message /\ new.msg_type = ERROR_MSG /\ new.sys_command = Word(0)
      /\ new.from = Zeros(NameSize)
  BY EmptyMessage DEF create_chat_message, MsgType
<1>2. AnswerFor(Fresh(to), stat) = msg
  BY FreshIs DEF AnswerFor
<1>3. Fresh(to) \in Chars(NameSize)
  BY FreshIs
<1> HIDE DEF new
<1>4. /\ msg \in Message /\ msg.msg_type = ERROR_MSG /\ msg.sys_command = Word(0)
      /\ msg.from = Zeros(NameSize) /\ msg.to = Fresh(to) /\ msg.msg_body \in Chars(MsgSize)
  BY <1>1, <1>3 DEF Message
<1> HIDE DEF msg
<1>5. Sendable(msg)
  BY <1>4, TypesDiffer DEF Sendable
<1>6. /\ Addressee(msg) = IF Len(to) < NameSize THEN to ELSE Held(to) \o CString(msg.msg_body)
      /\ CString(msg.from) = NameLeft(turned, << >>, << >>)
  BY <1>4, FreshIs, NobodyIs DEF Addressee
<1>7. to \in Seq(Byte)
  BY DEF Typed
<1> QED
  BY <1>2, <1>4, <1>5, <1>6, <1>7 DEF Sound, Says, Meaning

-----------------------------------------------------------------------------
(* The invariant                                                           *)

Typing ==
    /\ reversed \in BOOLEAN /\ memory \in Chars(3 * NameSize)
    /\ typed \in [name : Typed, pswd : Typed]
    /\ CString(my_name(memory)) = NameLeft(reversed, typed.name, typed.pswd)
    /\ stream \in Seq(Byte) /\ offset \in Nat
    /\ fault \in {"none", "no handler", "null buffer"}
    /\ sent \in Seq(Message) /\ starts \in Seq(Nat) /\ meant \in Seq(Meaning)

LEMMA InitInductive == WireInit => WireInductive
<1> SUFFICES ASSUME WireInit PROVE WireInductive
  OBVIOUS
<1>1. Typing /\ sent = << >> /\ starts = << >> /\ meant = << >>
  <2>1. my_name(memory) = Zeros(NameSize)
    <3>1. \A i \in 1..NameSize : memory[NameAt + i] = 0
      BY Sizes DEF WireInit, NameAt, Zeros
    <3> QED
      BY <3>1 DEF my_name, Copy, Zeros
  <2>2. memory \in Chars(3 * NameSize)
    BY Sizes, ZerosAreChars DEF WireInit
  <2>3. CString(my_name(memory)) = NameLeft(reversed, typed.name, typed.pswd)
    BY <2>1, NobodyIs DEF WireInit
  <2>4. reversed \in BOOLEAN
    BY DEF WireInit
  <2> QED
    BY <2>2, <2>3, <2>4, NobodyIs DEF WireInit, Typing
<1>2. Histories /\ InTurn /\ Carried
  BY <1>1 DEF Histories, InTurn, Carried
<1>3. LatestRead /\ CrashNeedsStray
  BY <1>1 DEF WireInit, LatestRead, CrashNeedsStray
<1> QED
  BY <1>1, <1>2, <1>3 DEF Typing, WireInductive

LEMMA MessageBytes ==
    ASSUME NEW msg \in Message
    PROVE  /\ msg.msg_type \in MsgType
           /\ Capacity(msg.msg_type) \in Nat /\ Capacity(msg.msg_type) > 0
           /\ Encoded(msg).buf \in Seq(Byte)
           /\ Len(Encoded(msg).buf) = Capacity(msg.msg_type)
<1>1. msg.msg_type \in MsgType
  BY DEF Message
<1>2. Capacity(msg.msg_type) \in Nat /\ Capacity(msg.msg_type) > 0
  BY <1>1, Capacities, Sizes, SMT
<1> QED
  BY <1>1, <1>2, BuffersAreFilled, CharsAreSeq

\* The front end's arrays hold what was typed.
FrontKept ==
    /\ reversed' = reversed /\ memory' \in Chars(3 * NameSize)
    /\ typed' \in [name : Typed, pswd : Typed]
    /\ CString(my_name(memory))' = NameLeft(reversed', typed'.name, typed'.pswd)

LEMMA FrontUnchanged ==
    ASSUME WireInductive, UNCHANGED frontVars
    PROVE  FrontKept
<1>1. reversed' = reversed /\ memory' = memory /\ typed' = typed
  BY DEF frontVars
<1>2. my_name(memory)' = my_name(memory)
  BY <1>1 DEF my_name, Copy, NameAt
<1> QED
  BY <1>1, <1>2 DEF WireInductive, FrontKept

LEMMA WriteInductive ==
    ASSUME WireInductive, NEW msg, NEW said, Sound(reversed, msg, said), Write(msg, said),
           FrontKept
    PROVE  WireInductive'
<1> DEFINE c == Capacity(msg.msg_type)
           bytes == Encoded(msg).buf
           n == Len(sent)
<1>1. Typing /\ Histories /\ InTurn /\ Carried /\ LatestRead
  BY DEF WireInductive, Typing
<1>2. /\ fault = "none" /\ stream' = stream \o bytes
      /\ starts' = Append(starts, Total) /\ sent' = Append(sent, msg)
      /\ meant' = Append(meant, said)
      /\ offset' = offset /\ fault' = fault /\ latest' = latest
  BY DEF Write, readVars, Total
<1>3. /\ c \in Nat /\ c > 0 /\ bytes \in Seq(Byte) /\ Len(bytes) = c
      /\ msg \in Message /\ Sendable(msg) /\ Says(reversed, msg, said) /\ said \in Meaning
  <2>1. msg \in Message /\ Sendable(msg) /\ Says(reversed, msg, said) /\ said \in Meaning
    BY DEF Sound
  <2> QED
    BY <2>1, MessageBytes
<1>4. Total \in Nat /\ Total = offset + Len(stream) /\ Len(stream) \in Nat /\ offset \in Nat
  <2>1. stream \in Seq(Byte) /\ offset \in Nat
    BY <1>1 DEF Typing
  <2> QED
    BY <2>1 DEF Total
<1>5. Typing'
  <2>1. reversed' \in BOOLEAN
    BY <1>1 DEF Typing, FrontKept
  <2> QED
    BY <1>1, <1>2, <1>3, <1>4, <2>1 DEF Typing, FrontKept
<1>6. /\ n \in Nat /\ Len(starts) = n /\ Len(meant) = n
      /\ Len(sent') = n + 1 /\ Len(starts') = n + 1 /\ Len(meant') = n + 1
      /\ \A i \in 1..n : sent'[i] = sent[i] /\ starts'[i] = starts[i] /\ meant'[i] = meant[i]
      /\ sent'[n + 1] = msg /\ starts'[n + 1] = Total /\ meant'[n + 1] = said
  <2>1. Len(starts) = n /\ Len(meant) = n
    BY <1>1 DEF Histories
  <2>2. sent \in Seq(Message) /\ starts \in Seq(Nat) /\ meant \in Seq(Meaning)
    BY <1>1 DEF Typing
  <2> QED
    BY <1>2, <1>3, <1>4, <2>1, <2>2
<1> HIDE DEF c, bytes, n
<1>7. n \in Nat /\ 1..(n + 1) = 1..n \cup {n + 1}
  <2>1. n \in Nat
    BY <1>6
  <2> QED
    BY <2>1
<1>8. Total' = Total + c
  <2>1. stream \in Seq(Byte)
    BY <1>1 DEF Typing
  <2>2. Len(stream \o bytes) = Len(stream) + c
    BY <1>3, <2>1
  <2>3. Total' = offset + Len(stream \o bytes)
    BY <1>2 DEF Total
  <2> QED
    BY <1>3, <1>4, <2>2, <2>3
<1>9. Histories'
  <2>1. \A i \in 1..n : sent[i] \in Message /\ Sendable(sent[i]) /\ Says(reversed, sent[i], meant[i])
    BY <1>1 DEF Histories, n
  <2>2. \A i \in 1..(n + 1) :
          sent'[i] \in Message /\ Sendable(sent'[i]) /\ Says(reversed', sent'[i], meant'[i])
    BY <1>3, <1>6, <1>7, <2>1 DEF FrontKept
  <2> QED
    BY <1>6, <2>2 DEF Histories
<1>10. ASSUME NEW i \in 1..n
       PROVE  /\ EndOf(i)' = EndOf(i) /\ starts[i] \in Nat /\ EndOf(i) \in Nat
              /\ starts[i] < EndOf(i) /\ EndOf(i) <= Total
              /\ EndOf(i) = starts[i] + Capacity(sent[i].msg_type)
              /\ Capacity(sent[i].msg_type) \in Nat
  <2>1. starts[i] \in Nat /\ EndOf(i) <= Total
    BY <1>1 DEF InTurn, n
  <2>2. Capacity(sent[i].msg_type) \in Nat /\ Capacity(sent[i].msg_type) > 0
    BY <1>1, MessageBytes DEF Histories, n
  <2>3. EndOf(i) = starts[i] + Capacity(sent[i].msg_type)
    BY DEF EndOf
  <2>4. EndOf(i)' = EndOf(i)
    BY <1>6 DEF EndOf
  <2> QED
    BY <2>1, <2>2, <2>3, <2>4
<1>11. ASSUME NEW i, i = n + 1 PROVE EndOf(i)' = Total'
  <2>1. EndOf(i)' = starts'[i] + Capacity(sent'[i].msg_type)
    BY DEF EndOf
  <2> QED
    BY <1>6, <1>8, <1>11, <2>1 DEF c
<1>12. InTurn'
  <2>1. ASSUME NEW i \in 1..n
        PROVE  /\ starts'[i] \in Nat
               /\ EndOf(i)' = starts'[i + 1]
               /\ EndOf(i)' <= Total'
               /\ \A j \in 1..(n + 1) : i < j => EndOf(i)' <= starts'[j]
    <3>1. /\ EndOf(i) = IF i = n THEN Total ELSE starts[i + 1]
          /\ \A j \in 1..n : i < j => EndOf(i) <= starts[j]
      BY <1>1 DEF InTurn, n
    <3>2. EndOf(i)' = starts'[i + 1]
      <4>1. CASE i = n
        BY <1>6, <1>10, <3>1, <4>1
      <4>2. CASE i # n
        <5>1. i + 1 \in 1..n
          BY <1>6, <4>2
        <5> QED
          BY <1>6, <1>10, <3>1, <4>2, <5>1
      <4> QED
        BY <4>1, <4>2
    <3>3. EndOf(i)' <= Total'
      BY <1>3, <1>4, <1>8, <1>10
    <3>4. \A j \in 1..(n + 1) : i < j => EndOf(i)' <= starts'[j]
      BY <1>6, <1>7, <1>10, <3>1
    <3> QED
      BY <1>6, <1>10, <3>2, <3>3, <3>4
  <2>2. /\ starts'[n + 1] \in Nat
        /\ Total' <= Total'
        /\ \A j \in 1..(n + 1) : ~(n + 1 < j)
    BY <1>3, <1>4, <1>6, <1>8
  <2>3. \A i \in 1..n : i # n + 1
    BY <1>7
  <2>4. ASSUME NEW i \in 1..(n + 1)
        PROVE  /\ starts'[i] \in Nat
               /\ EndOf(i)' = IF i = n + 1 THEN Total' ELSE starts'[i + 1]
               /\ EndOf(i)' <= Total'
               /\ \A j \in 1..(n + 1) : i < j => EndOf(i)' <= starts'[j]
    <3>1. CASE i = n + 1
      BY <1>11, <2>2, <3>1
    <3>2. CASE i \in 1..n
      BY <2>1, <2>3, <3>2
    <3> QED
      BY <1>7, <3>1, <3>2
  <2>5. Len(sent') = n + 1
    BY <1>6
  <2> QED
    BY <2>4, <2>5 DEF InTurn
<1>13. Carried'
  <2>1. ASSUME NEW i \in 1..n, NEW k \in 1..Capacity(sent[i].msg_type), starts[i] + k > offset
        PROVE  stream'[(starts[i] + k) - offset] = Encoded(sent[i]).buf[k]
    <3>1. stream[(starts[i] + k) - offset] = Encoded(sent[i]).buf[k]
      BY <1>1, <2>1 DEF Carried, n
    <3>2. (starts[i] + k) - offset \in 1..Len(stream)
      BY <1>4, <1>10, <2>1
    <3>3. stream \in Seq(Byte)
      BY <1>1 DEF Typing
    <3> QED
      BY <1>2, <1>3, <3>1, <3>2, <3>3
  <2>2. ASSUME NEW k \in 1..c
        PROVE  stream'[(Total + k) - offset] = bytes[k]
    <3>1. (Total + k) - offset = Len(stream) + k
      BY <1>3, <1>4
    <3>2. stream \in Seq(Byte) /\ bytes \in Seq(Byte) /\ k \in 1..Len(bytes)
      BY <1>1, <1>3 DEF Typing
    <3>3. (stream \o bytes)[Len(stream) + k] = bytes[k]
      BY <3>2
    <3> QED
      BY <1>2, <3>1, <3>3
  <2>3. ASSUME NEW i \in 1..(n + 1), NEW k \in 1..Capacity(sent'[i].msg_type),
               starts'[i] + k > offset
        PROVE  stream'[(starts'[i] + k) - offset] = Encoded(sent'[i]).buf[k]
    <3>1. CASE i = n + 1
      BY <1>6, <2>2, <2>3, <3>1 DEF c, bytes
    <3>2. CASE i \in 1..n
      BY <1>6, <2>1, <2>3, <3>2
    <3> QED
      BY <1>7, <3>1, <3>2
  <2>4. offset' = offset /\ Len(sent') = n + 1
    BY <1>2, <1>6
  <2> QED
    BY <2>3, <2>4 DEF Carried
<1>14. LatestRead'
  <2>1. /\ latest.at \in Nat /\ latest.size \in Nat
        /\ latest.size > 0 => latest.msg \in Message
        /\ latest.at + latest.size = offset
        /\ \A i \in 1..n : latest.size > 0 /\ starts[i] = latest.at =>
             /\ CutTo(latest.msg, sent[i], latest.size)
             /\ latest.size >= Capacity(sent[i].msg_type) => latest.msg = sent[i]
    BY <1>1, <1>2 DEF LatestRead, n
  <2>2. latest.size > 0 => starts'[n + 1] # latest.at
    BY <1>4, <1>6, <2>1
  <2>3. \A i \in 1..(n + 1) : latest.size > 0 /\ starts'[i] = latest.at =>
             /\ CutTo(latest.msg, sent'[i], latest.size)
             /\ latest.size >= Capacity(sent'[i].msg_type) => latest.msg = sent'[i]
    BY <1>6, <1>7, <2>1, <2>2
  <2>4. latest.at + latest.size <= offset
    BY <1>4, <2>1
  <2> QED
    BY <1>2, <1>6, <2>1, <2>3, <2>4 DEF LatestRead
<1>15. CrashNeedsStray'
  BY <1>2 DEF CrashNeedsStray
<1> QED
  BY <1>5, <1>9, <1>12, <1>13, <1>14, <1>15 DEF WireInductive, Typing

\* What is left of a sequence behind its first n elements.
LEMMA BytesBehind ==
    ASSUME NEW s \in Seq(Byte), NEW n \in Nat, 0 < n, n <= Len(s),
           NEW left, left = SubSeq(s, n + 1, Len(s))
    PROVE  /\ left \in Seq(Byte) /\ Len(left) = Len(s) - n
           /\ \A k \in 1..(Len(s) - n) : left[k] = s[n + k]
<1>1. n + 1 \in Nat /\ Len(s) - n \in Nat /\ Len(s) + 1 - (n + 1) = Len(s) - n
  OBVIOUS
<1>2. left \in Seq(Byte)
  BY <1>1
<1>3. Len(left) = Len(s) - n
  BY <1>1
<1>4. \A k \in 1..(Len(s) - n) : left[k] = s[n + k]
  BY <1>1
<1> QED
  BY <1>2, <1>3, <1>4

\* A chunk that begins where a message begins.
LEMMA ChunkOfMessage ==
    ASSUME WireInductive, NEW n \in 1..Len(stream), NEW i \in 1..Len(sent), starts[i] = offset
    PROVE  LET buf == InBuffer(SubSeq(stream, 1, n))
           IN  /\ ReadFault(buf) = "none"
               /\ CutTo(Decoded(buf), sent[i], n)
               /\ n >= Capacity(sent[i].msg_type) => Decoded(buf) = sent[i]
<1> DEFINE chunk == SubSeq(stream, 1, n)
           c == Capacity(sent[i].msg_type)
<1>1. stream \in Seq(Byte) /\ offset \in Nat /\ sent[i] \in Message /\ Sendable(sent[i])
  BY DEF WireInductive, Histories
<1>2. /\ chunk \in Seq(Byte) /\ Len(chunk) = n /\ n > 0 /\ n \in Nat
      /\ \A k \in 1..n : chunk[k] = stream[k]
  BY <1>1
<1>3. c \in Nat
  BY <1>1, MessageBytes
<1>4. \A k \in 1..c : k <= n => chunk[k] = Encoded(sent[i]).buf[k]
  <2> TAKE k \in 1..c
  <2> HAVE k <= n
  <2>1. starts[i] + k > offset /\ (starts[i] + k) - offset = k /\ k \in 1..n
    BY <1>1, <1>2, <1>3
  <2>2. stream[(starts[i] + k) - offset] = Encoded(sent[i]).buf[k]
    BY <2>1 DEF WireInductive, Carried
  <2> QED
    BY <1>2, <2>1, <2>2
<1> HIDE DEF chunk
<1> QED
  BY <1>1, <1>2, <1>4, ChunkIsCut DEF chunk, c

\* The place of the byte at offset at, before and after n bytes were read.
LEMMA IndexBehind ==
    ASSUME NEW at \in Nat, NEW o \in Nat, NEW n \in Nat, NEW len \in Nat,
           o + n < at, at <= o + len
    PROVE  /\ at - (o + n) \in 1..(len - n)
           /\ n + (at - (o + n)) = at - o
OBVIOUS

LEMMA ReadInductive ==
    ASSUME WireInductive, NEW n \in 1..Len(stream), Read(n)
    PROVE  WireInductive'
<1> DEFINE buf == InBuffer(SubSeq(stream, 1, n))
<1>1. Typing /\ Histories /\ InTurn /\ Carried /\ LatestRead
  BY DEF WireInductive, Typing
<1>2. /\ fault = "none" /\ stream' = SubSeq(stream, n + 1, Len(stream))
      /\ offset' = offset + n /\ fault' = ReadFault(buf)
      /\ latest' = IF fault' = "none"
                   THEN [at |-> offset, size |-> n, msg |-> Decoded(buf)] ELSE latest
      /\ meant' = meant /\ sent' = sent /\ starts' = starts
      /\ reversed' = reversed /\ memory' = memory /\ typed' = typed
  BY DEF Read, frontVars
<1>3. /\ stream \in Seq(Byte) /\ Len(stream) \in Nat /\ offset \in Nat
      /\ n \in Nat /\ 0 < n /\ n <= Len(stream)
  <2>1. stream \in Seq(Byte) /\ offset \in Nat
    BY <1>1 DEF Typing
  <2> QED
    BY <2>1
<1>4. /\ stream' \in Seq(Byte) /\ Len(stream') = Len(stream) - n
      /\ \A k \in 1..(Len(stream) - n) : stream'[k] = stream[n + k]
  <2>1. stream' = SubSeq(stream, n + 1, Len(stream))
    BY <1>2
  <2> QED
    BY <1>3, <2>1, BytesBehind
<1>5. Total' = Total /\ Total = offset + Len(stream)
  <2>1. offset' = offset + n /\ Len(stream') = Len(stream) - n
    BY <1>2, <1>4
  <2>2. Total' = offset' + Len(stream')
    BY DEF Total
  <2> QED
    BY <1>3, <2>1, <2>2 DEF Total
<1>6. fault' \in {"none", "no handler", "null buffer"}
  BY <1>2 DEF ReadFault
<1>7. Typing'
  <2>1. offset' \in Nat
    BY <1>2, <1>3
  <2>2. FrontKept
    BY FrontUnchanged DEF Read
  <2> QED
    BY <1>1, <1>2, <1>4, <1>6, <2>1, <2>2 DEF Typing, FrontKept
<1>8. Histories'
  BY <1>1, <1>2 DEF Histories
<1>9. InTurn'
  BY <1>1, <1>2, <1>5 DEF InTurn, EndOf
<1>10. Carried'
  <2>1. ASSUME NEW i \in 1..Len(sent), NEW k \in 1..Capacity(sent[i].msg_type),
               starts[i] + k > offset + n
        PROVE  stream'[(starts[i] + k) - (offset + n)] = Encoded(sent[i]).buf[k]
    <3>1. starts[i] \in Nat /\ EndOf(i) <= Total
      BY <1>1 DEF InTurn
    <3>2. Capacity(sent[i].msg_type) \in Nat
      BY <1>1, MessageBytes DEF Histories
    <3>3. starts[i] + k <= Total /\ k \in Nat
      <4>1. EndOf(i) = starts[i] + Capacity(sent[i].msg_type)
        BY DEF EndOf
      <4>2. k \in Nat /\ k <= Capacity(sent[i].msg_type)
        BY <3>2
      <4>3. Total \in Nat
        BY <1>3, <1>5
      <4> QED
        BY <3>1, <3>2, <4>1, <4>2, <4>3
    <3>4. stream[(starts[i] + k) - offset] = Encoded(sent[i]).buf[k]
      <4>1. starts[i] + k > offset
        BY <1>3, <2>1, <3>1, <3>3
      <4> QED
        BY <1>1, <4>1 DEF Carried
    <3>5. /\ (starts[i] + k) - (offset + n) \in 1..(Len(stream) - n)
          /\ n + ((starts[i] + k) - (offset + n)) = (starts[i] + k) - offset
      <4> DEFINE at == starts[i] + k
      <4>1. at \in Nat /\ offset + n < at /\ at <= offset + Len(stream)
        BY <1>5, <2>1, <3>1, <3>3
      <4> HIDE DEF at
      <4>2. offset \in Nat /\ n \in Nat /\ Len(stream) \in Nat
        BY <1>3
      <4>3. at - (offset + n) \in 1..(Len(stream) - n) /\ n + (at - (offset + n)) = at - offset
        BY <4>1, <4>2, IndexBehind
      <4> QED
        BY <4>3 DEF at
    <3> QED
      BY <1>4, <3>4, <3>5
  <2> QED
    BY <1>2, <2>1 DEF Carried
<1>11. ASSUME fault' = "none"
       PROVE  LatestRead'
  <2>1. latest'.at = offset /\ latest'.size = n /\ latest'.msg = Decoded(buf)
    BY <1>2, <1>11
  <2>2. Decoded(buf) \in Message
    <3>1. SubSeq(stream, 1, n) \in Seq(Byte)
      BY <1>3
    <3>2. buf \in Chars(Capacity(SYSTEM))
      BY <3>1, InBufferIs
    <3>3. get_msg_type(buf) \in MsgType
      BY <1>2, <1>11 DEF ReadFault
    <3> HIDE DEF buf
    <3> QED
      BY <3>2, <3>3, WriteAfterRead
  <2>3. \A i \in 1..Len(sent) : starts[i] = offset =>
          /\ CutTo(Decoded(buf), sent[i], n)
          /\ n >= Capacity(sent[i].msg_type) => Decoded(buf) = sent[i]
    BY ChunkOfMessage
  <2> HIDE DEF buf
  <2>4. /\ latest'.at \in Nat /\ latest'.size \in Nat
        /\ latest'.at + latest'.size = offset' /\ latest'.at + latest'.size <= offset'
    BY <1>2, <1>3, <2>1
  <2> QED
    BY <1>2, <2>1, <2>2, <2>3, <2>4 DEF LatestRead
<1>12. ASSUME fault' # "none"
       PROVE  LatestRead' /\ latest' = latest
  <2>1. latest' = latest
    BY <1>2, <1>12
  <2>2. /\ latest.at \in Nat /\ latest.size \in Nat
        /\ latest.at + latest.size <= offset
    BY <1>1 DEF LatestRead
  <2>3. latest.at + latest.size <= offset'
    BY <1>2, <1>3, <2>2
  <2>4. LatestRead'
    BY <1>1, <1>2, <1>12, <2>1, <2>2, <2>3 DEF LatestRead
  <2> QED
    BY <2>1, <2>4
<1>13. CrashNeedsStray'
  <2> SUFFICES ASSUME fault' # "none", NEW i \in 1..Len(starts'),
                      starts'[i] = latest'.at + latest'.size
               PROVE  FALSE
    BY DEF CrashNeedsStray
  <2>1. latest' = latest /\ latest.at + latest.size = offset
    BY <1>1, <1>2, <1>12 DEF LatestRead
  <2>2. starts[i] = offset /\ i \in 1..Len(sent)
    <3>1. Len(starts) = Len(sent)
      BY <1>1 DEF Histories
    <3> QED
      BY <1>2, <2>1, <3>1
  <2>3. ReadFault(buf) = "none"
    BY <2>2, ChunkOfMessage
  <2> HIDE DEF buf
  <2> QED
    BY <1>2, <2>3
<1> QED
  BY <1>7, <1>8, <1>9, <1>10, <1>11, <1>12, <1>13 DEF WireInductive, Typing

\* The front end and the server write sound messages, and the front end's arrays
\* hold what was typed.
WritesSoundly ==
    \E msg, said : Sound(reversed, msg, said) /\ Write(msg, said) /\ FrontKept

LEMMA ProgramsWriteSoundly ==
    ASSUME WireInductive, FrontEnd \/ Server
    PROVE  WritesSoundly
<1>1. /\ reversed \in BOOLEAN /\ memory \in Chars(3 * NameSize)
      /\ typed.name \in Typed /\ typed.pswd \in Typed
      /\ CString(my_name(memory)) = NameLeft(reversed, typed.name, typed.pswd)
      /\ my_name(memory) \in Chars(NameSize) /\ server_name(memory) \in Chars(NameSize)
  <2>1. /\ reversed \in BOOLEAN /\ memory \in Chars(3 * NameSize)
        /\ typed.name \in Typed /\ typed.pswd \in Typed
        /\ CString(my_name(memory)) = NameLeft(reversed, typed.name, typed.pswd)
    BY DEF WireInductive
  <2>2. /\ 3 * NameSize \in Nat /\ NameAt \in Nat /\ NameAt + NameSize <= 3 * NameSize
        /\ 2 * NameSize - NameAt \in Nat
        /\ 2 * NameSize - NameAt + NameSize <= 3 * NameSize
    BY Sizes DEF NameAt
  <2> QED
    BY <2>1, <2>2, Sizes, CopyIsChars DEF my_name, server_name
<1>2. ASSUME NEW to \in User, NEW line \in Line, TypeText(to, line)
      PROVE  WritesSoundly
  <2>1. to \in Typed /\ line \in Chars(MsgSize)
    BY WireAssumption
  <2>2. FrontKept
    BY <1>2, FrontUnchanged DEF TypeText
  <2> QED
    BY <1>1, <1>2, <2>1, <2>2, TextIsSound DEF WritesSoundly, TypeText
<1>3. ASSUME NEW command \in {LOG_IN, REGISTR}, NEW name \in User, NEW pswd \in Secret,
             TypeCredentials(command, name, pswd)
      PROVE  WritesSoundly
  <2> DEFINE scanned == Scanned(Scanned(memory, NameAt, name), PswdAt, pswd)
             said == [what |-> "credentials", from |-> name, to |-> << >>, pswd |-> pswd]
             msg == Credentials(command, server_name(scanned), my_name(scanned),
                                my_pswd(scanned))
  <2>1. name \in Typed /\ pswd \in Typed /\ command \in Chars(IntSize)
    BY WireAssumption, WordIsChars DEF LOG_IN, REGISTR
  <2>2. /\ memory' = scanned /\ reversed' = reversed
        /\ typed' = [name |-> name, pswd |-> pswd]
        /\ Write(msg, said)
    BY <1>3 DEF TypeCredentials
  <2>3. /\ scanned \in Chars(3 * NameSize)
        /\ my_name(scanned) \in Chars(NameSize)
        /\ my_pswd(scanned) \in Chars(NameSize)
        /\ server_name(scanned) \in Chars(NameSize)
        /\ CString(my_pswd(scanned)) = Held(pswd)
        /\ CString(my_name(scanned)) = NameLeft(reversed, name, pswd)
    BY <1>1, <2>1, ArraysHold
  <2> HIDE DEF scanned
  <2>4. Sound(reversed, msg, said)
    BY <2>1, <2>3, CredentialsAreSound
  <2>5. my_name(memory)' = my_name(scanned)
    BY <2>2 DEF my_name, Copy, NameAt
  <2>6. FrontKept
    BY <2>1, <2>2, <2>3, <2>5 DEF FrontKept
  <2> QED
    BY <2>2, <2>4, <2>6 DEF WritesSoundly
<1>4. ASSUME TypeLogOut PROVE WritesSoundly
  <2>1. FrontKept
    BY <1>4, FrontUnchanged DEF TypeLogOut
  <2> QED
    BY <1>1, <1>4, <2>1, LogOutIsSound DEF WritesSoundly, TypeLogOut
<1>5. ASSUME NEW to \in Owner, NEW about \in User, Notify(to, about)
      PROVE  WritesSoundly
  <2>1. to \in Typed /\ about \in Typed
    BY WireAssumption
  <2>2. FrontKept
    BY <1>5, FrontUnchanged DEF Notify
  <2> QED
    BY <1>5, <2>1, <2>2, NoticeIsSound DEF WritesSoundly, Notify
<1>6. ASSUME NEW to \in Owner, NEW stat \in Stat, Answer(to, stat)
      PROVE  WritesSoundly
  <2>1. to \in Typed /\ stat \in Chars(IntSize)
    BY WireAssumption
  <2>2. FrontKept
    BY <1>6, FrontUnchanged DEF Answer
  <2> QED
    BY <1>6, <2>1, <2>2, AnswerIsSound DEF WritesSoundly, Answer
<1>7. ASSUME NEW from \in User, NEW to \in Owner, NEW line \in Line, Forward(from, to, line)
      PROVE  WritesSoundly
  <2>1. from \in Typed /\ to \in Typed /\ line \in Chars(MsgSize) /\ << >> \in Typed
    BY WireAssumption, NobodyIs
  <2>2. /\ Fresh(from) \in Chars(NameSize)
        /\ CString(Fresh(from)) = NameLeft(reversed, from, << >>)
    BY <2>1, FreshIs, NobodyIs
  <2>3. Sound(reversed, TextFrom(Fresh(from), Fresh(to), line),
              [what |-> "text", from |-> from, to |-> to, pswd |-> << >>])
    BY <2>1, <2>2, TextIsSound
  <2>4. FrontKept
    BY <1>7, FrontUnchanged DEF Forward
  <2> QED
    BY <1>7, <2>3, <2>4 DEF WritesSoundly, Forward
<1> QED
  BY <1>2, <1>3, <1>4, <1>5, <1>6, <1>7 DEF FrontEnd, Server

LEMMA NextInductive == WireInductive /\ [WireNext]_wireVars => WireInductive'
<1> SUFFICES ASSUME WireInductive, [WireNext]_wireVars PROVE WireInductive'
  OBVIOUS
<1>1. ASSUME FrontEnd \/ Server PROVE WireInductive'
  BY <1>1, ProgramsWriteSoundly, WriteInductive DEF WritesSoundly
<1>2. ASSUME Loop PROVE WireInductive'
  BY <1>2, ReadInductive DEF Loop
<1>3. CASE UNCHANGED wireVars
  <2>1. FrontKept
    BY <1>3, FrontUnchanged DEF wireVars
  <2>2. UNCHANGED << reversed, stream, readVars, meant, sent, starts >>
    BY <1>3 DEF wireVars, frontVars
  <2>3. Histories' /\ InTurn' /\ Carried' /\ LatestRead' /\ CrashNeedsStray'
    BY <2>2 DEF readVars, WireInductive, Histories, InTurn, EndOf, Total, Carried, LatestRead,
                CrashNeedsStray
  <2> QED
    BY <2>1, <2>2, <2>3 DEF readVars, WireInductive, FrontKept
<1> QED
  BY <1>1, <1>2, <1>3 DEF WireNext

\* The bytes of each message follow those of the one before it, and what was not
\* read yet is in the stream; every message says what was meant.
THEOREM InductiveInvariant == WireSpec => []WireInductive
BY InitInductive, NextInductive, PTL DEF WireSpec

-----------------------------------------------------------------------------
(* Places in the stream                                                    *)

Ascending(s) == \A i, j \in 1..Len(s) : i < j => s[i] < s[j]

\* The first of s that lies at o or behind it.
Place(s, o) ==
    CHOOSE j \in 1..(Len(s) + 1) :
        /\ \A i \in 1..(j - 1) : s[i] < o
        /\ \A i \in j..Len(s) : s[i] >= o

\* The one of s that is at; 0 if none is.
Exactly(s, at) ==
    IF \E i \in 1..Len(s) : s[i] = at THEN CHOOSE i \in 1..Len(s) : s[i] = at ELSE 0

\* The message that begins at s[i] is within size bytes from there.
WholeIn(s, msgs, at, size) ==
    /\ Exactly(s, at) # 0
    /\ size >= Capacity(msgs[Exactly(s, at)].msg_type)

LEMMA PlaceIs ==
    ASSUME NEW s \in Seq(Nat), Ascending(s), NEW o \in Nat
    PROVE  /\ Place(s, o) \in 1..(Len(s) + 1)
           /\ \A i \in 1..Len(s) : i < Place(s, o) <=> s[i] < o
<1> DEFINE n == Len(s)
           S == {j \in 1..(n + 1) : j \in 1..n => s[j] >= o}
           Fits(j) == /\ \A i \in 1..(j - 1) : s[i] < o
                      /\ \A i \in j..n : s[i] >= o
<1>1. n \in Nat /\ n + 1 \in S /\ S \subseteq Nat
  OBVIOUS
<1>2. PICK least \in S : \A j \in S : least <= j
  <2> HIDE DEF S
  <2> QED
    BY <1>1, LeastNumber
<1>3. least \in 1..(n + 1) /\ (least \in 1..n => s[least] >= o)
  BY <1>2
<1>4. \A i \in 1..(least - 1) : s[i] < o
  <2> TAKE i \in 1..(least - 1)
  <2>1. i \in 1..n /\ ~(least <= i)
    BY <1>1, <1>3
  <2>2. i \notin S
    BY <1>2, <2>1
  <2>3. s[i] \in Nat
    BY <2>1
  <2> QED
    BY <1>1, <2>1, <2>2, <2>3
<1>5. \A i \in least..n : s[i] >= o
  <2> TAKE i \in least..n
  <2>1. i \in 1..n /\ least \in 1..n
    BY <1>1, <1>3
  <2>2. s[i] \in Nat /\ s[least] \in Nat /\ s[least] >= o
    BY <1>3, <2>1
  <2>3. least < i => s[least] < s[i]
    BY <2>1 DEF Ascending
  <2>4. i = least \/ least < i
    BY <1>1, <2>1
  <2> QED
    BY <2>2, <2>3, <2>4
<1>6. Fits(least)
  BY <1>4, <1>5
<1>7. Place(s, o) = CHOOSE j \in 1..(n + 1) : Fits(j)
  BY DEF Place
<1> HIDE DEF Fits
<1>8. Place(s, o) \in 1..(n + 1) /\ Fits(Place(s, o))
  BY <1>3, <1>6, <1>7
<1> USE DEF Fits
<1>9. \A i \in 1..n : i < Place(s, o) <=> s[i] < o
  <2> TAKE i \in 1..n
  <2>1. CASE i < Place(s, o)
    <3>1. i \in 1..(Place(s, o) - 1)
      BY <1>1, <1>8, <2>1
    <3> QED
      BY <1>8, <2>1, <3>1
  <2>2. CASE ~(i < Place(s, o))
    <3>1. i \in Place(s, o)..n
      BY <1>1, <1>8, <2>2
    <3>2. s[i] >= o /\ s[i] \in Nat
      BY <1>8, <3>1
    <3> QED
      BY <2>2, <3>2
  <2> QED
    BY <2>1, <2>2
<1> QED
  BY <1>8, <1>9

LEMMA PlaceOnly ==
    ASSUME NEW s \in Seq(Nat), Ascending(s), NEW o \in Nat, NEW j \in 1..(Len(s) + 1),
           \A i \in 1..Len(s) : i < j <=> s[i] < o
    PROVE  Place(s, o) = j
<1>1. /\ Place(s, o) \in 1..(Len(s) + 1)
      /\ \A i \in 1..Len(s) : i < Place(s, o) <=> s[i] < o
  BY PlaceIs
<1>2. Len(s) \in Nat
  OBVIOUS
<1>3. CASE Place(s, o) < j
  <2>1. Place(s, o) \in 1..Len(s) /\ ~(Place(s, o) < Place(s, o))
    BY <1>1, <1>2, <1>3
  <2> QED
    BY <1>1, <1>3, <2>1
<1>4. CASE j < Place(s, o)
  <2>1. j \in 1..Len(s) /\ ~(j < j)
    BY <1>1, <1>2, <1>4
  <2> QED
    BY <1>1, <1>4, <2>1
<1> QED
  BY <1>1, <1>2, <1>3, <1>4

LEMMA ExactlyIs ==
    ASSUME NEW s \in Seq(Nat), NEW at \in Nat
    PROVE  /\ Exactly(s, at) # 0 => Exactly(s, at) \in 1..Len(s) /\ s[Exactly(s, at)] = at
           /\ \A i \in 1..Len(s) : s[i] = at => Exactly(s, at) # 0
<1>1. CASE \E i \in 1..Len(s) : s[i] = at
  <2>1. Exactly(s, at) \in 1..Len(s) /\ s[Exactly(s, at)] = at
    BY <1>1 DEF Exactly
  <2>2. Exactly(s, at) # 0
    BY <2>1
  <2> QED
    BY <2>1, <2>2
<1>2. CASE ~\E i \in 1..Len(s) : s[i] = at
  BY <1>2 DEF Exactly
<1> QED
  BY <1>1, <1>2

LEMMA AscendingDiffer ==
    ASSUME NEW s \in Seq(Nat), Ascending(s), NEW i \in 1..Len(s), NEW j \in 1..Len(s), s[i] = s[j]
    PROVE  i = j
<1>1. s[i] \in Nat /\ s[j] \in Nat
  OBVIOUS
<1>2. ~(i < j) /\ ~(j < i)
  BY <1>1 DEF Ascending
<1> QED
  BY <1>2

LEMMA WholeIs ==
    ASSUME NEW s \in Seq(Nat), Ascending(s), NEW at \in Nat, NEW msgs, NEW size
    PROVE  WholeIn(s, msgs, at, size) <=>
             \E i \in 1..Len(s) : s[i] = at /\ size >= Capacity(msgs[i].msg_type)
<1>1. ASSUME WholeIn(s, msgs, at, size)
      PROVE  \E i \in 1..Len(s) : s[i] = at /\ size >= Capacity(msgs[i].msg_type)
  BY <1>1, ExactlyIs DEF WholeIn
<1>2. ASSUME NEW i \in 1..Len(s), s[i] = at, size >= Capacity(msgs[i].msg_type)
      PROVE  WholeIn(s, msgs, at, size)
  <2>1. Exactly(s, at) # 0 /\ Exactly(s, at) \in 1..Len(s) /\ s[Exactly(s, at)] = at
    BY <1>2, ExactlyIs
  <2>2. Exactly(s, at) = i
    BY <1>2, <2>1, AscendingDiffer
  <2> QED
    BY <1>2, <2>1, <2>2 DEF WholeIn
<1> QED
  BY <1>1, <1>2

-----------------------------------------------------------------------------
(* Safety                                                                  *)

\* The messages lie behind each other.
LEMMA Laid ==
    ASSUME WireInductive
    PROVE  /\ sent \in Seq(Message) /\ starts \in Seq(Nat) /\ Len(sent) = Len(starts)
           /\ Len(sent) \in Nat
           /\ Total \in Nat /\ offset \in Nat /\ Total = offset + Len(stream)
           /\ Ascending(starts)
           /\ \A i \in 1..Len(sent) :
                /\ starts[i] \in Nat
                /\ Capacity(sent[i].msg_type) \in Nat /\ Capacity(sent[i].msg_type) > 0
                /\ starts[i] + Capacity(sent[i].msg_type) <= Total
                /\ \A j \in 1..Len(sent) :
                      i < j => starts[i] + Capacity(sent[i].msg_type) <= starts[j]
<1>1. /\ sent \in Seq(Message) /\ starts \in Seq(Nat) /\ Len(sent) = Len(starts)
      /\ Len(sent) \in Nat
  <2>1. sent \in Seq(Message) /\ starts \in Seq(Nat) /\ Len(sent) = Len(starts)
    BY DEF WireInductive, Histories
  <2> QED
    BY <2>1
<1>2. Total \in Nat /\ offset \in Nat /\ Total = offset + Len(stream)
  <2>1. stream \in Seq(Byte) /\ offset \in Nat
    BY DEF WireInductive
  <2> QED
    BY <2>1 DEF Total
<1>3. ASSUME NEW i \in 1..Len(sent)
      PROVE  /\ starts[i] \in Nat
             /\ Capacity(sent[i].msg_type) \in Nat /\ Capacity(sent[i].msg_type) > 0
             /\ starts[i] + Capacity(sent[i].msg_type) <= Total
             /\ \A j \in 1..Len(sent) :
                   i < j => starts[i] + Capacity(sent[i].msg_type) <= starts[j]
  <2>1. sent[i] \in Message
    BY DEF WireInductive, Histories
  <2>2. Capacity(sent[i].msg_type) \in Nat /\ Capacity(sent[i].msg_type) > 0
    BY <2>1, MessageBytes
  <2> QED
    BY <2>2 DEF WireInductive, InTurn, EndOf
<1>4. Ascending(starts)
  <2>1. ASSUME NEW i \in 1..Len(sent), NEW j \in 1..Len(sent), i < j
        PROVE  starts[i] < starts[j]
    <3>1. /\ starts[i] \in Nat /\ starts[j] \in Nat
          /\ Capacity(sent[i].msg_type) \in Nat /\ Capacity(sent[i].msg_type) > 0
          /\ starts[i] + Capacity(sent[i].msg_type) <= starts[j]
      BY <1>3, <2>1
    <3> QED
      BY <3>1
  <2> QED
    BY <1>1, <2>1 DEF Ascending
<1> QED
  BY <1>1, <1>2, <1>3, <1>4

\* The variables have their types, no buffer is filled past its end, and every
\* message occupies as many bytes of the stream as its type has.
THEOREM TypeCorrect == WireSpec => []WireTypeOK
<1>1. ASSUME WireInductive PROVE WireTypeOK
  <2>1. /\ Len(sent) = Len(starts) /\ Len(sent) = Len(meant)
        /\ \A i \in 1..Len(sent) : sent[i] \in Message
    BY <1>1 DEF WireInductive, Histories
  <2>2. ASSUME NEW i \in 1..Len(sent)
        PROVE  Capacity(sent[i].msg_type)
                 = (IF i = Len(sent) THEN Total ELSE starts[i + 1]) - starts[i]
    <3>1. starts[i] + Capacity(sent[i].msg_type) = IF i = Len(sent) THEN Total ELSE starts[i + 1]
      BY <1>1 DEF WireInductive, InTurn, EndOf
    <3>2. starts[i] \in Nat /\ Capacity(sent[i].msg_type) \in Nat
      BY <1>1, Laid
    <3> HIDE <1>1
    <3> QED
      BY <3>1, <3>2
  <2>3. \A i \in 1..Len(stream) : stream[i] \in Byte
    <3>1. stream \in Seq(Byte)
      BY <1>1 DEF WireInductive
    <3> QED
      BY <3>1
  <2>4. /\ latest.size > 0 => latest.msg \in Message
        /\ fault \in {"none", "no handler", "null buffer"}
    BY <1>1 DEF WireInductive, LatestRead
  <2>5. \A i \in 1..Len(sent) : Encoded(sent[i]).size = Encoded(sent[i]).capacity
    BY <2>1, BuffersAreFilled
  <2> QED
    BY <2>1, <2>2, <2>3, <2>4, <2>5 DEF WireTypeOK
<1> QED
  BY <1>1, InductiveInvariant, PTL

\* on_read ends the process only by a chunk that begins within a message.
THEOREM CrashesAreStray == WireSpec => []CrashNeedsStray
<1>1. WireInductive => CrashNeedsStray
  BY DEF WireInductive
<1> QED
  BY <1>1, InductiveInvariant, PTL

LEMMA OriginFound ==
    ASSUME WireInductive, Origin # 0
    PROVE  Origin \in 1..Len(sent) /\ starts[Origin] = latest.at
<1>1. starts \in Seq(Nat) /\ Len(sent) = Len(starts) /\ latest.at \in Nat
  BY Laid DEF WireInductive, LatestRead
<1>2. Origin = Exactly(starts, latest.at)
  BY DEF Origin, Exactly
<1> QED
  BY <1>1, <1>2, ExactlyIs

\* A chunk that begins with a message and has not all of it gives that message
\* cut short, for every size of chunk.
THEOREM CutsTruncate == WireSpec => []CutsOnlyTruncate
<1>1. ASSUME WireInductive PROVE CutsOnlyTruncate
  BY <1>1, OriginFound DEF CutsOnlyTruncate, WireInductive, LatestRead
<1> QED
  BY <1>1, InductiveInvariant, PTL

\* What arrives whole means at the server what the user typed last, for names and
\* passwords of every length and for both orders of the front end's arrays, but for
\* the name that a password has overwritten.
THEOREM NamesArrive == WireSpec => []NamesSurvive
<1>1. ASSUME WireInductive PROVE NamesSurvive
  <2> SUFFICES ASSUME latest.size > 0, Whole PROVE Says(reversed, latest.msg, meant[Origin])
    BY DEF NamesSurvive
  <2>1. Origin \in 1..Len(sent) /\ starts[Origin] = latest.at
    BY <1>1, OriginFound DEF Whole
  <2>2. latest.msg = sent[Origin]
    BY <1>1, <2>1 DEF Whole, WireInductive, LatestRead
  <2>3. Says(reversed, sent[Origin], meant[Origin])
    BY <1>1, <2>1 DEF WireInductive, Histories
  <2> QED
    BY <2>2, <2>3
<1> QED
  BY <1>1, InductiveInvariant, PTL

-----------------------------------------------------------------------------
(* The channel                                                             *)

Got == IF Whole THEN latest.msg ELSE NoMessage

LEMMA Mapped ==
    /\ NextSent = Place(starts, offset)
    /\ Whole <=> WholeIn(starts, sent, latest.at, latest.size)
BY DEF NextSent, Place, Whole, Origin, WholeIn, Exactly

LEMMA MappedNext ==
    /\ NextSent' = Place(starts', offset')
    /\ Whole' <=> WholeIn(starts', sent', latest'.at, latest'.size)
BY DEF NextSent, Place, Whole, Origin, WholeIn, Exactly

\* A new message is behind everything that is looked at.
LEMMA WriteIsSend ==
    ASSUME WireInductive, NEW msg, NEW said, msg \in Message, Write(msg, said)
    PROVE  /\ fault = "none" /\ fault' = fault
           /\ Ideal!Grows(sent, sent')
           /\ NextSent' = NextSent
           /\ Astray' = Astray
           /\ Got' = Got
<1> DEFINE n == Len(sent)
           c == Capacity(msg.msg_type)
<1>1. /\ fault = "none" /\ stream' = stream \o Encoded(msg).buf
      /\ starts' = Append(starts, Total) /\ sent' = Append(sent, msg)
      /\ offset' = offset /\ fault' = fault /\ latest' = latest
  BY DEF Write, readVars, Total
<1>2. /\ sent \in Seq(Message) /\ starts \in Seq(Nat) /\ n = Len(starts) /\ n \in Nat
      /\ Total \in Nat /\ offset \in Nat /\ Total = offset + Len(stream)
      /\ Ascending(starts)
  BY Laid
<1>3. /\ latest.at \in Nat /\ latest.size \in Nat /\ latest.at + latest.size = offset
  BY <1>1 DEF WireInductive, LatestRead
<1>4. ASSUME NEW i \in 1..n
      PROVE  starts[i] \in Nat /\ starts[i] < Total /\ Capacity(sent[i].msg_type) > 0
             /\ Capacity(sent[i].msg_type) \in Nat
  <2>1. /\ starts[i] \in Nat /\ Capacity(sent[i].msg_type) \in Nat
        /\ Capacity(sent[i].msg_type) > 0 /\ starts[i] + Capacity(sent[i].msg_type) <= Total
    BY Laid
  <2> QED
    BY <1>2, <2>1
<1>5. /\ starts' \in Seq(Nat) /\ Len(starts') = n + 1 /\ Len(sent') = n + 1
      /\ \A i \in 1..n : starts'[i] = starts[i] /\ sent'[i] = sent[i]
      /\ starts'[n + 1] = Total /\ sent'[n + 1] = msg
  BY <1>1, <1>2
<1>6. c \in Nat /\ c > 0 /\ Total' = Total + c
  <2>1. c \in Nat /\ c > 0 /\ Encoded(msg).buf \in Seq(Byte) /\ Len(Encoded(msg).buf) = c
    BY MessageBytes
  <2>2. stream \in Seq(Byte)
    BY DEF WireInductive
  <2>3. Len(stream \o Encoded(msg).buf) = Len(stream) + c /\ Len(stream) \in Nat
    BY <2>1, <2>2
  <2>4. Total' = offset + Len(stream \o Encoded(msg).buf)
    BY <1>1 DEF Total
  <2> QED
    BY <1>2, <2>1, <2>3, <2>4
<1> HIDE DEF n, c
<1>7. 1..(n + 1) = 1..n \cup {n + 1}
  BY <1>2
<1>8. Ascending(starts')
  <2>1. ASSUME NEW i \in 1..(n + 1), NEW j \in 1..(n + 1), i < j
        PROVE  starts'[i] < starts'[j]
    <3>1. i \in 1..n
      BY <1>2, <2>1
    <3>2. CASE j = n + 1
      BY <1>4, <1>5, <3>1, <3>2
    <3>3. CASE j \in 1..n
      BY <1>2, <1>5, <2>1, <3>1, <3>3 DEF Ascending
    <3> QED
      BY <1>7, <3>2, <3>3
  <2> QED
    BY <1>5, <2>1 DEF Ascending
<1>9. NextSent' = NextSent
  <2> DEFINE j == Place(starts, offset)
  <2>1. j \in 1..(n + 1) /\ \A i \in 1..n : i < j <=> starts[i] < offset
    BY <1>2, PlaceIs
  <2> HIDE DEF j
  <2>2. ~(n + 1 < j) /\ ~(Total < offset) /\ j \in 1..((n + 1) + 1)
    <3>1. Len(stream) \in Nat
      <4>1. stream \in Seq(Byte)
        BY DEF WireInductive
      <4> QED
        BY <4>1
    <3> QED
      BY <1>2, <2>1, <3>1
  <2>3. \A i \in 1..(n + 1) : i < j <=> starts'[i] < offset
    BY <1>5, <1>7, <2>1, <2>2
  <2>4. Place(starts', offset) = j
    BY <1>2, <1>5, <1>8, <2>2, <2>3, PlaceOnly
  <2> QED
    BY <1>1, <2>4, Mapped, MappedNext DEF j
<1>10. Astray' = Astray
  <2>1. Total' # offset
    BY <1>2, <1>6, Laid
  <2>2. Astray <=> Total # offset /\ \A i \in 1..n : starts[i] # offset
    BY <1>2 DEF Astray
  <2>3. Astray' <=> \A i \in 1..(n + 1) : starts'[i] # offset
    BY <1>1, <1>5, <2>1 DEF Astray
  <2>4. Astray' <=> Astray
    BY <1>5, <1>7, <2>2, <2>3
  <2>5. Astray \in BOOLEAN /\ Astray' \in BOOLEAN
    BY DEF Astray
  <2> QED
    BY <2>4, <2>5
<1>11. Whole' <=> Whole
  <2>1. Whole <=> \E i \in 1..n : starts[i] = latest.at
                                  /\ latest.size >= Capacity(sent[i].msg_type)
    BY <1>2, <1>3, Mapped, WholeIs
  <2>2. Whole' <=> \E i \in 1..(n + 1) : starts'[i] = latest.at
                                          /\ latest.size >= Capacity(sent'[i].msg_type)
    <3>1. WholeIn(starts', sent', latest.at, latest.size)
            <=> \E i \in 1..Len(starts') : starts'[i] = latest.at
                                           /\ latest.size >= Capacity(sent'[i].msg_type)
      <4>1. starts' \in Seq(Nat) /\ Ascending(starts') /\ latest.at \in Nat
        BY <1>3, <1>5, <1>8
      <4> QED
        BY <4>1, WholeIs
    <3>2. Whole' <=> WholeIn(starts', sent', latest.at, latest.size)
      BY <1>1, MappedNext
    <3>3. Len(starts') = n + 1
      BY <1>5
    <3> QED
      BY <3>1, <3>2, <3>3
  <2>3. ~(Total = latest.at /\ latest.size >= c)
    BY <1>2, <1>3, <1>6, Laid
  <2> QED
    BY <1>5, <1>7, <2>1, <2>2, <2>3 DEF c
<1>12. Got' = Got
  BY <1>1, <1>11 DEF Got
<1>13. Ideal!Grows(sent, sent')
  <2>1. SubSeq(sent', 1, n) = sent
    BY <1>1, <1>2 DEF n
  <2> QED
    BY <1>5, <2>1 DEF Ideal!Grows, n
<1> QED
  BY <1>1, <1>9, <1>10, <1>12, <1>13

LEMMA ReadFacts ==
    ASSUME WireInductive, NEW n \in 1..Len(stream), Read(n)
    PROVE  /\ fault = "none" /\ n \in Nat /\ n > 0 /\ offset' = offset + n
           /\ fault' = ReadFault(InBuffer(SubSeq(stream, 1, n)))
           /\ latest' = IF fault' = "none"
                        THEN [at |-> offset, size |-> n,
                              msg |-> Decoded(InBuffer(SubSeq(stream, 1, n)))] ELSE latest
           /\ sent' = sent /\ starts' = starts
           /\ Total' = Total /\ Total # offset
           /\ NextSent' \in NextSent..(Len(sent) + 1) /\ Astray' \in BOOLEAN
<1>1. /\ fault = "none" /\ stream' = SubSeq(stream, n + 1, Len(stream))
      /\ offset' = offset + n
      /\ fault' = ReadFault(InBuffer(SubSeq(stream, 1, n)))
      /\ latest' = IF fault' = "none"
                   THEN [at |-> offset, size |-> n,
                         msg |-> Decoded(InBuffer(SubSeq(stream, 1, n)))] ELSE latest
      /\ sent' = sent /\ starts' = starts
  BY DEF Read
<1>2. /\ stream \in Seq(Byte) /\ Len(stream) \in Nat /\ n \in Nat /\ 0 < n /\ n <= Len(stream)
      /\ offset \in Nat /\ Total = offset + Len(stream)
  <2>1. stream \in Seq(Byte) /\ offset \in Nat
    BY DEF WireInductive
  <2> QED
    BY <2>1 DEF Total
<1>3. Total' = Total /\ Total # offset
  <2>1. Len(stream') = Len(stream) - n
    <3>1. stream' = SubSeq(stream, n + 1, Len(stream))
      BY <1>1
    <3> QED
      BY <1>2, <3>1, BytesBehind
  <2>2. Total' = (offset + n) + Len(stream')
    BY <1>1 DEF Total
  <2> QED
    BY <1>2, <2>1, <2>2
<1>4. NextSent' \in NextSent..(Len(sent) + 1)
  <2> DEFINE p == Place(starts, offset)
             q == Place(starts, offset + n)
  <2>1. /\ starts \in Seq(Nat) /\ Ascending(starts) /\ Len(sent) = Len(starts)
        /\ Len(sent) \in Nat /\ offset + n \in Nat
    BY <1>2, Laid
  <2>2. /\ p \in 1..(Len(sent) + 1) /\ q \in 1..(Len(sent) + 1)
        /\ \A i \in 1..Len(sent) : (i < p <=> starts[i] < offset)
                                   /\ (i < q <=> starts[i] < offset + n)
    BY <1>2, <2>1, PlaceIs
  <2> HIDE DEF p, q
  <2>3. ~(q < p)
    <3> SUFFICES ASSUME q < p PROVE FALSE
      OBVIOUS
    <3>1. q \in 1..Len(sent)
      BY <2>1, <2>2
    <3>2. starts[q] < offset /\ ~(starts[q] < offset + n)
      BY <2>2, <3>1
    <3>3. starts[q] \in Nat
      BY <2>1, <3>1
    <3> QED
      BY <1>2, <3>2, <3>3
  <2>4. NextSent = p /\ NextSent' = q
    BY <1>1, Mapped, MappedNext DEF p, q
  <2> QED
    BY <2>1, <2>2, <2>3, <2>4
<1>5. Astray' \in BOOLEAN
  BY DEF Astray
<1> QED
  BY <1>1, <1>2, <1>3, <1>4, <1>5

\* A chunk that begins with a message delivers it or cuts it.
LEMMA ReadDelivers ==
    ASSUME WireInductive, NEW n \in 1..Len(stream), Read(n),
           NEW i \in 1..Len(sent), starts[i] = offset
    PROVE  /\ ~Astray /\ NextSent = i /\ fault' = "none" /\ NextSent' > i
           /\ \/ Got' = sent[i]
              \/ NextSent' = i + 1 /\ Astray' /\ Got' = NoMessage
<1> DEFINE c == Capacity(sent[i].msg_type)
           buf == InBuffer(SubSeq(stream, 1, n))
<1>1. /\ fault = "none" /\ n \in Nat /\ n > 0 /\ offset' = offset + n
      /\ fault' = ReadFault(buf)
      /\ latest' = IF fault' = "none"
                   THEN [at |-> offset, size |-> n, msg |-> Decoded(buf)] ELSE latest
      /\ sent' = sent /\ starts' = starts /\ Total' = Total
  BY ReadFacts
<1>2. ReadFault(buf) = "none" /\ (n >= c => Decoded(buf) = sent[i])
  BY ChunkOfMessage
<1> HIDE DEF buf
<1>3. fault' = "none" /\ latest'.at = offset /\ latest'.size = n /\ latest'.msg = Decoded(buf)
  BY <1>1, <1>2
<1>4. /\ starts \in Seq(Nat) /\ Ascending(starts) /\ Len(starts) = Len(sent) /\ Len(sent) \in Nat
      /\ offset \in Nat /\ offset + n \in Nat /\ Total \in Nat
  <2>1. /\ starts \in Seq(Nat) /\ Ascending(starts) /\ Len(starts) = Len(sent)
        /\ Len(sent) \in Nat /\ offset \in Nat /\ Total \in Nat
    BY Laid
  <2> QED
    BY <1>1, <2>1
<1>5. /\ c \in Nat /\ c > 0 /\ offset + c <= Total
      /\ \A j \in 1..Len(sent) : i < j => offset + c <= starts[j]
  BY Laid
<1> HIDE DEF c
<1>6. ~Astray
  BY <1>4 DEF Astray
<1>7. ASSUME NEW j \in 1..Len(sent)
      PROVE  starts[j] \in Nat /\ (j < i => starts[j] < offset) /\ (i < j => offset < starts[j])
  BY <1>4, <1>7 DEF Ascending
<1>8. NextSent = i
  <2>1. \A j \in 1..Len(sent) : j < i <=> starts[j] < offset
    <3> TAKE j \in 1..Len(sent)
    <3>1. j = i \/ j < i \/ i < j
      BY <1>4
    <3> QED
      BY <1>4, <1>7, <3>1
  <2>2. i \in 1..(Len(starts) + 1)
    BY <1>4
  <2> QED
    BY <1>4, <2>1, <2>2, PlaceOnly, Mapped
<1>9. NextSent' = Place(starts, offset + n)
  BY <1>1, MappedNext
<1>10. NextSent' > i
  <2>1. i < Place(starts, offset + n)
    <3>1. starts[i] < offset + n
      BY <1>1, <1>4
    <3> QED
      BY <1>4, <3>1, PlaceIs
  <2>2. Place(starts, offset + n) \in Nat
    <3>1. Place(starts, offset + n) \in 1..(Len(starts) + 1)
      BY <1>4, PlaceIs
    <3> QED
      BY <1>4, <3>1
  <2> QED
    BY <1>4, <1>9, <2>1, <2>2
<1>11. Whole' <=> n >= c
  <2>1. WholeIn(starts, sent, offset, n)
          <=> \E j \in 1..Len(sent) : starts[j] = offset /\ n >= Capacity(sent[j].msg_type)
    BY <1>4, WholeIs
  <2>2. \A j \in 1..Len(sent) : starts[j] = offset => j = i
    BY <1>4, AscendingDiffer
  <2>3. Whole' <=> WholeIn(starts, sent, offset, n)
    BY <1>1, <1>3, MappedNext
  <2> QED
    BY <2>1, <2>2, <2>3 DEF c
<1>12. CASE n >= c
  <2>1. Got' = sent[i]
    BY <1>2, <1>3, <1>11, <1>12 DEF Got, c
  <2> QED
    BY <1>3, <1>6, <1>8, <1>10, <2>1
<1>13. CASE ~(n >= c)
  <2>1. Got' = NoMessage
    BY <1>11, <1>13 DEF Got, NoMessage
  <2>2. offset + n < offset + c
    BY <1>1, <1>4, <1>5, <1>13
  <2>3. \A j \in 1..Len(sent) : (j < i + 1 <=> starts[j] < offset + n) /\ starts[j] # offset + n
    <3> TAKE j \in 1..Len(sent)
    <3>1. j = i \/ j < i \/ i < j
      BY <1>4
    <3>2. CASE j = i \/ j < i
      <4>1. starts[j] <= offset /\ starts[j] \in Nat
        BY <1>4, <1>7, <3>2
      <4>2. j < i + 1
        BY <1>4, <3>2
      <4> QED
        BY <1>1, <1>4, <4>1, <4>2
    <3>3. CASE i < j
      <4>1. offset + c <= starts[j] /\ starts[j] \in Nat
        BY <1>5, <1>7, <3>3
      <4>2. ~(j < i + 1)
        BY <1>4, <3>3
      <4> QED
        BY <1>4, <1>5, <2>2, <4>1, <4>2
    <3> QED
      BY <3>1, <3>2, <3>3
  <2>4. NextSent' = i + 1
    <3>1. i + 1 \in 1..(Len(starts) + 1)
      BY <1>4
    <3> QED
      BY <1>4, <1>9, <2>3, <3>1, PlaceOnly
  <2>5. Astray'
    <3>1. Total # offset + n
      BY <1>4, <1>5, <2>2
    <3> QED
      BY <1>1, <1>4, <2>3, <3>1 DEF Astray
  <2> QED
    BY <1>3, <1>6, <1>8, <1>10, <2>1, <2>4, <2>5
<1> QED
  BY <1>12, <1>13

\* A chunk that begins within a message delivers none.
LEMMA ReadStrays ==
    ASSUME WireInductive, NEW n \in 1..Len(stream), Read(n),
           \A i \in 1..Len(sent) : starts[i] # offset
    PROVE  /\ Astray
           /\ \/ Got' = NoMessage /\ fault' = "none"
              \/ Got' = Got /\ fault' # "none"
<1>1. /\ fault = "none" /\ n \in Nat /\ n > 0 /\ offset' = offset + n
      /\ latest' = IF fault' = "none"
                   THEN [at |-> offset, size |-> n,
                         msg |-> Decoded(InBuffer(SubSeq(stream, 1, n)))] ELSE latest
      /\ sent' = sent /\ starts' = starts /\ Total' = Total /\ Total # offset
  BY ReadFacts
<1>2. /\ starts \in Seq(Nat) /\ Ascending(starts) /\ Len(starts) = Len(sent) /\ offset \in Nat
  BY Laid
<1>3. Astray
  BY <1>1, <1>2 DEF Astray
<1>4. CASE fault' = "none"
  <2>1. latest'.at = offset /\ latest'.size = n
    BY <1>1, <1>4
  <2>2. Whole' <=> WholeIn(starts, sent, offset, n)
    BY <1>1, <2>1, MappedNext
  <2>3. ~WholeIn(starts, sent, offset, n)
    BY <1>2, WholeIs
  <2>4. Got' = NoMessage
    BY <2>2, <2>3 DEF Got, NoMessage
  <2> QED
    BY <1>3, <1>4, <2>4
<1>5. CASE fault' # "none"
  <2>1. latest' = latest
    BY <1>1, <1>5
  <2>2. Whole' <=> Whole
    BY <1>1, <2>1, Mapped, MappedNext
  <2>3. Got' = Got
    BY <2>1, <2>2 DEF Got, NoMessage
  <2> QED
    BY <1>3, <1>5, <2>3
<1> QED
  BY <1>4, <1>5

LEMMA InitMaps == WireInit => Ideal!Init
<1> SUFFICES ASSUME WireInit PROVE Ideal!Init
  OBVIOUS
<1>1. sent = << >> /\ starts = << >> /\ stream = << >> /\ offset = 0 /\ fault = "none"
  BY DEF WireInit
<1>2. NextSent = 1
  <2>1. starts \in Seq(Nat) /\ Ascending(starts) /\ 1 \in 1..(Len(starts) + 1)
    BY <1>1 DEF Ascending
  <2>2. \A i \in 1..Len(starts) : i < 1 <=> starts[i] < offset
    BY <1>1
  <2> QED
    BY <1>1, <2>1, <2>2, PlaceOnly, Mapped
<1>3. Astray = FALSE
  BY <1>1 DEF Astray, Total
<1>4. ~Whole
  BY <1>1 DEF Whole, Origin
<1> QED
  BY <1>1, <1>2, <1>3, <1>4 DEF Ideal!Init

LEMMA WriteMaps ==
    ASSUME WireInductive, NEW msg, NEW said, msg \in Message, Write(msg, said)
    PROVE  Ideal!Next
<1>1. /\ fault = "none" /\ fault' = fault
      /\ Ideal!Grows(sent, sent')
      /\ NextSent' = NextSent
      /\ Astray' = Astray
      /\ Got' = Got
  BY WriteIsSend
<1> QED
  BY <1>1 DEF Ideal!Next, Ideal!Send, Got

LEMMA ReadMaps ==
    ASSUME WireInductive, NEW n \in 1..Len(stream), Read(n)
    PROVE  Ideal!Next
<1>1. /\ fault = "none" /\ sent' = sent
      /\ NextSent' \in NextSent..(Len(sent) + 1) /\ Astray' \in BOOLEAN
  BY ReadFacts
<1>2. ASSUME NEW i \in 1..Len(sent), starts[i] = offset
      PROVE  Ideal!Deliver \/ Ideal!Cut
  <2>1. /\ ~Astray /\ NextSent = i /\ fault' = "none" /\ NextSent' > i
        /\ \/ Got' = sent[i]
           \/ NextSent' = i + 1 /\ Astray' /\ Got' = NoMessage
    BY <1>2, ReadDelivers
  <2>2. i <= Len(sent)
    BY Laid
  <2>3. CASE Got' = sent[i]
    BY <1>1, <2>1, <2>2, <2>3 DEF Ideal!Deliver, Ideal!Skip, Got
  <2>4. CASE NextSent' = i + 1 /\ Astray' /\ Got' = NoMessage
    BY <1>1, <2>1, <2>2, <2>4 DEF Ideal!Cut, Ideal!Skip, Got
  <2> QED
    BY <2>1, <2>3, <2>4
<1>3. ASSUME \A i \in 1..Len(sent) : starts[i] # offset
      PROVE  Ideal!Stray
  <2>1. /\ Astray
        /\ \/ Got' = NoMessage /\ fault' = "none"
           \/ Got' = Got /\ fault' # "none"
    BY <1>3, ReadStrays
  <2> QED
    BY <1>1, <2>1 DEF Ideal!Stray, Ideal!Skip, Got
<1> QED
  BY <1>1, <1>2, <1>3 DEF Ideal!Next

LEMMA StutterMaps ==
    ASSUME UNCHANGED wireVars
    PROVE  UNCHANGED Ideal!vars
<1>1. /\ sent' = sent /\ starts' = starts /\ offset' = offset /\ stream' = stream
      /\ latest' = latest /\ fault' = fault
  BY DEF wireVars, readVars
<1>2. NextSent' = NextSent /\ (Whole' <=> Whole)
  BY <1>1, Mapped, MappedNext
<1>3. Astray' = Astray
  BY <1>1 DEF Astray, Total
<1>4. Got' = Got
  BY <1>1, <1>2 DEF Got, NoMessage
<1> QED
  BY <1>1, <1>2, <1>3, <1>4 DEF Ideal!vars, Got

LEMMA NextMaps == WireInductive /\ [WireNext]_wireVars => [Ideal!Next]_(Ideal!vars)
<1> SUFFICES ASSUME WireInductive, [WireNext]_wireVars PROVE [Ideal!Next]_(Ideal!vars)
  OBVIOUS
<1>1. ASSUME FrontEnd \/ Server PROVE Ideal!Next
  BY <1>1, ProgramsWriteSoundly, WriteMaps DEF WritesSoundly, Sound
<1>2. ASSUME Loop PROVE Ideal!Next
  BY <1>2, ReadMaps DEF Loop
<1>3. CASE UNCHANGED wireVars
  BY <1>3, StutterMaps
<1> QED
  BY <1>1, <1>2, <1>3 DEF WireNext

\* Bytes, buffers and chunks implement the channel, for every sequence of messages
\* and every division of their bytes into chunks.
THEOREM IsAChannel == WireSpec => ImplementsChannel
<1>1. WireInit => Ideal!Init
  BY InitMaps
<1>2. WireInductive /\ [WireNext]_wireVars => [Ideal!Next]_(Ideal!vars)
  BY NextMaps
<1> QED
  BY <1>1, <1>2, InductiveInvariant, PTL DEF WireSpec, ImplementsChannel, Ideal!Spec

=============================================================================
