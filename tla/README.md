# Odnokursniki: a TLA+ project

Odnokursniki is a chat in C++20: a server process that keeps registered clients
and forwards their messages, and a client process for one user. Both run one
libuv event loop and a few POSIX threads, joined by a thread-safe list and by
`uv_async_t` handles. This directory holds TLA+ modules of that program, TLC
configurations that check them, and TLAPS proofs about them: every safety
property that a passing run checks is also proved for all values of the constants.
The first version of the server, in C, is kept in the repository under `old_c_version` and
has a model of its own. Paths below are those of the repository.

## 1. Inventory

| component | source | state | operations |
|---|---|---|---|
| `my_list` | `inc/list` | array of nodes, two rings of links (used, free), size, capacity | insert and delete by position or by index, insert at the head, grow, shrink, put in order |
| `ts_list` | `inc/threads_safe.h` | a `my_list`, `mx_list`, `update` with `mx_update` | `insert_head`, `wait`, `get_head`, `delete_head` |
| async calls | `src/networking.cpp` | one slot (`next_closing`) and one mark per handle | `call_async_write`, `call_async_close`, `call_async_stop` and their callbacks |
| client base | `src/chat_base.cpp` | array of records: stream, name, two hashes, status | register, log in, log out, find by name or stream, toggle the status |
| server interface | `src/server.cpp` | the client base | one request at a time: `operate_request`, `operate_command`, broadcasts, error answers |
| sender | `src/sender.cpp` | its status | take a message from `outgoing_msg`, find the addressee's stream, post a write |
| loop | `src/networking.cpp` | `uv_tcp_t` handles, the async handles | accept, connect, read, write, close, stop |
| client program | `src/client.cpp` | ONLINE or OFFLINE, `server_dest` | front end, interface, shutdown |
| messages | `inc/messages` | buffers | one reader and one writer per message type |
| stream framing | `src/networking.cpp` | bytes on their way | `on_read` makes a message of every chunk |
| first version | `old_c_version/server.c` | table of users, kept mail | commands as lines of text, accept, read, close |

Threads and their connections, in the server:

    TCP --> loop --incoming_msg--> interface --outgoing_msg--> sender --async_send--> loop --> TCP
             ^                        |  ^------incoming_msg------|
             |-------async_close------|

and in the client:

    user --> front --outgoing_msg--> sender --async_send--> loop --> TCP
                         ^                                   | ^
                         |--SHUTDOWN_SEND-- interface <--incoming_msg |
                                               |------async_stop------|

What is hard here, and what makes each part correct:

* **The reading sequence** `wait(); get_head()->data; delete_head()` is three
  critical sections and an unlocked copy, and up to two other threads insert in
  between. The reader must never find the list empty, follow a dangling
  pointer, or lose, repeat or strand a message. (Some of this holds, some does
  not: section 5.)
* **The condition variable** has a mutex of its own. No deadlock between the
  two mutexes, and no sleeper that is never woken.
* **The list** changes size under its links. Both rings must stay rings, and
  the result must be the sequence the caller expects.
* **An async handle** has one slot for any number of requests, signals
  coalesce, and a server initialises its handles again for every connection.
* **The base** is keyed by a 64-bit hash and written by one thread while
  another reads it. Look-ups must find the client that was meant, and only the
  owner of a name may redirect its messages.
* **Connections** are closed on the word of three different parties, and
  `calloc` uses their addresses again.
* **The client** starts its threads before it has a connection and has to
  take them down one after the other when the connection is gone.
* **Messages** are written and read by computing the offsets of their fields in
  eight functions; names are padded in one place and compared as C strings in
  another. What is read must be what was written and what was meant.
* **TCP** carries bytes, and `on_read` takes what it gets for one whole message.
* **The first server** finds users by name, by connection and by empty places
  in one table. A name must not be given twice, nor a user's messages or
  connection pass to somebody else.

Not modelled:

* printing, dumps and log files: they change nothing the models have;
* process entry points and the main threads: they start the threads that are
  modelled, and then wait for them in an order that section 6 describes;
* allocation failures, and the macros around `calloc` and `realloc`;
* `old_c_version/client.c`: an ncurses screen and its menus around the lines of
  text that `OldServer` takes as commands. All of its state is what is on the
  screen, and what is typed is arbitrary in `OldServer` anyway;
* build files.

libuv is a submodule that is not part of the repository; it is modelled from what
the code relies on. PROJECT.json lists every part with the reason.

## 2. Modules

| module | models | uses |
|---|---|---|
| `ListSpec` | what a list promises: a sequence and a capacity | |
| `List` | `my_list`: nodes, links, both rings, resizing | implements `ListSpec` |
| `TsList` | `ts_list` and the loop of its one reader, lock by lock | `ListSpec`; implements `Mailbox` |
| `Mailbox` | what `ts_list` promises its reader | |
| `AsyncHandle` | one `uv_async_t` | |
| `AsyncCall` | one poster, the loop and repeated initialisation | `AsyncHandle` |
| `ChatBase` | the client base, as operators on sequences of records | |
| `Interface` | the interface thread as a function, requests in any order | `ChatBase` |
| `Server` | loop, interface and sender threads, connections | `Interface`, `Mailbox` twice, `AsyncHandle` twice |
| `Client` | front end, interface, sender and loop threads | `Mailbox` twice, `AsyncHandle` |
| `Messages` | buffers, the handlers of each type, and the functions that fill and take apart the fields, byte by byte | |
| `Channel` | what one direction of a connection promises | |
| `Wire` | front end or server, stream of bytes, `on_read` | `Messages`; implements `Channel` |
| `OldServer` | the first version of the server | |
| `ListProofs`, `TsListProofs`, `InterfaceProofs`, `AsyncCallProofs`, `ServerProofs`, `ClientProofs`, `WireProofs`, `OldServerProofs` | theorems about the module each is named after; `InterfaceProofs` also about `ChatBase`, `WireProofs` also about `Messages` | |
| `MC...` | the constants of the TLC runs | |

The layers fit together by refinement. `List` is shown to implement `ListSpec`,
which is the list inside `TsList`; `TsList` is shown to implement `Mailbox`,
which is the queue inside `Server` and `Client`; `Server` is shown to implement
`Interface`, and `Wire` to implement `Channel`. All four are proved. So the whole-program models
need neither links nor locks, and still have what the real queues do to their
messages: `Mailbox` keeps the copy (`Peek`) and the removal (`Drop`) apart,
lets a writer in between (`Put`), and so removes a message that was not read.

Correspondence of state and actions, where it is not one to one:

* `TsList`. A thread's `pc` says which critical section it is in or about to
  enter. A critical section is one step if nothing in it can be seen before it
  ends; `insert_head` has three because it takes the second mutex while it holds
  the first. `CopyData` is a step of its own: the copy happens after `get_head`
  has unlocked. `stale` is set when an insertion reallocates the buffer between
  the two; a stale copy may or may not be garbage.
* `List`. The record has one function per field of `list_elem`. The `index`
  field always equals the node's place and is dropped. `WithFreeRing` gives in one
  expression what the loops around `InsertFreeList` compute; an ASSUME of
  `MCList` compares it with the loops themselves (`FreeRingLoop`). `UNDEFINED` is not a code
  of the program: it is the result of an insertion past the end, which by then has resized
  the array, taken a node and counted it, and links that node to whatever lies before the array.
  That is the end of a behaviour.
* `AsyncCall`, `Server`, `Client`. Storing the request and signalling it are two
  steps, because the loop and `on_acceptance` may come in between. `Fire` (the loop
  clears the mark) and `Run` (the callback reads the slot) are two steps for the
  same reason.
* `Interface`. `Handle(base, message)` yields the new base, the messages to
  insert in `outgoing_msg`, the stream to close, the returned `ERR_STAT` and a
  `fault` if the handler takes the process down. `Server` applies the change to
  the base in one step (`InterfaceOperate`) and then performs insertions and the
  close request one by one, with the other threads in between. That the base
  changes before the first insertion, also where the code inserts first, makes no
  difference to what is inserted; the sender reads only the streams of the base,
  and those change first in the code as well.
* `Server`, `Client`. `fault` records an assertion failure or an access through a
  bad pointer; the model then stops, as the program does or, when it goes on
  with corrupted memory, as far as anything can be said of it. A `uv_tcp_t` address
  is `free`, `open` or `closing`, and a freed address can be accepted again.
* `Server`. Histories tell the connections of one address apart: `conn` numbers them,
  `presented` and `delivered` go by that number, and `heirs` are the connections that were
  given an address while a record, a waiting message or the sender still held it (`Referred`).
  `left` says that a client has logged out or gone away. `AcceptFails` is `on_acceptance` when
  `uv_accept` reports an error; when `status` does, the handler returns at once and is no step.
* `Server`, `Client`: each read is one whole message. What TCP's chunks can do to
  messages is the subject of `Wire`; by `Channel` a message that shares a chunk with
  an earlier one is simply lost, and one that is cut goes in as another.
* `Messages`. A `char` array is a sequence of bytes, and the fields of a message are
  the bytes they have in memory, with the sizes of the fields as constants. Each
  read and write handler copies the fields at the offsets the code computes.
  `Scanned` is `fscanf("%s")`: a string of any length and its terminator, over whatever
  follows in memory.
  `TextFrom`, `CommandBuffer`, `Credentials` are the front end's
  handling of its arrays, `UserName` and `Password` what the server takes out.
* `Wire`. `meant` is what the user wanted to say, `sent` the messages, `starts` where
  their bytes begin; the stream itself has only bytes. `memory` is the front end's three
  arrays `my_name`, `my_pswd` and `server_name` (`client.cpp:185`), which lie next to each other in the
  order of their declarations or in the opposite one (`reversed`): GCC does the first in the
  Debug build and the second in the Release build. `typed` is what the user last typed into them. `Read(n)` is `on_read` with a chunk
  of `n` bytes. Every write reaches the stream here.
* `OldServer`. An action is one callback of its single thread. Commands that are
  refused, `PING` and `ONLINE` change nothing and are no steps. Memory errors of the
  handlers are values of `fault`. `acting` (the connection whose callback ran last),
  `claimed` (on which connection each user's password was given) and `doubled` (who has shared a
  connection) are histories.
* Message contents are, except in `Messages` and `Wire`, reduced to type, command, error, names, password and
  stream. The body of a text and the list of names in an answer to `ONLINE` are
  left out.

Conventions: operators named like a C function are that function. A "Mutant"
is a plausible wrong version of the definition below it, for checking that the
properties notice.

## 3. Runs

All runs are listed in PROJECT.json; a run checks exactly the properties of its cfg.

| run | bounds | shows |
|---|---|---|
| `tslist` | 2 writers, 6 insertions, first capacity 2, 1 spurious wake-up | safety and liveness of `ts_list`, its inductive invariant, and that it implements `Mailbox` |
| `tslist_once`, `tslist_drained` | the same with fewer insertions | violated: what the comments say of the reading sequence and of `wait` |
| `list` | 4 elements of 2 values, first capacity 3, positions up to `size` + 2 and indices past the end | all five operations of `list.h`, that they implement `ListSpec`, and that the array is given back |
| `async` | 5 requests, 2 further accepts | how often a request can run at most, and that the newest request is run |
| `interface_base` | 4 users (2 with one hash), 2 passwords, 2 streams, 2 places | the base under every sequence of requests; who is told of its changes; its inductive invariant |
| `interface_badlogin` | the same | violated: a bad log in is answered |
| `server` | 2 users, an impostor, 2 streams, 2 accepts (each may fail), 2 messages read | types; who gets what is written; whose connection a record points to; nothing breaks before a client leaves; empty slots need a second accept |
| `server_offline` | the same with 1 accept and 1 message | violated: a client that disconnects is taken OFFLINE |
| `client_run` | 3 typed messages, 2 from the server | order of the shutdown, early writes, the loop stops |
| `wire` | 2 messages from either end, chunks of any size; fields of 2, 1, 3 and 6 bytes; names of 1, 3 and 4 characters, passwords of 1 and 3; both orders of the front end's arrays | what arrives whole is what was typed last; what a cut message becomes; that bytes and chunks implement `Channel` |
| `old_server` | 3 users, 3 names, 2 addresses, 3 accepts, 1 text kept for each user | names and status in the table; whose connection a user is on; who gets kept mail; what changes a name |

Why the bounds suffice. `ts_list` needs one message being read, one inserted in
front of it by each writer, and one more that reallocates: with capacity 2, six
insertions cover two growths and the shrinking after them. No list of the
program has more than two writers (`outgoing_msg` of the client: front end and
interface; `incoming_msg` of the server: loop and sender). A list of 4 elements
that starts with 3 nodes grows to 6, in every order of its links, and shrinks
back; two different values and repeated ones are all that its properties can
tell apart. An async handle's worst cases take two
requests and one initialisation; `RunAtMostThrice` is reached with three. Two
clients with one hash and two others, with two places in the base, reach every
outcome of registration: taken by the same name, by another name with its hash,
and no place left. In the server two connections are needed for a message
to go astray, and the second may have the address of the first; the two messages
are a registration and a registration, a text, a log in (with the right or a
wrong password, on the same or another connection) or a log out, each with
their notices, and each repeated or lost by the lists on the way. SYMMETRY is used for values
and stream addresses, which nothing orders, and in no run with liveness. Longer
sequences of requests are the subject of `interface_base`, which has no bound on
their number. The theorems of section 4 do not depend on any bound.

In `wire` two messages are enough for each to be cut, joined to the other, or read
after stray bytes, and the chunks have no bound. The sizes of the fields are small but
all different. A name is shorter than its field, fills it or goes past it; a password is
shorter than its array or fills it, so that its terminator lands in the array behind; each is typed over
the others, with the arrays in either order. The proofs have no bound on any length. In `old_server` two users can share a connection, a third be
told of it, and the freed address be accepted once more. Its text lists hold one entry,
because `MailAtOrBeforeAddressee` looks at each entry by itself.

The inductive invariants of section 4 that are not properties of a run were also
checked by TLC, as invariants in place of the properties they contain:
`ListInductive`, `WireInductive`, `AsyncInductive`, `ServerInductive`, `LeavingInductive`,
`NullsInductive`, `ClientInductive` under the constants of their runs, `OldInductive` with two accepts.
The run of `Server` was also checked against `Spec` of `Interface`.

The mailboxes of `Server` and `Client` may lose and repeat messages, but their
copies are never torn (`Tear` is not used): that takes more than ten messages in
a list (`StaleOnlyPastCapacity`, proved), and the bounds do not allow as many.

Fairness. Safety properties assume none. `TsList` has weak fairness for each
writer that is inside `insert_head` and for the reader, which says that a thread
that can run is scheduled; nobody has to insert, no mutex has to be fair, and
spurious wake-ups never have to happen. `AsyncCall` assumes that a started call
is finished and that the loop goes round. `Client` assumes that each thread takes
its own steps, but not that a reader finds what is in its list, because of
`tslist_drained`. The runs of both servers and of `Wire` check safety only.

`CHECK_DEADLOCK FALSE` is set where the system may stop: when the bounded
inputs are used up, when a handler has crashed, when a list is `UNDEFINED`, or when all
threads have ended.

## 4. Proofs

Checked by TLAPS for every value of the constants: any number of writers, requests,
accepts, messages and connections; any names, passwords, capacities, table sizes,
field sizes and hash function. The assumptions are the ASSUMEs of the modules: the
reader is not a writer, capacities are positive, `NULL` is not a stream, the hash
is defined on names and passwords, clients send the messages a client program can
send, a message body has room for a name and a password, what is typed as a name or
a password is a string of any length without zeros (`Typed`), and a line and a word of status are
arrays of their sizes.

`ListProofs`: `ListInvariant`, from which `ListTypeOK`, `ListIsValid` (the validator of
`list_debug.cpp` always accepts), `ListGivesBack` (`SpaceBounded`), `ListInsertions`, `ListShrinks`,
`ListOperations` and `ListIsASequence` (`Spec => ImplementsListSpec`). An array of links
is a ring when a walk along `next` meets every node of a set once and comes back, and
`prev` undoes `next` on the way. `ListInductive` says that the used nodes with the HEAD
form one such ring of `size` + 1 nodes, that the free nodes form another, that these
are all the nodes there are, and that no shrinking is due (`ListSound`), of every list in which
nothing was inserted past the end. A walk is a recursive function; that one exists is shown by a
least-number argument (`WalkExists`), two functions that take the same steps agree
(`WalksAgree`), and one lemma for each of the insertion of a node into a ring, its removal, and a
step elsewhere (`RingInserted`, `RingRemoved`, `RingUntouched`) says what the ring is afterwards.
On these rest lemmas about what each helper of `list.cpp` does to both rings (taking a free node,
freeing one, building the free ring, putting the elements in order, growing, shrinking), and
then each operation is brought into one of five forms: an element is inserted at a position,
inserted with another one moved to a new node, removed, an error leaves all as
it was, or the result is `UNDEFINED` (`InsertStep`, `DisplaceStep`, `DeleteStep`, `ErrorStep`; `NextOutcome`). The invariant
and every theorem about steps follow from the form alone.

`TsListProofs`: `TypeCorrect`, `MutualExclusion`, `ReaderIsSafe`,
`TornOnlyPastCapacity`, `StackOfMessages` (`LostToOlder`), and `RefinesMailbox`
(`Spec => ImplementsMailbox`). All follow from `InductiveInvariant`. Why the
invariant is what it is: `HeadPresent` is inductive because only the reader
removes; `GotStillQueued` needs that every insertion shifts the reader's
position by one, and the bound of that position by the list's length.
`StaleOnlyPastCapacity` needs more than it says: the buffer moves only when the
list is full, and "full" lies at or above the first capacity, so `CapacitySettled`
(never more elements than nodes, never below the first capacity) is part of the
invariant, as is that `stale` is only set while the copy is due: a removal shortens
the list, and must not find the flag set. `NewestFirst` needs that every number
in the list is at most `inserted`, and `LostToOlder` needs `NewestFirst`: what `delete_head`
removes in place of the message that was read is newer than that message, which stays in the list and so
is an older one to come again. The proof has a lemma for what each list
operation does to the sequence and the capacity, one lemma per action of the
reader and the writers, and `NextInductive` on top.

`InterfaceProofs`: `TypeCorrect`, `LookupsAreExact`, `RegistrationIsForGood`,
`OnlyOwnersRedirect`, `OthersAreTold` (`StatusChangesTold`), from its own `InductiveInvariant`. Uniqueness of hashes is
not inductive alone, because registration compares the hash of the new name with
stored hashes: the invariant adds that a record's stored hash is the hash of its
name. The lemma `LookupByName` says what the first-match search returns (it rests
on a least-number lemma); `HandleBase` reduces every request to one of five
changes of the base; one lemma for each change shows what it keeps. For `OthersAreTold`
the loop of `send_all_status_changed` is a recursive function, whose existence (`LoopRuns`) and result
(`NoticesSent`: one notice for each client that is ONLINE, nothing else) are proved by the least turn at
which they could fail. A log in and a registration send their notices before the status is turned around,
a log out after it; `Tells` says what the three have in common, and uniqueness of
hashes takes each notice to the client that was meant. `HandleTyped` gives everything that
a request can produce its type.

`AsyncCallProofs`: `NoRequestRunsFourTimes` (`RunAtMostThrice`), from `AsyncInductive`. That a request runs at most three times is not inductive. What
is: the request in the slot is the newest one, and the longer ago it was first run,
the fewer signals are outstanding that could run it again (at most three can be:
about to be sent, marked, about to fire).

`ServerProofs`: `RecordsPointToOwners` (`StreamPresented`) and `NothingGoesAstray`
(`DeliveredToClient`), from `ServerInvariant`, which proves `ServerInductive`. It follows a stream on its
way: a message in `incoming_msg` carries credentials that were presented on its connection (`Backed`), so
does a record of the base, so does what the sender looks up, the slot of the handle, and what is
written. The step that could break this is an accept that gives a freed address to a new connection: the slot is
emptied by it, and for everything else that may still hold the address the new connection becomes one
of the `heirs`, of which the theorems say less. `NothingBreaksBeforeLeaving` (`BreaksNeedLeaving`) comes from
`LeavingInductive`: until a client logs out or goes away, every address that a record, a message, the
sender or the slot holds is that of an open connection with a client at its end, and no close is on
its way.
It rests on the theorems about `Interface`: a request keeps every client's hashes, and
moves a record only to the stream of a message with its name and password. The lists
may lose and repeat what they hold, but their copies are not torn (section 3), so the
theorems speak of lists that stay within their first capacity. `NullsNeedTwoAccepts` comes from
`NullsInductive`: the first accept meets a server in which nothing has happened but failed
accepts and the notices of their closing, and until
the second one nothing empties a slot under a signal. `ServerTypeCorrect` (`ServerTypeOK`) goes
through the actions part by part (interface, both lists, sender, slots, connections).
`ServerIsInterface` (`ServerSpec => Spec`) says that all the threads, lists and resets amount
to messages being handled in some order, so that `ServerKeepsPromises`: what
is proved of `Interface` holds in the running server.

`ClientProofs`: `TypeCorrect`, `ShutdownInOrder` (`EndsInOrder`) and `PreparedWrites`
(`OnlyEarlyWritesUnprepared`), from `ClientInductive`. `ON_CLOSE` is in the list, or has
been read, only when the handle is freed, and `SHUTDOWN_SEND` only when the interface
has read it; that a list loses or repeats messages does not matter to this. A handle is
freed for good, because `run_networking` connects once.

`WireProofs`, about the codec: `ReadAfterWrite` (reading the bytes of a message gives the message,
also when other bytes follow), `WriteAfterRead` (what was read from any bytes whose type has a handler is
written as the same bytes, so that readers and writers agree on every offset), `BuffersAreFilled` (a handler writes
exactly the buffer that was allocated for its type) and `NamesAreKept` (a name of any length, typed over any
other, is what the server finds in the body, cut to the field, and what it looks up as addressee if it is
shorter than that).
About the stream: `TypeCorrect`, `CrashesAreStray` (`CrashNeedsStray`), `CutsTruncate`
(`CutsOnlyTruncate`), `NamesArrive` (`NamesSurvive`) and `IsAChannel` (`WireSpec => ImplementsChannel`), from
`WireInductive`. The properties speak of positions in a stream that is used up as it
is read, so the invariant has the history back: each message begins where the one before
it ends (`InTurn`), and the bytes between the read offset and the last message's end are
those of the stream (`Carried`). A chunk at the start of a message is then that message, cut
or whole (`ChunkIsCut`), and every message a program writes says what was meant
(`Sound`). For that the invariant says what is left of the name that was typed last
(`NameLeft`): all that `my_name` holds of it or, where a password that fills its array has gone on into
`my_name`, the rest of that password. For `IsAChannel`, `Place`
gives each message its place in the stream and `Exactly` finds the one that
begins at the offset, which is the next of the channel.

`OldServerProofs`: `ConsistentTable`, `OnlySharedUsersAreInherited`, `MailIsAtOrBefore`
and `NamesAreKeptByOwners` (`NamesKept`), from `OldInductive`. `NamesKept` names the connection whose
command it is (`acting`): it is the user's own, and the user's password was given on it. `OnlySharedAreInherited` is not
inductive by itself: `on_conn_close` takes one user off a connection, so the invariant
adds that two users on one connection are both in `doubled`.

Only model-checked: liveness (`InsertCompletes`, `SleeperIsWoken`, `BacklogServed` of `TsList`,
`LatestRuns` of `AsyncCall`, `LoopStops` of `Client`), which is out of the prover's reach, and the equality of
`WithFreeRing` with the loop it stands for, which is evaluated for up to 8 nodes. That runs
with `expect: violation` fail is shown by TLC's counterexamples, which exist for
the constants of those runs.

## 5. What the program does not do

Each run that expects a violation checks one thing that the repository says of
itself; PROJECT.json ("findings") has the lines.

* `tslist_once`: a message can be handled twice and another never, because
  copy and removal of the head are separate.
* `tslist_drained`: a message can stay in the list while its reader sleeps.
* `interface_badlogin`: a failed log in takes the server down.
* `server_offline`: a broken connection leaves its client ONLINE.

The models also reach the following states; they follow from the same causes or
take a single step, and have no run of their own:

* a request is overwritten in its slot before the loop has seen it, and its message is
  never written (`AsyncCall`, with two requests before one callback);
* a callback that is late for one signal runs the next signal's request, which
  then runs again; an accept between store and signal leaves NULL in the slot
  (`AsyncCall`, `Server`: `null request`, `request reused`);
* a handle is closed twice, by a read error, a log out or a failed write
  (`Server`: `closed twice`);
* a log in of a client that is ONLINE takes it OFFLINE, the online list is
  followed by BAD_REQUEST, and two registrations on one connection give two
  clients one endpoint (`Interface`);
* `ListInsert` takes the error code for a position past `size` + 1 for an index, after it has
  taken a node and counted it (`List`: `UNDEFINED`, in the run `list`);
* a connection that is given the address of an earlier one, which a record, a waiting
  message or the sender still holds, gets what is for the earlier one's client (`Server`: `heirs`);
* a password of eight characters or more goes on into the array behind it: in the Release build that
  is `my_name`, so that the name is lost from this log in or registration and from later texts. A name of
  eight characters or more is cut to eight, and as an addressee it is looked up together with the text behind it
  (`Wire`: `NameLeft`, `Says`);
* a user who types before the connection exists crashes the client, and a
  shutdown message that is removed unread leaves its sender running
  (`Client`);
* of two messages in one chunk the second is lost; the rest of a cut message is read
  as a message of its own, and ends the process if its first bytes name no type
  (`Wire`, `Channel`);
* the comment at `inc/messages/messages.h:19` puts the sender's name before the
  addressee's in a buffer; both handlers of a type put the addressee's first, so they
  agree with each other (`Messages`);
* in the first version (`OldServer`): a sign-in while somebody else is ONLINE frees an
  array on the stack; a rename with others ONLINE overflows one or writes the freed old
  name; a `QUIT` without a user reads an index that was not set; the second sign-in
  of a user with kept texts writes freed memory; a text for an absent user goes to the first
  user without a connection; the end of a stream leaves its user ONLINE (`deaf`); a
  connection that takes a freed address inherits the user who was left on it; and the
  count of connections is never taken down.

The passing runs say how far the damage goes. A message is lost only to an older
one that is handled twice (`LostToOlder`); a torn copy needs a long backlog; a request runs
at most three times; a message reaches only connections on which its addressee's credentials were
shown, or heirs of such a connection's address; nothing is closed twice or written after its end
before a client leaves; NULL requests need a second accept; the client's loop still stops; a cut
message is only cut short, and a chunk that begins with a message gets it right.

## 6. Limits of the models

* Allocation succeeds. `ListDestroy` and the unused operations of `ts_list`
  are left out.
* The base is read by the sender without a lock. `Server` treats a look-up
  as one step; a registration appends a record before it counts it, so the
  look-up sees all of a record or nothing on the platforms the program is built for.
* `uv_async_init` on a live handle also corrupts the loop's queue of async
  handles. Only the slot and the mark are modelled.
* `close_all_active_connections` and the rest of the server's shutdown are not
  reachable: nothing changes `server->status`.
* The program prints a lot; printing changes nothing the models have.
* The main threads are not modelled. `run_server_backend` joins four threads of
  which it has created three, and `run_client_backend` waits for a front end that
  never ends.

* `Wire` has one direction of one connection, without its end: errors and closing are in
  `Server` and `Client`. Bytes that a handler would read behind its buffer do not occur
  (`on_read` allocates the largest), and numbers have only their lowest byte set.
* What `fscanf("%s")` writes behind the last of the three arrays, or behind the array on the stack
  that holds a text's addressee, is lost in `Wire`; in the program it goes over other data.
  Nor does `Wire` have what lies behind `registr_client`'s own copy of a name of eight characters,
  over which its hash is computed. A line and a command that are longer than their arrays are not modelled.
* `Server` has an address count as still held in the base, in `incoming_msg` with the interface's copy, and
  in the sender. A close request in its slot is reset by the accept itself.
* `OldServer` takes fresh heap memory to be empty and the lines typed to fit the arrays
  they are copied into.

## 7. Plan

Done, in this order: `ListSpec`, `Mailbox`, `TsList` and its proofs; `List`;
`AsyncCall`; `ChatBase` and `Interface` and their proofs; `Server`; `Client`;
`Messages` and its proofs; `Channel` and `Wire`; `OldServer` and its proofs; the proofs about
`Server`, `AsyncCall` and `Client`; the rings of `List` and its refinement of `ListSpec`; the stream of
`Wire` and its refinement of `Channel`; types and refinement of `Server`, and who is told of what.

Next (the TLC runs are kept few, one per question; a new module's run replaces or
extends one where it can):

1. Proofs: the async handles of `Server` and `Client` as an `AsyncCall` each, so that
   `RunAtMostThrice` holds of their requests; their lists as a `Mailbox` each; what the client's
   list loses and repeats, from `LostToOlder`.
2. `Server` with liveness: which of the messages read are eventually written when
   nothing is overwritten, under the fairness of the loop.
3. Client and server together over one `Channel` in each direction.
