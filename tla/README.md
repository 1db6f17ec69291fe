# packetsInC in TLA+

This directory holds a formal model of this repository's programs: a chat over
TCP whose history is kept by a web server, a UDP server that receives the sensor
readings of smartphones, and the short programs and the select server they were
written from. TLC checks the models on small instances,
TLAPS proves theorems about them for every value of their constants.

## The system

| part | state | operations | talks to |
|---|---|---|---|
| chat server, `main/TCPserver/TCPserver.c` | two `fd_set`s, `fdmax`, the sockets, `buf`, `latest16Messages`; one thread | boot fetch, bind/listen, select, scan, accept and welcome, announce, recv, post, forward, close | chat clients (TCP 9034), web server (HTTP/1.0, one connection per request) |
| chat client, `main/TCPclient/TCPclient.c` | one socket shared by two threads | connect, send a line, receive, be killed | chat server |
| web server `student.pxl-ea-ict.be` (not in the repository) | the stored messages | `chat.php` stores, `history.php` answers | chat server |
| UDP server, `main/UDPserver/UDPserver.c` | its socket, round counters, the latest reading, extremes, sums, the latest sender's address, a CSV file | initialisation, two menus, receive, confirm, report, ctrl+c | senders (UDP 20000) |
| UDP client, `main/UDPclient/UDPclient.c` | content, count | send n times, wait for one confirmation | a UDP server (24042) |
| `main/TCPserver/test.c` | the chat server's state, shared by two threads | as the chat server, and lines typed at its console | as the chat server |
| select server, `baseCode/selectserver.c` | the chat server's, without the history | bind/listen, select, scan, accept, recv, forward, close | any clients |
| short programs: `main/TCPclient/TCPclient_http.c`, the other four of `baseCode`, `extras/UDPClient.c` | one or two sockets | getaddrinfo, a loop of attempts over the addresses, one exchange, cleanup | one another on port 24042, or the web server |

What is hard in these programs:

* **Interleaving.** The chat server is sequential, but between any two of its
  calls clients connect, talk and leave, and the web server stores and answers.
  Socket numbers are reused. `select` reports sockets that the scan reaches
  only after it has served others, which may take HTTP exchanges.
* **Ordering.** The history a newcomer gets is fetched on another connection
  than the one his chat arrives on, before he is put into `master`; posts are
  not acknowledged.
* **Failure.** Lookups end the process, refused connects leave a closed socket
  number in use, a web answer may be reset or arrive in two parts.
* **Blocking.** `recv` and `send` block the one thread, hence everybody.
* **Unreliable delivery and timeouts.** UDP loses, repeats and reorders; the
  UDP server confirms to "the latest sender" also after a timeout, and derives
  the number of packets it reports from the number of timeouts.
* **Threads without locks.** `test.c` shares `i`, `j`, `buf` and `nbytes`
  between the thread that serves clients and the one that reads the console.
* **The end of a program.** stdio's buffer, queued connections, unread data and
  late datagrams are lost, reset or misdirected when a process goes.

Correctness, part by part:

* chat server: the socket bookkeeping is consistent; the scan never blocks; all
  clients see the same conversation and nobody his own messages or his own
  arrival; newcomers get a history that meets the conversation, and of a web
  server that fails or reorders at least one that joins it; everything sent is
  forwarded, everybody is admitted, and every socket is released in the end.
* UDP server: rounds, extremes, sums and confirmations are right, also when
  packets lack fields; every packet is on record; sessions end.
* UDP client: it is answered while nothing is lost.
* short programs: whichever address and call fails, no socket stays open;
  exchanges end; an asker is answered on the socket it asked from.
* the filter before `chat.php`: the letters of a message, all and in order.

`PROJECT.json` lists the hazards at their lines, with the properties that would
catch each of them going wrong.

## The modules

    Sockets  WebServer  Keeping          Datagrams            Keeping
       |   \    |      /                /         \             |
       |    \   |     /           UDPServer    UDPClient      Filter
    TCPClient  TCPServer                \       /               |
           \    /                        Sensor              Programs
            Chat --implements--> ChatRoom   |                   |
             |  \-implements--> SelectServer |                   |
           MCChat                        MCSensor           MCPrograms

    ThreadedServer - MCThreaded

and the proofs, each module above those it builds on:

    ChatRoomProofs  ChatHistoryProofs  ChatSelectProofs
               \          |           /
                      ChatProofs
                          |
                    ChatTypeProofs      ProgramsProofs    SensorProofs
                               \           /
                               KeepingProofs

* **Sockets** (external): the kernel's part of the chat: the backlog of the
  listening socket, the bytes from each client (`up`), the items to each client
  (`stream`, of which `seen` were received), who has hung up. A client is one
  run of the client program. Bytes towards the server are single, because
  `recv` cuts them anywhere; what the server sends is kept send by send.
* **WebServer** (external): `chat.php` and `history.php` as the server uses
  them. `InOrder` says whether requests are processed in the order of sending,
  `Faults` whether lookups, connects and answers fail.
* **TCPServer**: the chat server. `pc` names the call the thread makes next, so
  each action is one system call with all the code up to the next one:
  `AskHistory`/`ReadHistory`/`ReadRest` are `getHttpReq` and `getHttpReqNoP`,
  `Bind`, `Select`, `Accept`, `Welcome` (the sending of the history, `FD_SET`,
  `fdmax`, the announcement's text), `BroadcastStep` (one iteration that sends)
  and `BroadcastDone`, `Recv`, `RecvEnd`, `Post` (`sendMsgToHttp`), `EndPass`,
  `Exit`. `i`, `j`, `fdmax`, `newfd`, `master` and `read_fds` are the variables
  of `main()`. Iterations that find nothing in an `fd_set` change nothing and
  are left out (`Turn`, `Pending`). `Accept` returns -1 when the client is gone,
  and for want of a number or of memory, which keeps the connection queued; the
  history is fetched either way. History variables, which no guard reads:
  `log`, the messages received; `since`, how many of them there were when a
  client was welcomed; and `storedBefore` of WebServer, how many were stored (or,
  under `InOrder`, posted) when the running request was made.
* **TCPClient**: one action per thread's loop body, plus connect and the end.
* **Chat**: all of them together, the properties, and the refinement mapping.
* **ChatRoom**: what the chat server promises: a room in which an announcement
  or a message reaches all others present in one indivisible step. `Chat` maps
  the start of a broadcast to that step: what a client has been told is what is
  on its connection and what the running broadcast has yet to send it (`Told`).
  A newcomer is not told of itself in the room; the code tells it (run `self`),
  so the mapping leaves a client's own announcement out (`Heard`), and the
  history, which is no part of the conversation.
* **SelectServer**: `selectserver.c`. `Chat` is shown to implement it, through
  a mapping that hides announcements, histories and posts, leaves a newcomer in
  the backlog until `FD_SET`, and puts a newcomer whose accept failed, or who is
  only being announced, behind the scan's `i++`. The template's loop survived
  what was added to it: no socket is skipped, scanned twice or served late.
* **Datagrams** (external): datagrams that may be overtaken, lost or doubled;
  confirmations; the "port unreachable" errors some systems report on the
  sender's socket (Windows does).
* **UDPServer**, **UDPClient**: the two programs. `csv` is what
  `receivedPackets.csv` holds and `buffered` what stdio holds back, each line by
  its number; `Interrupt` is ctrl+c; **Sensor**: both together.
  `UDPclient.c` is written for port 24042 of the same machine and the server
  binds 20000, so as they stand the two do not meet; a sender in `Sensor` has
  the server's port. A reading has any subset of the fields; `sscanf` leaves
  those it lacks as they were, before the first packet whatever the stack held
  (`Garbage`: any number, infinities, NaN). `readings` is a history variable:
  the readings as they came, so the values received are told from such leftovers. Phones and other senders are covered as far as they send
  some readings and may wait for a confirmation.
* **Keeping**: what is left of a sequence when only the elements of a set are
  kept (`Keep`), which is what `executionMsg()`'s filter is for (`Letters`), and
  also how the properties pick the messages out of a client's stream.
* **Filter**: `executionMsg()`'s loops, one shift of the message at a time; that
  they compute `Keep` is `FilterKeepsLetters`.
* **Programs**: each short program is the sequence of its calls, a script, and
  `at` the position in it. The calls of the scripts are the actions. All
  `initialization()` functions are one loop: `Socket`, `Bind`, `Listen` and
  `Connect` go to `NextAddress` when they fail, which closes the socket; after
  the last address the program goes on with the closed socket's number. The
  rest report errors and go on. A play (`Cast`) says who runs what; the client
  in `TCPserver.c` that posts a message is one of the programs, with `Filter`.
* **ThreadedServer**: `test.c`, two threads, one call or test of the loop per
  action, `i`, `j`, `buf` and `nbytes` shared. Of a byte only its author is
  kept.

Abstractions: names, addresses, wording and the bytes of HTTP are left out; a
message is a sequence of letters and digits; the nine fields of a reading are
treated alike (`Field`), and doubles are integers, because they are only
compared and added. The constant `ReqRoom` stands for the letters that fit the
200 bytes `send` passes to `chat.php`.

## What TLC checks

`tlc -config MCChat_faults.cfg MCChat` and so on:

| run | instance | shows |
|---|---|---|
| `faults` | 2 clients, 2 lines, everything may fail, answers split, posts reordered | `TypeOK`, `MasterTracksSockets`, `StoredOnce`, `HistoryJoinsChat`, `WelcomeIsFresh`, `ImplementsChatRoom` |
| `three` | 3 clients, 1 line, no failures | `MasterTracksSockets`, `ReadyStaysReady`, `NoEcho`, `ImplementsChatRoom`, `StillSelectServer` |
| `history` | 2 clients, 2 lines of up to 3 bytes, `recv` takes up to 2 | `HistoryMeetsChat`, `WelcomeIsCurrent` |
| `live` | 2 clients, 2 lines, answers split, posts reordered, fairness | `EverythingRead`, `NewcomersAdmitted`, `HungUpReleased` |
| `stream` | 2 senders, 2 packets, up to 2 rounds, loss, one repetition, fairness | `TypeOK`, `RoundsCounted`, `ExtremesEnclose`, `EveryPacketConfirmed`, `PacketsOnRecord`, `SessionEnds`, `SenderAnswered` |
| `programs` | 6 plays of up to 3 programs, 2 addresses, all messages of up to 4 bytes, fairness | `TypeOK`, `NoSocketLeft`, `FilterKeepsLetters`, `ExchangeEnds`, `AskerAnswered` |
| `split`, `lookup`, `self`, `statistics`, `csv`, `console` | small | a statement of the repository that the code does not meet (below) |

Bounds. `MaxLines` lines are typed by all clients together; `Window` = 1 item
makes every second `send` to a client that does not read block; socket numbers
lie on both sides of the listener's (3), so that newcomers are scanned before
or after it, in the same scan or the next, and the number of a client that hung
up is free for the next one.
`Backlog` = 1 makes connects fail. `HistoryLen` 1 or 2 makes old messages fall
out of the history. `FD_SETSIZE` is above the number of sockets (see the
theorems' assumption); with a smaller set newcomers are lost for good, which is
listed as a hazard. In `faults` the two lines have different letters and the
history has one place, so that an outdated history is told from a current one;
a failing accept makes the server fetch it more often than there are clients.
Three clients are the fewest in which a broadcast has
two receivers besides the sender; two lines are the fewest that can be
reordered. `MaxNet` = 2 and `MaxDoubled` = 1 let datagrams overtake and repeat.
`BufferLines` = 1 makes stdio's buffer overflow in every longer session.
Two rounds are the fewest in which a field can be there and then lacking. What
the stack held is NaN in `stream`; in `statistics` it is also a number below the
values, one above them or an infinity (beyond `Highest`).
`Addresses` = 2 gives each `initialization()` a first address to fail and a last
one; the plays put two clients before a server that serves one, two servers
before one port, and a menu client, whose second choice (`Rounds` = 2) may meet
the answer to the first, beside another asker. Four bytes are enough for
unwanted ones in a row at the start, in the middle and at the end. `programs`
has processes of different programs and uses no symmetry.
Clients are interchangeable, so the safety runs use symmetry; `live` and
`stream` do not. Deadlock is not checked: the programs may stop (everybody has
left, the server has exited, the session is reported).

Fairness. `Chat`: the server's thread, the web server and the receiving thread
of every client go on (weak fairness). Users owe nothing. Without a web server
that answers the chat server blocks in `recv`, and without a client that reads
it blocks in `send`: both fairness conditions are needed, and they are
assumptions about the environment, not promises of the code (nothing in it bounds
either wait, whatever the comment at `TCPserver.c:514` says of `recv`). `Sensor`: the
server goes on once the choices are made, senders send what they announced,
and `recvfrom` hands over arrived datagrams even if errors keep coming between
them (strong fairness: the socket's queue is served in order). `Programs`: every
process goes on, and the web server answers (weak fairness); nobody needs to
choose in a menu, and a client may be killed at any time.

Where the code disagrees with what the repository says:

* `split`: the second half of a split history answer is discarded
  (`TCPserver.c:663`), so a newcomer does not get the last messages; in `history`,
  where answers come whole, he does.
* `lookup`: a failed lookup ends the server between receiving and forwarding a
  message (`TCPserver.c:327`).
* `self`: a newcomer is told of its own arrival: the announcing loop excepts
  socket `i`, which is the listener there (`TCPserver.c:204`), and its comment
  says "ourselves".
* `statistics`: the sums of the averages are never initialised
  (`UDPserver.c:215`); and the extremes may be what the stack held, because
  `sscanf` may convert fewer fields than there are, which nothing tests (line
  290). `ExtremesEnclose` is what is left of the promise.
* `csv`: mode 1 ends with ctrl+c only, and the lines that stdio still holds are
  then missing from `receivedPackets.csv` (`UDPserver.c:174`).
* `console`: `sendThread` of `test.c` sends `nbytes` bytes of `buf` while
  `receiveThread` fills both, so that a client gets its own bytes back
  (`test.c:215`).

The comment at `TCPserver.c:379` also says that the digits can stay, which the
condition at line 384 removes: `FilterKeepsLetters` states what the code does.

## What is proved

Every safety property of the passing runs is a theorem, and so are both
refinements, but for `HistoryMeetsChat` and `WelcomeIsCurrent`: these need a web
server that keeps order, never fails and answers in one piece, which the code
does nothing to ensure. TLC checks them for such a server (run `history`); what
is true for every one is proved instead (`WelcomeStaysFresh`, `HistoryJoins`). All of it holds for any number of clients, senders, processes,
socket numbers, messages and packets, with failures, splitting and reordering
allowed unless an assumption is named here. The assumptions are:

* `SetsSuffice`: there are finitely many socket numbers, no more than an
  `fd_set` holds. Without it `FD_SET` loses newcomers (a hazard).
* `StaysUp`, for one theorem: no failed lookup ends the server while it handles
  a newcomer or a message, as it may (`lookup`).

**`KeepingProofs`** has the lemmas about sequences that the others cite: `Keep`
by its value for the empty sequence and for `Append`, that it distributes over
concatenation and never lengthens; that `Times` adds up over appending,
concatenating and taking out; the halves and prefixes of a sequence. There is
no induction rule to use. In its place stand `LeastNatural`, a nonempty set of
naturals has a least element (from well-foundedness of < on the naturals), and
`FirstBad` on top of it: if a property fails for some sequence but not for the
empty one, it fails for some `Append(s, e)` and not for `s`.

**`ChatTypeProofs`** proves `TypeCorrect`, the types of all of `Chat`. The
invariant adds what a handler relies on (`newfd` is -1 or the accepted socket
while welcoming, `outgoing` is an item while broadcasting).

**`ChatProofs`** proves, under `SetsSuffice`:

* `SocketsTracked`: `MasterTracksSockets`. It is not inductive: that a socket
  outside `master` is the one being welcomed needs to know which calls lie
  between accept and `FD_SET`, that a client sits in the backlog only before it
  has a socket, and once (`Queue`), and where the scan stands (`Phases`).
* `NobodyHearsHimself`: `NoEcho`. A message is composed from the client at
  socket `i` (`Cursor`), the loop excepts socket `i`, and a client has one
  socket, by `MasterTracksSockets`.
* `NeverBlocksInScan`: `ReadyStaysReady`. Only the socket being handled is read
  or closed, sockets are handed out only while free, and a socket of `read_fds`
  ahead of the scan is in `master`, hence taken.

**`ChatRoomProofs`** proves, under `SetsSuffice`, `RoomImplemented`: `Chat`
implements `ChatRoom`. One lemma for each step of the room says what the server
has to do to make it (`MakesArrive`, `MakesPassOn`, ...), one for each action
of `Chat` which of them it makes. The step of the room is the one that starts a
broadcast; every iteration after it moves one text from what is still to be
sent to the stream, and leaves what has been told unchanged (`BroadcastTold`).
The invariant `RoomInv` adds to that of `ChatProofs` that clients whose
connection was closed have hung up and neither wait nor hold a socket
(`Farewell`: otherwise somebody could arrive twice), and that nothing is sent
to anybody before he is in `master` (`Sending`).

**`ChatHistoryProofs`** proves:

* `NothingStoredTwice`: `StoredOnce`, with no assumption. The property speaks of
  the texts that are stored; the invariant `StoreInv` counts every text
  (`StoredEach`) and knows that the log ends with the message at hand
  (`LogHolds`), which is not counted until it is posted.
* `WelcomeStaysFresh`: `WelcomeIsFresh`, with no assumption either. The history
  kept is a beginning of an answer that `history.php` could give, never a mixture
  of two, and after a fetch that did not fail it is no older than the request.
  The invariant `FreshInv` follows a request: the connection is in use only
  between its `send` and its last `recv`, and was counted from what was stored
  then (`Awaits`, `Asked`); what has arrived of the answer, and what is kept of
  it, belongs to a store at least that long (`Answered`, `Kept`). The store only
  grows, at its end, so former answers stay answers (`Latest` of a beginning).
* `HistoryJoins`: `HistoryJoinsChat`, under `SetsSuffice` alone. From `Welcome`
  on a client gets every message of the others once and in order, and what is in
  its history does not come again: each text is there at most as often as it was
  received before the welcome. The invariant `JoinInv` takes `SockInv`,
  `StoreInv` and `FreshInv` together and says for each client in the room that
  what it has been forwarded, with what the running broadcast owes it, is the
  others' part of the log from `since` on (`CaughtUp`), and that its history is
  part of a store, which has no text more often than it was received
  (`RepeatsNone`); nothing is received between the answer and the welcome.

**`ChatSelectProofs`** proves, under `SetsSuffice` and `StaysUp`,
`SelectServerKept`: `Chat` implements `SelectServer`. Again one lemma for each
step of `selectserver.c` and one for each action of `Chat`. A successful accept
is the template's `Skip` to the listening socket, the welcome is its accept, and
fetches, announcements and posts are no steps. The invariant adds that
`select` reported the listening socket when a newcomer is being handled
(`Called`), and that nobody has received more than was sent (`SeenSent`): a
client with room for one more item has room for one more message
(`RoomForChat`), so the template's `send` would not have waited either.

**`SensorProofs`** proves:

* `TypeCorrect` and `ReportIsRight` (`RoundsCounted`). The invariant `IInv` adds
  `Rounds` (nothing counted before the choices, at least one round left in the
  loop, none after it) and `Sending`; without them the counters might pass 0.
* `ExtremesAreRight` (`ExtremesEnclose`), whatever fields packets lack and
  whatever the stack held, NaN and infinities included. The invariant `Extremes`
  adds that until the first reading the extremes are the initial ones, which
  every value beats, and that a field the first packet brought holds a value
  received from then on: all `sscanf` leaves in place is such a value.
* `PacketsAreConfirmed` (`EveryPacketConfirmed`).
* `RecordIsRight` (`PacketsOnRecord`): a line is only ever appended behind those
  of the file and the buffer (`LineAppended`), numbered above all in mode 1 and
  below all in mode 2; that needs the rounds left to go down between two packets.

**`ProgramsProofs`** proves, for any plays, processes and addresses:

* `NoSocketStaysOpen` (`NoSocketLeft`). The invariant `IInv` says what is open
  by the call a script has reached (`Stage`): nothing before `socket()`, the one
  socket of `internet_socket` between it and the last call of
  `initialization()`, and a second one only behind `accept()`. That needs facts
  about the scripts themselves: what follows each call (`ScriptsFollow`), that
  the jumps of `NextAddress` have a target (`ScriptsRetry`) and that only servers
  bind and accept (`ScriptsServe`). `Held` ties ports to servers past `bind()`;
  without it a killed client might hold one. That the number `socket()` hands
  out exists is again `LeastNatural`.
* `TypeCorrect`, from the same invariant: the loop over the addresses stays
  within the list, and no jump leaves the script.
* `LettersSurvive` (`FilterKeepsLetters`), for messages of any length. The
  invariant `FilterInv` says that the text up to its terminator has the letters
  of the message (a shift takes one byte out that is none, `ShiftTakes`), and
  that before the index there is nothing but letters; when the index has passed
  the terminator both together leave the letters only.

Only model-checked: the liveness properties (fairness and `ENABLED` are outside
the prover's reach), the two properties of the history under an orderly web
server, and the six violations, each of which needs one behaviour only.

## What is not modelled

* The layout of memory: overlong lines and messages, the byte behind `buf`, the
  texts of announcements, requests longer or shorter than the length given to
  `send` (but for `ReqRoom`). They are listed as hazards.
* `TCPserver.c`'s three web clients connect or do not; the loop over several
  addresses is in `Programs`, where the same code is modelled call by call.
* Time: the elapsed time of the report, the length of a timeout.
* The final divisions and `statisticalData.csv` of the UDP server (no passing
  property depends on the quotients); negative amounts and numbers of packets.
* The web requests and the history of `test.c`, which are copies of those of
  `TCPserver.c`; that both of its threads make such requests at a time is listed
  as a hazard. The other programs' `main` is modelled as it stands.
* The `.csv` files in the repository are data, and the pictures and headers of
  the menus are output only.

## Plan

1. Done: the chat and its abstract room, the UDP programs, types and the main
   safety properties proved.
2. Done: the select server as a second specification of the chat, the CSV file
   and ctrl+c, the short programs with their connect loops, the filter as a
   loop, the threaded server; types and `NoSocketLeft` of the short programs
   proved.
3. Done: `Chat` implements `ChatRoom` and, as long as it stays up,
   `SelectServer`; `StoredOnce` and `FilterKeepsLetters` proved, with the lemmas
   about sequences in one module.
4. Done: what of the history survives failures, split answers and requests out
   of order (`WelcomeIsFresh`, `HistoryJoinsChat`), checked and proved; readings
   told from leftovers; accept failing while the connection waits.
5. Next: the safety facts behind the liveness properties, such as that a step is
   possible wherever the server is not waiting; hazards that still have no
   property.
