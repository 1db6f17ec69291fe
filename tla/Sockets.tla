------------------------------- MODULE Sockets -------------------------------
(***************************************************************************)
(* What the operating system keeps for the chat application: the backlog   *)
(* of the listening socket, and one byte stream in each direction for      *)
(* every client connection.  The programs under src/main/TCPserver and     *)
(* src/main/TCPclient reach these variables only through connect, accept,  *)
(* send, recv and close.                                                   *)
(*                                                                         *)
(* A client is one run of the client program, with one connection.  What   *)
(* it sends is kept byte by byte, because recv cuts the stream anywhere;   *)
(* what the server sends is kept item by item (one item for each send),    *)
(* because no property depends on how the client cuts it.                  *)
(***************************************************************************)
EXTENDS Naturals, Sequences, FiniteSets

CONSTANTS
    Client,     \* runs of the client program
    Byte,       \* the byte values that are typed
    Window,     \* items a connection buffers before send blocks
    Backlog     \* connections the listening socket queues (10 in listen())

ASSUME SocketsAssumption ==
    /\ Window \in Nat \ {0}
    /\ Backlog \in Nat \ {0}

VARIABLES
    server,     \* "starting", "listening" or "down": the server's port
    backlog,    \* connected clients that accept has not returned yet
    dialed,     \* clients that have called connect
    hungup,     \* clients whose end of the connection is gone
    closed,     \* clients whose connection the server has closed
    up,         \* up[c]: bytes sent by c that the server has not read
    stream,     \* stream[c]: everything the server has sent to c, in order
    seen        \* seen[c]: how many items of stream[c] c has received

sockVars == <<server, backlog, dialed, hungup, closed, up, stream, seen>>

(* The three texts the server sends: the history, the announcement of a    *)
(* newcomer and a forwarded message.  "who" names the client the text is   *)
(* about; only the announcement shows it to the reader.                    *)
Item == [kind : {"history", "joined", "chat"}, who : Client,
         data : Seq(Byte) \cup Seq(Seq(Byte))]

History(c, msgs) == [kind |-> "history", who |-> c, data |-> msgs]
Joined(c)        == [kind |-> "joined",  who |-> c, data |-> << >>]
Chat(c, bytes)   == [kind |-> "chat",    who |-> c, data |-> bytes]

SocketsInit ==
    /\ server = "starting"
    /\ backlog = << >>
    /\ dialed = {}
    /\ hungup = {}
    /\ closed = {}
    /\ up = [c \in Client |-> << >>]
    /\ stream = [c \in Client |-> << >>]
    /\ seen = [c \in Client |-> 0]

SocketsTypeOK ==
    /\ server \in {"starting", "listening", "down"}
    /\ backlog \in Seq(Client)
    /\ dialed \subseteq Client
    /\ hungup \subseteq Client
    /\ closed \subseteq Client
    /\ up \in [Client -> Seq(Byte)]
    /\ stream \in [Client -> Seq(Item)]
    /\ seen \in [Client -> Nat]

(* A blocking send to c returns at once when c is gone (with an error) or  *)
(* when there is room; otherwise the caller waits.                         *)
CanSend(c) == c \in hungup \/ Len(stream[c]) - seen[c] < Window

(* The effect of a send to c: an item more, or nothing when c is gone.     *)
Sent(c, item) == IF c \in hungup THEN stream[c] ELSE Append(stream[c], item)
=============================================================================
