-------------------------------- MODULE Chat --------------------------------
(***************************************************************************)
(* The chat application: one chat server, its clients and the web server   *)
(* that keeps the history.  They share the sockets of module Sockets and   *)
(* the web requests of module WebServer.                                   *)
(***************************************************************************)
EXTENDS TCPServer, TCPClient

vars == <<sockVars, webVars, serverVars, clientVars>>

Init == SocketsInit /\ WebInit /\ ServerInit /\ ClientInit

ServerStep    == ServerNext /\ UNCHANGED clientVars
WebStep       == WebNext /\ UNCHANGED <<sockVars, serverVars, clientVars>>
ClientStep(c) == ClientNext(c) /\ UNCHANGED <<webVars, serverVars>>

Next == ServerStep \/ WebStep \/ \E c \in Client : ClientStep(c)

Spec == Init /\ [][Next]_vars

(* The server's thread, the web server and the thread of each client that  *)
(* receives run on; users may stop typing, stay away, or leave.            *)
Fairness ==
    /\ WF_vars(ServerStep)
    /\ WF_vars(WebStep)
    /\ \A c \in Client : WF_vars(Receive(c) /\ UNCHANGED <<webVars, serverVars>>)

FairSpec == Spec /\ Fairness

-----------------------------------------------------------------------------
(* The type invariant of the composition.                                  *)
TypeOK ==
    /\ SocketsTypeOK
    /\ ServerTypeOK
    /\ ClientTypeOK
    /\ store \in Seq(Seq(Byte))
    /\ posts \in Seq(Seq(Byte))
    /\ get \in GetState
    /\ reply \in Seq(Seq(Byte))
    /\ storedBefore \in Nat

(* Between accept and the end of Welcome the new socket is not in master.  *)
Welcoming == {"ask", "recv1", "recv2", "welcome", "exited"}

(* master, the socket numbers and fdmax agree: master holds the listening  *)
(* socket and live connections only (one that was closed would make select *)
(* fail and end the server), every accepted connection is in it unless it  *)
(* is just being welcomed, a client has one socket at most, and the loops  *)
(* up to fdmax reach all of them.                                          *)
MasterTracksSockets ==
    /\ server = "listening" => Listener \in master
    /\ owner[Listener] = NoClient
    /\ \A f \in master : f <= fdmax /\ (f # Listener => owner[f] \in Client)
    /\ \A f \in Fd : owner[f] \in Client =>
          \/ f \in master
          \/ f = newfd /\ pc \in Welcoming
    /\ \A f, g \in Fd : owner[f] = owner[g] /\ owner[f] \in Client => f = g

(* A socket that select reported and the scan has not reached yet is still *)
(* an open, readable member of master, whatever the handlers of the        *)
(* sockets before it did (close, accept, minutes of HTTP): so no recv and  *)
(* no accept of the scan ever blocks, or hits a socket number that was     *)
(* closed and reused in between.                                           *)
ReadyStaysReady ==
    \A f \in read_fds :
        /\ pc \notin {"select", "exited"}
        /\ f > i \/ (pc = "scan" /\ f = i)
        => f \in master /\ Readable(f)

(* "Server does not send to sender its own message" (README.md:54).        *)
NoEcho ==
    \A c \in Client : \A k \in 1..Len(stream[c]) :
        stream[c][k].kind = "chat" => stream[c][k].who # c

(* What the web server should hold after the messages of s.                *)
Stored(s) == [k \in 1..Len(s) |-> Letters(s[k].data)]

(* No message is stored more often than it was received, although requests *)
(* fail, are not acknowledged and overtake each other: nothing stored,     *)
(* or on its way to chat.php, lacks a received message of its own, and the *)
(* message at hand is not posted before its turn.                          *)
StoredOnce ==
    LET handled == IF pc = "post" THEN SubSeq(log, 1, Len(log) - 1) ELSE log
        kept    == store \o posts
    IN  \A k \in 1..Len(kept) :
            Times(kept[k], kept) <= Times(kept[k], Stored(handled))

(* The messages of some clients; those among what c was sent, those of the *)
(* others in a conversation.                                               *)
ChatsOf(who) == [kind : {"chat"}, who : who, data : Seq(Byte)]
Chats(c) == Keep(stream[c], ChatsOf(Client))
NotBy(c, s) == Keep(s, ChatsOf(Client \ {c}))

(* The history a newcomer gets and the messages forwarded to it afterwards *)
(* meet: there is a point of the conversation such that the history is the *)
(* latest messages up to it, and the client has been forwarded every       *)
(* message after it, once, in order, but for its own and for the one       *)
(* being handled.  Nothing falls between fetching the history and FD_SET.  *)
HistoryMeetsChat ==
    \A c \in Client \ hungup :
        stream[c] # << >> =>
            /\ stream[c][1].kind = "history"
            /\ \E k \in 0..Len(log) :
                  LET later == NotBy(c, SubSeq(log, k + 1, Len(log))) IN
                  /\ stream[c][1].data =
                        Latest(HistoryLen, Stored(SubSeq(log, 1, k)))
                  /\ \/ Chats(c) = later
                     \/ /\ pc \in {"post", "forward"}
                        /\ later # << >>
                        /\ Chats(c) = SubSeq(later, 1, Len(later) - 1)

(* "Server sends the last 16 chat messages to the client on new            *)
(* connection" (README.md:58): the history about to be sent is that of     *)
(* the latest messages the server has handled.                             *)
WelcomeIsCurrent ==
    pc = "welcome" =>
        latest16Messages = Latest(HistoryLen, Stored(log))

(* Whatever fails, is split or overtaken: the history kept for newcomers   *)
(* is a beginning of what history.php could have answered at some time,    *)
(* never a mixture of two answers; and after a fetch that did not fail it  *)
(* is no older than its request.                                           *)
WelcomeIsFresh ==
    latest16Messages # NoHistory =>
        \E m \in 0..Len(store) :
            LET answer == Latest(HistoryLen, SubSeq(store, 1, m)) IN
            /\ \E n \in 0..Len(answer) :
                  /\ latest16Messages = SubSeq(answer, 1, n)
                  /\ SplitReply \/ n = Len(answer)
            /\ pc = "recv2" /\ get # "reset" => storedBefore <= m

(* Whatever fails, is split or overtaken: from its welcome on a client is  *)
(* forwarded every message the server receives, once and in order, but for *)
(* its own and for the one at hand; and its history repeats none of them:  *)
(* each text is in it at most as often as it was received before.          *)
HistoryJoinsChat ==
    \A c \in Client \ hungup :
        since[c] # -1 =>
            LET before == Stored(SubSeq(log, 1, since[c]))
                later  == NotBy(c, SubSeq(log, since[c] + 1, Len(log)))
            IN  /\ stream[c] # << >> /\ stream[c][1].kind = "history" =>
                      LET history == stream[c][1].data IN
                      \A k \in 1..Len(history) :
                          Times(history[k], history) <= Times(history[k], before)
                /\ \/ Chats(c) = later
                   \/ /\ pc \in {"post", "forward", "exited"}
                      /\ later # << >>
                      /\ Chats(c) = SubSeq(later, 1, Len(later) - 1)

(* "Server sends the information of new client connection to all other     *)
(* connected clients" (README.md:56), "except the listener and ourselves"  *)
(* (src/main/TCPserver/TCPserver.c:203): nobody is told of its own arrival.*)
AnnouncedToOthers ==
    \A c \in Client : \A k \in 1..Len(stream[c]) : stream[c][k] # Joined(c)

-----------------------------------------------------------------------------
Talk == [kind : {"joined", "chat"}, who : Client, data : Seq(Byte)]

(* What concerns c of it.  The room does not announce c to itself, but the *)
(* server does (AnnouncedToOthers), and the history is not conversation:   *)
(* both are left out.                                                      *)
Heard(c) == Talk \ {Joined(c)}

(* What c has been told in the room: the announcements and messages on its *)
(* connection, and the one being broadcast when c is still to be served.   *)
Told(c) ==
    Keep(stream[c], Heard(c))
    \o IF /\ pc \in {"announce", "forward"}
          /\ \E f \in Pending : owner[f] = c
          /\ outgoing \in Heard(c)
       THEN <<outgoing>> ELSE << >>

(* The clients the server has let in, whether they are still there or not. *)
LetIn == closed \cup {owner[f] : f \in master \ {Listener}}

(* What c said and the others have not been told yet.                      *)
Unsaid(c) ==
    IF server = "down" THEN << >>
    ELSE (IF pc = "post" /\ outgoing.who = c THEN outgoing.data ELSE << >>)
         \o up[c]

(* The server implements the chat room: seen through this mapping, every   *)
(* broadcast is one indivisible step, made when the broadcast starts.      *)
Room == INSTANCE ChatRoom WITH
    MaxHeard <- BufSize,
    open    <- server # "down",
    arrived <- LetIn,
    gone    <- hungup,
    unsaid  <- [c \in Client |-> Unsaid(c)],
    view    <- [c \in Client |-> IF c \in LetIn \ hungup THEN Told(c) ELSE << >>]

ImplementsChatRoom == Room!Spec

(* The messages on c's connection, and how many of them c has received.    *)
ChatsSeen(c) ==
    Len(Keep(SubSeq(stream[c], 1, seen[c]), ChatsOf(Client)))

(* accept has returned a socket, and the newcomer is not served yet; or    *)
(* accept has returned -1, or the newcomer is being announced, and all     *)
(* that remains is i++.                                                    *)
InDoor == pc \in {"ask", "recv1", "recv2", "welcome"} /\ newfd # -1
PastDoor ==
    \/ pc \in {"ask", "recv1", "recv2", "welcome"} /\ newfd = -1
    \/ pc = "announce"

(* The server is still the select server it was written from: but for its  *)
(* announcements and histories, and with the newcomer left in the backlog  *)
(* until FD_SET, each of its steps is one of selectserver.c or no step.    *)
Selects == INSTANCE SelectServer WITH
    Backlog <- Backlog + 1,
    backlog <- IF InDoor THEN <<owner[newfd]>> \o backlog ELSE backlog,
    owner   <- IF InDoor THEN [owner EXCEPT ![newfd] = NoClient] ELSE owner,
    stream  <- [c \in Client |-> Chats(c)],
    seen    <- [c \in Client |-> ChatsSeen(c)],
    pc      <- CASE pc \in {"boot", "bootRecv1", "bootRecv2"} -> "bind"
                 [] InDoor \/ PastDoor -> "scan"
                 [] pc = "post" -> "forward"
                 [] OTHER -> pc,
    i       <- IF PastDoor THEN i + 1 ELSE i,
    j       <- IF pc = "forward" THEN j ELSE 0,
    buf     <- IF pc \in {"post", "forward"} THEN outgoing ELSE Nothing

StillSelectServer == Selects!Spec

-----------------------------------------------------------------------------
(* Whatever a connected client sent leaves the server's socket buffer: it  *)
(* is forwarded, or the client has left.                                   *)
EverythingRead == \A c \in Client : (up[c] # << >>) ~> (up[c] = << >>)

(* A client whose connect succeeded is admitted to the room, or leaves.    *)
InRoom(c) == \E f \in master : f # Listener /\ owner[f] = c
NewcomersAdmitted ==
    \A c \in Client : (c \in dialed) ~> (c \in hungup \/ InRoom(c))

(* The socket number of a client that has left is free again, eventually.  *)
HungUpReleased ==
    \A c \in Client :
        (c \in hungup) ~> (\A f \in Fd : owner[f] # c)

(* "Server application forwards received message to all other              *)
(* participants" (README.md:52).                                           *)
ReceivedIsForwarded == (pc = "post") ~> (pc = "forward")
=============================================================================
