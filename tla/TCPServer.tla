------------------------------ MODULE TCPServer ------------------------------
(***************************************************************************)
(* src/main/TCPserver/TCPserver.c: one thread that fetches the history     *)
(* once, listens, and then serves the sockets that select reports one      *)
(* after the other.  pc names the call the thread is about to make.        *)
(*                                                                         *)
(*   boot -> bootRecv1 -> bootRecv2 -> bind -> select -> scan              *)
(*   a newcomer:  scan -> ask -> recv1 -> recv2 -> welcome -> announce     *)
(*   a message:   scan -> post -> forward                                  *)
(*   a hang-up:   scan                                                     *)
(***************************************************************************)
EXTENDS Sockets, WebServer, Keeping, Integers

CONSTANTS
    Fd,         \* socket numbers
    Listener,   \* the number of the listening socket
    FD_SETSIZE, \* members an fd_set holds; FD_SET drops what exceeds it
    BufSize,    \* bytes one recv takes from a client (256)
    ReqRoom,    \* letters that fit the 200 bytes of a chat.php request
    Letter,     \* the bytes a-z and A-Z
    SplitReply, \* TRUE: the first recv may return part of the history
    NoClient,   \* the owner of a free socket number
    NoHistory   \* latest16Messages before the first fetch: empty text

ASSUME ServerAssumption ==
    /\ Fd \subseteq Nat
    /\ Listener \in Fd
    /\ FD_SETSIZE \in Nat \ {0}
    /\ BufSize \in Nat \ {0}
    /\ ReqRoom \in Nat
    /\ Letter \subseteq Byte
    /\ SplitReply \in BOOLEAN
    /\ NoClient \notin Client
    /\ NoHistory \notin Seq(Seq(Byte))

VARIABLES
    pc,                 \* the call the thread makes next
    i, j,               \* the loop counters of main()
    fdmax,              \* the largest socket number in use
    newfd,              \* what accept returned
    master, read_fds,   \* the two fd_sets
    owner,              \* owner[f]: the client at the other end of socket f
    outgoing,           \* newConMsg, or buf: the item being broadcast
    latest16Messages,   \* the history that newcomers get
    log,                \* history variable: the chat items in recv's order
    since               \* history variable: since[c]: how many of them there
                        \* were when c was welcomed; -1 before

serverVars == <<pc, i, j, fdmax, newfd, master, read_fds, owner, outgoing,
                latest16Messages, log, since>>

PCs == {"boot", "bootRecv1", "bootRecv2", "bind", "select", "scan",
        "ask", "recv1", "recv2", "welcome", "announce",
        "post", "forward", "exited"}

Nothing == [kind |-> "none"]    \* outgoing before the first broadcast

ServerInit ==
    /\ pc = "boot"
    /\ i = 0
    /\ j = 0
    /\ fdmax = 0
    /\ newfd = -1
    /\ master = {}
    /\ read_fds = {}
    /\ owner = [f \in Fd |-> NoClient]
    /\ outgoing = Nothing
    /\ latest16Messages = NoHistory
    /\ log = << >>
    /\ since = [c \in Client |-> -1]

ServerTypeOK ==
    /\ pc \in PCs
    /\ i \in Nat /\ j \in Nat /\ fdmax \in Nat
    /\ newfd \in Fd \cup {-1}
    /\ master \subseteq Fd
    /\ read_fds \subseteq Fd
    /\ owner \in [Fd -> Client \cup {NoClient}]
    /\ outgoing \in Item \cup {Nothing}
    /\ latest16Messages \in Seq(Seq(Byte)) \cup {NoHistory}
    /\ log \in Seq(Item)
    /\ since \in [Client -> Nat \cup {-1}]

-----------------------------------------------------------------------------
(* exit(): the process ends; nobody listens and the kernel drops the rest. *)
Exit ==
    /\ Faults
    /\ pc \in {"boot", "bind", "ask", "post"}
    /\ pc' = "exited"
    /\ server' = "down"
    /\ backlog' = << >>
    /\ UNCHANGED <<dialed, hungup, closed, up, stream, seen, webVars, i, j,
                   fdmax, newfd, master, read_fds, owner, outgoing,
                   latest16Messages, log, since>>

(* initializationHttpReq*(), and the send of executionHttpReq*(): one more *)
(* connection to the web server, and the request for the history.  When    *)
(* every connect fails the closed socket is used all the same: send and    *)
(* recv on it report an error and the program goes on.                     *)
AskHistory(here, there) ==
    /\ pc = here
    /\ get' = "asked" \/ (Faults /\ get' = "reset")
    /\ pc' = there
    /\ storedBefore' = IF InOrder THEN Len(store) + Len(posts) ELSE Len(store)
    /\ UNCHANGED <<sockVars, store, posts, reply, i, j, fdmax, newfd, master,
                   read_fds, owner, outgoing, latest16Messages, log, since>>

(* The first recv of executionHttpReq*().  It waits for the answer, takes  *)
(* what has arrived of it, and getHttpReqNoP() keeps that (keep) instead   *)
(* of the history fetched before.  An error leaves the old history.        *)
ReadHistory(here, there, keep) ==
    /\ pc = here
    /\ get \in {"answered", "done", "reset"}
    /\ pc' = there
    /\ \E n \in 0..Len(reply) :
          /\ SplitReply \/ n = Len(reply)
          /\ reply' = SubSeq(reply, n + 1, Len(reply))
          /\ latest16Messages' = IF keep /\ get # "reset"
                                 THEN SubSeq(reply, 1, n)
                                 ELSE latest16Messages
    /\ UNCHANGED <<sockVars, store, posts, get, storedBefore, i, j, fdmax,
                   newfd, master, read_fds, owner, outgoing, log, since>>

(* The second recv, whose data nothing uses, and cleanupHttpReq*().  It    *)
(* waits for more data, for the end of the connection or for an error.     *)
ReadRest(here, there) ==
    /\ pc = here
    /\ reply # << >> \/ get \in {"done", "reset"}
    /\ pc' = there
    /\ get' = "idle"
    /\ reply' = << >>
    /\ storedBefore' = 0
    /\ UNCHANGED <<sockVars, store, posts, i, j, fdmax, newfd, master,
                   read_fds, owner, outgoing, latest16Messages, log, since>>

(* getHttpReq(): the history shown on the console, once.                   *)
BootFetch ==
    \/ AskHistory("boot", "bootRecv1")
    \/ ReadHistory("bootRecv1", "bootRecv2", FALSE)
    \/ ReadRest("bootRecv2", "bind")

(* socket, bind, listen, FD_SET(listener, &master).                        *)
Bind ==
    /\ pc = "bind"
    /\ pc' = "select"
    /\ server' = "listening"
    /\ master' = {Listener}
    /\ fdmax' = Listener
    /\ UNCHANGED <<backlog, dialed, hungup, closed, up, stream, seen, webVars,
                   i, j, newfd, read_fds, owner, outgoing, latest16Messages,
                   log, since>>

-----------------------------------------------------------------------------
(* recv or accept on f would not wait.                                     *)
Readable(f) ==
    IF f = Listener
    THEN backlog # << >>
    ELSE owner[f] \in Client /\ (up[owner[f]] # << >> \/ owner[f] \in hungup)

(* Mutant: FD_ISSET is asked of master, not of what select returned.       *)
ReadyFdsMaster == IF \E f \in master : Readable(f) THEN master ELSE {}

(* What select leaves in read_fds.                                         *)
ReadyFds == {f \in master : Readable(f)}

(* select(): reports the readable members of master; a number that is no   *)
(* socket makes it fail, and exit(4).                                      *)
Select ==
    /\ pc = "select"
    /\ IF \E f \in master \ {Listener} : owner[f] = NoClient
       THEN /\ pc' = "exited"
            /\ server' = "down"
            /\ backlog' = << >>
            /\ UNCHANGED <<i, read_fds>>
       ELSE /\ ReadyFds # {}
            /\ read_fds' = ReadyFds
            /\ i' = 0
            /\ pc' = "scan"
            /\ UNCHANGED <<server, backlog>>
    /\ UNCHANGED <<dialed, hungup, closed, up, stream, seen, webVars, j, fdmax,
                   newfd, master, owner, outgoing, latest16Messages, log, since>>

(* Mutant: the loops end one number early.                                 *)
InLoopShort(f) == f < fdmax

(* The bound of the loops over socket numbers.                             *)
InLoop(f) == f <= fdmax

(* f is the next socket of the scan.                                       *)
Turn(f) ==
    /\ pc = "scan"
    /\ f \in read_fds
    /\ i <= f /\ InLoop(f)
    /\ \A g \in read_fds : i <= g => f <= g

EndPass ==
    /\ pc = "scan"
    /\ \A f \in read_fds : f < i \/ ~InLoop(f)
    /\ pc' = "select"
    /\ UNCHANGED <<sockVars, webVars, i, j, fdmax, newfd, master, read_fds,
                   owner, outgoing, latest16Messages, log, since>>

(* accept(): the oldest queued connection gets a free socket number; or it *)
(* returns -1: because the client is gone already, or, the connection then *)
(* staying in the queue, for want of a number or of memory.                *)
Accept ==
    /\ Turn(Listener)
    /\ backlog # << >>
    /\ i' = Listener
    /\ pc' = "ask"
    /\ \/ \E f \in Fd \ {Listener} :
             /\ owner[f] = NoClient
             /\ newfd' = f
             /\ owner' = [owner EXCEPT ![f] = Head(backlog)]
             /\ backlog' = Tail(backlog)
             /\ UNCHANGED up
       \/ /\ Head(backlog) \in hungup
          /\ newfd' = -1
          /\ backlog' = Tail(backlog)
          /\ up' = [up EXCEPT ![Head(backlog)] = << >>]
          /\ UNCHANGED owner
       \/ /\ Faults \/ \A f \in Fd \ {Listener} : owner[f] # NoClient
          /\ newfd' = -1
          /\ UNCHANGED <<backlog, owner, up>>
    /\ UNCHANGED <<server, dialed, hungup, closed, stream, seen, webVars, j,
                   fdmax, master, read_fds, outgoing, latest16Messages, log, since>>

(* Mutants: the history is kept for the first newcomer only; until there   *)
(* is one.                                                                 *)
FetchHistoryOnce ==
    \/ AskHistory("ask", "recv1")
    \/ ReadHistory("recv1", "recv2", latest16Messages = NoHistory)
    \/ ReadRest("recv2", "welcome")
FetchHistoryTillThere ==
    \/ AskHistory("ask", "recv1")
    \/ ReadHistory("recv1", "recv2", latest16Messages \in {NoHistory, << >>})
    \/ ReadRest("recv2", "welcome")

(* getHttpReqNoP(): the history fetched anew, also when accept failed.     *)
FetchHistory ==
    \/ AskHistory("ask", "recv1")
    \/ ReadHistory("recv1", "recv2", TRUE)
    \/ ReadRest("recv2", "welcome")

(* Mutant: the newcomer is not put into master.                            *)
FdSetNothing(f, s) == s

(* FD_SET does nothing when the set is full.                               *)
FdSet(f, s) == IF Cardinality(s) < FD_SETSIZE THEN s \cup {f} ELSE s

(* The send of the history (nothing when there is none), FD_SET, and the   *)
(* announcement composed.  All of it is without effect after a failed      *)
(* accept, except for the error message.                                   *)
Welcome ==
    /\ pc = "welcome"
    /\ IF newfd = -1
       THEN /\ pc' = "scan"
            /\ i' = i + 1
            /\ UNCHANGED <<stream, master, fdmax, outgoing, j, since>>
       ELSE LET c == owner[newfd] IN
            /\ stream' = IF latest16Messages = NoHistory THEN stream
                         ELSE [stream EXCEPT
                                 ![c] = Sent(c, History(c, latest16Messages))]
            /\ master' = FdSet(newfd, master)
            /\ fdmax' = IF newfd > fdmax THEN newfd ELSE fdmax
            /\ outgoing' = Joined(c)
            /\ j' = 0
            /\ pc' = "announce"
            /\ since' = [since EXCEPT ![c] = Len(log)]
            /\ UNCHANGED i
    /\ UNCHANGED <<server, backlog, dialed, hungup, closed, up, seen, webVars,
                   newfd, read_fds, owner, latest16Messages, log>>

-----------------------------------------------------------------------------
(* Mutants: the sender is not excepted; the loop ends one number early.    *)
PendingAll ==
    {f \in master : f # Listener /\ j <= f /\ InLoop(f)}
PendingShort ==
    {f \in master : f # Listener /\ f # i /\ j <= f /\ f < fdmax}

(* The members of master that the broadcast loop has still to reach.       *)
Pending ==
    {f \in master : f # Listener /\ f # i /\ j <= f /\ InLoop(f)}

(* One iteration that sends, to the smallest of them; send waits while the *)
(* connection's buffers are full.  An error is only reported.              *)
BroadcastStep ==
    /\ pc \in {"announce", "forward"}
    /\ \E f \in Pending :
          LET c == owner[f] IN
          /\ \A g \in Pending : f <= g
          /\ c \in Client => CanSend(c)
          /\ stream' = IF c \in Client
                       THEN [stream EXCEPT ![c] = Sent(c, outgoing)]
                       ELSE stream
          /\ j' = f + 1
    /\ UNCHANGED <<server, backlog, dialed, hungup, closed, up, seen, webVars,
                   pc, i, fdmax, newfd, master, read_fds, owner, outgoing,
                   latest16Messages, log, since>>

(* Mutant: the broadcast loop counts with the i of the scan, which ends    *)
(* with it.                                                                *)
BroadcastDoneSameCounter ==
    /\ pc \in {"announce", "forward"}
    /\ Pending = {}
    /\ pc' = "scan"
    /\ i' = fdmax + 1
    /\ UNCHANGED <<sockVars, webVars, j, fdmax, newfd, master, read_fds, owner,
                   outgoing, latest16Messages, log, since>>

(* The end of the broadcast loop, and i++ of the loop around it.           *)
BroadcastDone ==
    /\ pc \in {"announce", "forward"}
    /\ Pending = {}
    /\ pc' = "scan"
    /\ i' = i + 1
    /\ UNCHANGED <<sockVars, webVars, j, fdmax, newfd, master, read_fds, owner,
                   outgoing, latest16Messages, log, since>>

-----------------------------------------------------------------------------
(* recv() > 0: at most BufSize of the bytes on their way from the client.  *)
(* They need not be one line: TCP keeps no boundaries.                     *)
Recv ==
    \E f \in Fd \ {Listener} :
        LET c == owner[f] IN
        /\ Turn(f)
        /\ c \in Client
        /\ \E n \in 1..Len(up[c]) :
              /\ n <= BufSize
              /\ outgoing' = Chat(c, SubSeq(up[c], 1, n))
              /\ up' = [up EXCEPT ![c] = SubSeq(@, n + 1, Len(@))]
        /\ log' = Append(log, outgoing')
        /\ i' = f
        /\ pc' = "post"
        /\ UNCHANGED <<server, backlog, dialed, hungup, closed, stream, seen,
                       webVars, j, fdmax, newfd, master, read_fds, owner,
                       latest16Messages, since>>

(* Mutants: FD_CLR is forgotten; close is forgotten.                       *)
FdClrNothing(f, s) == s
CloseNothing(f) == owner

FdClr(f, s) == s \ {f}
Close(f) == [owner EXCEPT ![f] = NoClient]

(* recv() <= 0: the client is gone.  A reset also discards what was        *)
(* unread.  close(), FD_CLR().                                             *)
RecvEnd ==
    \E f \in Fd \ {Listener} :
        LET c == owner[f] IN
        /\ Turn(f)
        /\ c \in hungup
        /\ owner' = Close(f)
        /\ closed' = closed \cup {c}
        /\ up' = [up EXCEPT ![c] = << >>]
        /\ master' = FdClr(f, master)
        /\ i' = f + 1
        /\ UNCHANGED <<server, backlog, dialed, hungup, stream, seen, webVars,
                       pc, j, fdmax, newfd, read_fds, outgoing,
                       latest16Messages, log, since>>

(* Mutant: the terminating NUL takes the place of the last letter.         *)
LettersCut(text) ==
    LET kept == Keep(text, Letter)
    IN  [k \in 1..Len(kept) |-> IF k = Len(kept) THEN "NUL" ELSE kept[k]]

(* executionMsg()'s filter: the letters of a text, in their order.         *)
Letters(text) == Keep(text, Letter)

(* Mutant: the unanswered request is sent a second time.                   *)
PostAgain ==
    /\ pc = "post"
    /\ posts' \in {Append(posts, Letters(outgoing.data)),
                   posts \o <<Letters(outgoing.data), Letters(outgoing.data)>>}
    /\ j' = 0
    /\ pc' = "forward"
    /\ UNCHANGED <<sockVars, store, get, reply, storedBefore, i, fdmax, newfd,
                   master, read_fds, owner, outgoing, latest16Messages, log, since>>

(* sendMsgToHttp(): the letters go to chat.php on a connection of their    *)
(* own; the answer is not awaited.  send() passes 200 bytes, so a longer   *)
(* request loses its end, and the web server ignores it.  When no connect  *)
(* succeeds the message is not stored, and forwarded all the same.         *)
Post ==
    /\ pc = "post"
    /\ \/ posts' = IF Len(Letters(outgoing.data)) <= ReqRoom
                   THEN Append(posts, Letters(outgoing.data)) ELSE posts
       \/ Faults /\ UNCHANGED posts
    /\ j' = 0
    /\ pc' = "forward"
    /\ UNCHANGED <<sockVars, store, get, reply, storedBefore, i, fdmax, newfd,
                   master, read_fds, owner, outgoing, latest16Messages, log, since>>

ServerNext ==
    \/ Exit \/ BootFetch \/ Bind \/ Select \/ EndPass
    \/ Accept \/ FetchHistory \/ Welcome
    \/ BroadcastStep \/ BroadcastDone
    \/ Recv \/ RecvEnd \/ Post
=============================================================================
