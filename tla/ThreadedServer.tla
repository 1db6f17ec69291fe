--------------------------- MODULE ThreadedServer ---------------------------
(***************************************************************************)
(* src/main/TCPserver/test.c: the chat server with a second thread that    *)
(* sends what is typed on the server's console.  The loop counters i and j,*)
(* the message buf and its length nbytes are global, and no lock is taken. *)
(*                                                                         *)
(* Of a byte in buf only its author is kept.  The requests to the web      *)
(* server are left out but for what sendMsgToHttp() writes to buf; they    *)
(* and the history are those of TCPserver.c.                               *)
(***************************************************************************)
EXTENDS Integers, Sequences

CONSTANTS
    Client,     \* the clients, each with one connection
    Fd,         \* socket numbers
    Listener,   \* that of the listening socket
    BufSize,    \* bytes in buf (256)
    LineLengths,\* BOUND: bytes on a line typed on the console
    MaxTyped,   \* BOUND: bytes a client types
    Console,    \* the author of what is typed on the console
    NUL,        \* the author of terminators, and of a buf not yet used
    NoClient    \* the owner of a free socket number

VARIABLES
    at,         \* at[t]: what thread t, "receive" or "send", does next
    i, j, fdmax, newfd, master, read_fds,   \* as in TCPserver.c
    buf,        \* buf[k]: the author of the byte in cell k - 1
    nbytes,     \* what recv returned last
    owner,      \* owner[f]: the client at the other end of socket f
    backlog,    \* clients that wait for accept
    typed, up,  \* bytes that c typed, and those of them not received
    gone,       \* clients that have closed their connection
    heard       \* heard[c]: the authors of all bytes that were sent to c

shared == <<i, j, buf, nbytes>>
sets == <<fdmax, newfd, master, read_fds, owner>>
clientVars == <<typed, up, gone>>
vars == <<at, shared, sets, backlog, clientVars, heard>>

(* main(): the listener is bound, and the threads are created.             *)
Init ==
    /\ at = [receive |-> "select", send |-> "gets"]
    /\ i = 0 /\ j = 0 /\ nbytes = 0 /\ newfd = -1
    /\ fdmax = Listener
    /\ master = {Listener} /\ read_fds = {}
    /\ buf = [k \in 1..BufSize |-> NUL]
    /\ owner = [f \in Fd |-> NoClient]
    /\ backlog = << >>
    /\ typed = [c \in Client |-> 0] /\ up = [c \in Client |-> 0]
    /\ gone = {}
    /\ heard = [c \in Client |-> {}]

Goes(t, there) == at' = [at EXCEPT ![t] = there]

-----------------------------------------------------------------------------
(* receiveThread()                                                         *)

Readable(f) ==
    IF f = Listener THEN backlog # << >>
    ELSE owner[f] \in Client /\ (up[owner[f]] > 0 \/ owner[f] \in gone)

Select ==
    /\ at["receive"] = "select"
    /\ \E f \in master : Readable(f)
    /\ read_fds' = {f \in master : Readable(f)}
    /\ i' = 0
    /\ Goes("receive", "scan")
    /\ UNCHANGED <<j, buf, nbytes, fdmax, newfd, master, owner, backlog,
                   clientVars, heard>>

(* The loop looks at socket i, and nothing is to be done there.            *)
Scan ==
    /\ at["receive"] = "scan"
    /\ i > fdmax \/ i \notin read_fds
    /\ IF i > fdmax THEN Goes("receive", "select") /\ UNCHANGED i
                    ELSE i' = i + 1 /\ UNCHANGED at
    /\ UNCHANGED <<j, buf, nbytes, sets, backlog, clientVars, heard>>

Turn(f) == at["receive"] = "scan" /\ i = f /\ f <= fdmax /\ f \in read_fds

(* accept(), FD_SET(), and the announcement is composed.                   *)
Accept ==
    /\ Turn(Listener)
    /\ \E f \in Fd \ {Listener} :
          /\ owner[f] = NoClient
          /\ \A g \in Fd \ {Listener} : owner[g] = NoClient => f <= g
          /\ newfd' = f
          /\ owner' = [owner EXCEPT ![f] = Head(backlog)]
          /\ master' = master \cup {f}
          /\ fdmax' = IF f > fdmax THEN f ELSE fdmax
    /\ backlog' = Tail(backlog)
    /\ j' = 0
    /\ Goes("receive", "announce")
    /\ UNCHANGED <<i, buf, nbytes, read_fds, clientVars, heard>>

(* nbytes = recv(i, buf, ...) > 0.                                         *)
Recv ==
    \E f \in Fd \ {Listener} :
        LET c == owner[f] IN
        /\ Turn(f)
        /\ \E n \in 1..up[c] :
              /\ n <= BufSize
              /\ nbytes' = n
              /\ buf' = [k \in 1..BufSize |-> IF k <= n THEN c ELSE buf[k]]
              /\ up' = [up EXCEPT ![c] = @ - n]
        /\ Goes("receive", "post")
        /\ UNCHANGED <<i, j, sets, backlog, typed, gone, heard>>

(* recv() <= 0, close(), FD_CLR().                                         *)
RecvEnd ==
    \E f \in Fd \ {Listener} :
        /\ Turn(f)
        /\ owner[f] \in gone
        /\ nbytes' \in {0, -1}
        /\ owner' = [owner EXCEPT ![f] = NoClient]
        /\ master' = master \ {f}
        /\ i' = i + 1
        /\ UNCHANGED <<at, j, buf, fdmax, newfd, read_fds, backlog, clientVars,
                       heard>>

-----------------------------------------------------------------------------
(* Both threads                                                            *)

(* sendMsgToHttp(): buf[nbytes] = '\0'.  Then the loop starts.             *)
Post(t) ==
    /\ at[t] = "post"
    /\ buf' = [k \in 1..BufSize |-> IF k = nbytes + 1 THEN NUL ELSE buf[k]]
    /\ j' = 0
    /\ Goes(t, "forward")
    /\ UNCHANGED <<i, nbytes, sets, backlog, clientVars, heard>>

(* The tests of a broadcast loop at socket j.                              *)
Test(t) ==
    /\ at[t] \in {"announce", "forward"}
    /\ IF j > fdmax
       THEN /\ Goes(t, IF t = "send" THEN "gets" ELSE "scan")
            /\ i' = (IF t = "send" THEN i ELSE i + 1)
            /\ UNCHANGED j
       ELSE /\ IF j \in master /\ j # Listener /\ j # i
               THEN /\ Goes(t, IF at[t] = "forward" THEN "send" ELSE "tell")
                    /\ UNCHANGED j
               ELSE UNCHANGED at /\ j' = j + 1
            /\ UNCHANGED i
    /\ UNCHANGED <<buf, nbytes, sets, backlog, clientVars, heard>>

(* send(j, newConMsg, ...) or send(j, buf, nbytes, 0), with what j, buf and*)
(* nbytes are by now; j++.                                                 *)
Send(t) ==
    /\ at[t] \in {"tell", "send"}
    /\ LET c == IF j \in Fd THEN owner[j] ELSE NoClient IN
       heard' =
         IF at[t] = "send" /\ c \in Client \ gone
         THEN [heard EXCEPT ![c] = @ \cup {buf[k] : k \in 1..nbytes}]
         ELSE heard
    /\ j' = j + 1
    /\ Goes(t, IF at[t] = "send" THEN "forward" ELSE "announce")
    /\ UNCHANGED <<i, buf, nbytes, sets, backlog, clientVars>>

(* sendThread(): gets(buf).                                                *)
Gets ==
    /\ at["send"] = "gets"
    /\ \E n \in LineLengths :
          buf' = [k \in 1..BufSize |-> IF k <= n THEN Console
                                       ELSE IF k = n + 1 THEN NUL ELSE buf[k]]
    /\ Goes("send", "post")
    /\ UNCHANGED <<i, j, nbytes, sets, backlog, clientVars, heard>>

-----------------------------------------------------------------------------
(* The clients                                                             *)

Connected(c) == \E f \in Fd : owner[f] = c

Connect(c) ==
    /\ ~Connected(c) /\ c \notin gone
    /\ \A k \in 1..Len(backlog) : backlog[k] # c
    /\ backlog' = Append(backlog, c)
    /\ UNCHANGED <<at, shared, sets, clientVars, heard>>

Type(c) ==
    /\ Connected(c) /\ c \notin gone
    /\ typed[c] < MaxTyped
    /\ \E n \in 1..(MaxTyped - typed[c]) :
          /\ typed' = [typed EXCEPT ![c] = @ + n]
          /\ up' = [up EXCEPT ![c] = @ + n]
    /\ UNCHANGED <<at, shared, sets, backlog, gone, heard>>

Leave(c) ==
    /\ Connected(c) /\ c \notin gone
    /\ gone' = gone \cup {c}
    /\ UNCHANGED <<at, shared, sets, backlog, typed, up, heard>>

-----------------------------------------------------------------------------
ReceiveThread ==
    \/ Select \/ Scan \/ Accept \/ Recv \/ RecvEnd
    \/ Post("receive") \/ Test("receive") \/ Send("receive")

SendThread == Gets \/ Post("send") \/ Test("send") \/ Send("send")

Next ==
    \/ ReceiveThread \/ SendThread
    \/ \E c \in Client : Connect(c) \/ Type(c) \/ Leave(c)

Spec == Init /\ [][Next]_vars

-----------------------------------------------------------------------------
(* test.c:184, test.c:216: what a client wrote is sent to everyone except  *)
(* the listener and "ourselves": nobody is sent a byte that he typed.      *)
NeverToOurselves == \A c \in Client : c \notin heard[c]
=============================================================================
