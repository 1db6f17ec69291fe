---------------------------- MODULE SelectServer ----------------------------
(***************************************************************************)
(* src/baseCode/selectserver.c: the server that TCPserver.c was written    *)
(* from.  It accepts at once, tells nobody of a newcomer, keeps no history *)
(* and forwards what it receives before it does anything else.             *)
(*                                                                         *)
(*   bind -> select -> scan;   a message:   scan -> forward -> scan        *)
(***************************************************************************)
EXTENDS Sockets, Integers

CONSTANTS
    Line,       \* what a client may send at a time
    Fd,         \* socket numbers
    Listener,   \* the number of the listening socket
    FD_SETSIZE, \* members an fd_set holds
    BufSize,    \* bytes one recv takes (256)
    NoClient    \* the owner of a free socket number

VARIABLES
    pc,                 \* the call made next
    i, j,               \* the loop counters; j is 0 outside its loop
    fdmax,              \* the largest socket number in use
    master, read_fds,   \* the two fd_sets
    owner,              \* owner[f]: the client at the other end of socket f
    buf                 \* the message being forwarded

mainVars == <<pc, i, j, fdmax, master, read_fds, owner, buf>>
vars == <<sockVars, mainVars>>

NoMessage == [kind |-> "none"]

Init ==
    /\ SocketsInit
    /\ pc = "bind"
    /\ i = 0 /\ j = 0 /\ fdmax = 0
    /\ master = {}
    /\ read_fds = {}
    /\ owner = [f \in Fd |-> NoClient]
    /\ buf = NoMessage

-----------------------------------------------------------------------------
(* Clients: whoever connects to the port, which may fail, sends lines,     *)
(* reads, and leaves.                                                      *)
Connect(c) ==
    /\ c \notin dialed
    /\ dialed' = dialed \cup {c}
    /\ \/ /\ server = "listening"
          /\ Len(backlog) < Backlog
          /\ backlog' = Append(backlog, c)
          /\ UNCHANGED hungup
       \/ hungup' = hungup \cup {c} /\ UNCHANGED backlog
    /\ UNCHANGED <<server, closed, up, stream, seen>>

Speak(c) ==
    /\ c \in dialed \ hungup
    /\ \E line \in Line : up' = [up EXCEPT ![c] = @ \o line]
    /\ UNCHANGED <<server, backlog, dialed, hungup, closed, stream, seen>>

Read(c) ==
    /\ c \in dialed \ hungup
    /\ seen' = [seen EXCEPT ![c] = Len(stream[c])]
    /\ UNCHANGED <<server, backlog, dialed, hungup, closed, up, stream>>

Leave(c) ==
    /\ c \in dialed \ hungup
    /\ hungup' = hungup \cup {c}
    /\ UNCHANGED <<server, backlog, dialed, closed, up, stream, seen>>

ClientStep(c) ==
    (Connect(c) \/ Speak(c) \/ Read(c) \/ Leave(c)) /\ UNCHANGED mainVars

-----------------------------------------------------------------------------
(* socket, bind, listen, FD_SET(listener, &master); or exit(1), (2), (3).  *)
Bind ==
    /\ pc = "bind"
    /\ \/ /\ pc' = "select"
          /\ server' = "listening"
          /\ master' = {Listener}
          /\ fdmax' = Listener
       \/ /\ pc' = "exited"
          /\ server' = "down"
          /\ UNCHANGED <<master, fdmax>>
    /\ UNCHANGED <<backlog, dialed, hungup, closed, up, stream, seen,
                   i, j, read_fds, owner, buf>>

Readable(f) ==
    IF f = Listener
    THEN backlog # << >>
    ELSE owner[f] \in Client /\ (up[owner[f]] # << >> \/ owner[f] \in hungup)

(* select(); a member of master that is no socket ends the server.         *)
Select ==
    /\ pc = "select"
    /\ \/ /\ \E f \in master \ {Listener} : owner[f] = NoClient
          /\ pc' = "exited"
          /\ server' = "down"
          /\ UNCHANGED <<i, read_fds>>
       \/ /\ \A f \in master \ {Listener} : owner[f] # NoClient
          /\ read_fds' = {f \in master : Readable(f)}
          /\ read_fds' # {}
          /\ i' = 0
          /\ pc' = "scan"
          /\ UNCHANGED server
    /\ UNCHANGED <<backlog, dialed, hungup, closed, up, stream, seen,
                   j, fdmax, master, owner, buf>>

(* The scan is at f, or reaches it over numbers that are not in read_fds.  *)
Turn(f) ==
    /\ pc = "scan"
    /\ f \in read_fds
    /\ i <= f /\ f <= fdmax
    /\ \A g \in read_fds : i <= g => f <= g

(* i++ over such numbers, up to one that is reported.                      *)
Skip ==
    /\ \E f \in Fd : Turn(f) /\ i < f /\ i' = f
    /\ UNCHANGED <<sockVars, pc, j, fdmax, master, read_fds, owner, buf>>

EndPass ==
    /\ pc = "scan"
    /\ \A f \in read_fds : f < i \/ fdmax < f
    /\ pc' = "select"
    /\ UNCHANGED <<sockVars, i, j, fdmax, master, read_fds, owner, buf>>

(* accept(): the oldest queued connection gets a free number, FD_SET and   *)
(* fdmax; or, its client being gone, it is dropped (-1); or it waits, for  *)
(* want of a number or of memory (-1).                                     *)
Accept ==
    /\ Turn(Listener)
    /\ backlog # << >>
    /\ \/ \E f \in Fd \ {Listener} :
             /\ owner[f] = NoClient
             /\ backlog' = Tail(backlog)
             /\ owner' = [owner EXCEPT ![f] = Head(backlog)]
             /\ master' = IF Cardinality(master) < FD_SETSIZE
                          THEN master \cup {f} ELSE master
             /\ fdmax' = IF f > fdmax THEN f ELSE fdmax
             /\ UNCHANGED up
       \/ /\ Head(backlog) \in hungup
          /\ backlog' = Tail(backlog)
          /\ up' = [up EXCEPT ![Head(backlog)] = << >>]
          /\ UNCHANGED <<owner, master, fdmax>>
       \/ UNCHANGED <<backlog, up, owner, master, fdmax>>
    /\ i' = Listener + 1
    /\ UNCHANGED <<server, dialed, hungup, closed, stream, seen, pc, j,
                   read_fds, buf>>

(* recv() > 0.                                                             *)
Recv ==
    /\ \E f \in Fd \ {Listener} :
          LET c == owner[f] IN
          /\ Turn(f)
          /\ c \in Client
          /\ \E n \in 1..Len(up[c]) :
                /\ n <= BufSize
                /\ buf' = Chat(c, SubSeq(up[c], 1, n))
                /\ up' = [up EXCEPT ![c] = SubSeq(@, n + 1, Len(@))]
          /\ i' = f
    /\ j' = 0
    /\ pc' = "forward"
    /\ UNCHANGED <<server, backlog, dialed, hungup, closed, stream, seen,
                   fdmax, master, read_fds, owner>>

(* recv() <= 0: close, FD_CLR.                                             *)
RecvEnd ==
    /\ \E f \in Fd \ {Listener} :
          /\ Turn(f)
          /\ owner[f] \in hungup
          /\ owner' = [owner EXCEPT ![f] = NoClient]
          /\ closed' = closed \cup {owner[f]}
          /\ up' = [up EXCEPT ![owner[f]] = << >>]
          /\ master' = master \ {f}
          /\ i' = f + 1
    /\ UNCHANGED <<server, backlog, dialed, hungup, stream, seen, pc, j, fdmax,
                   read_fds, buf>>

(* The members of master that the forwarding loop has still to reach.      *)
Pending == {f \in master : f # Listener /\ f # i /\ j <= f /\ f <= fdmax}

ForwardStep ==
    /\ pc = "forward"
    /\ \E f \in Pending :
          /\ \A g \in Pending : f <= g
          /\ owner[f] \in Client
          /\ CanSend(owner[f])
          /\ stream' = [stream EXCEPT ![owner[f]] = Sent(owner[f], buf)]
          /\ j' = f + 1
    /\ UNCHANGED <<server, backlog, dialed, hungup, closed, up, seen,
                   pc, i, fdmax, master, read_fds, owner, buf>>

ForwardDone ==
    /\ pc = "forward"
    /\ Pending = {}
    /\ pc' = "scan"
    /\ i' = i + 1
    /\ j' = 0
    /\ buf' = NoMessage
    /\ UNCHANGED <<sockVars, fdmax, master, read_fds, owner>>

Next ==
    \/ Bind \/ Select \/ Skip \/ EndPass \/ Accept
    \/ Recv \/ RecvEnd \/ ForwardStep \/ ForwardDone
    \/ \E c \in Client : ClientStep(c)

Spec == Init /\ [][Next]_vars
=============================================================================
