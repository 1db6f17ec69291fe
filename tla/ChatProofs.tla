----------------------------- MODULE ChatProofs -----------------------------
(***************************************************************************)
(* Safety of module Chat for every value of its constants: the server's    *)
(* bookkeeping of sockets (SocketsTracked), that no call of the scan ever  *)
(* blocks (NeverBlocksInScan), and that nobody hears himself               *)
(* (NobodyHearsHimself).                                                   *)
(***************************************************************************)
EXTENDS ChatTypeProofs

(* The fd_sets are large enough for every socket number.                   *)
SetsSuffice == IsFiniteSet(Fd) /\ Cardinality(Fd) <= FD_SETSIZE

(* The thread's calls while the port is open, and those of them during     *)
(* which an accepted socket is not in master.                              *)
Starting == {"boot", "bootRecv1", "bootRecv2", "bind"}
Fetching == {"ask", "recv1", "recv2", "welcome"}
Serving  == {"select", "scan", "announce", "post", "forward"} \cup Fetching

(* The port is open while the thread serves; before, there is no socket.   *)
Phases ==
    /\ pc \in Starting \cup Serving \cup {"exited"}
    /\ pc \in Serving => server = "listening"
    /\ pc = "exited" => server = "down"
    /\ pc \in Starting =>
          /\ server = "starting"
          /\ master = {}
          /\ read_fds = {}
          /\ backlog = << >>
          /\ \A f \in Fd : owner[f] = NoClient

(* A client that connected is queued once, or has a socket, not both.      *)
Queue ==
    /\ \A k \in 1..Len(backlog) : backlog[k] \in dialed
    /\ \A k, l \in 1..Len(backlog) : backlog[k] = backlog[l] => k = l
    /\ \A f \in Fd : owner[f] \in Client =>
          /\ owner[f] \in dialed
          /\ \A k \in 1..Len(backlog) : backlog[k] # owner[f]

(* i is the socket being served; the accepted one is not in master yet;    *)
(* the message being handled came in on socket i.                          *)
Cursor ==
    /\ pc \in Fetching \cup {"announce"} => i = Listener
    /\ pc \in Fetching /\ newfd # -1 => newfd \notin master /\ newfd # Listener
    /\ pc \in {"post", "forward"} =>
          i \in Fd /\ owner[i] \in Client /\ owner[i] = outgoing.who

SockInv == TypeInv /\ Phases /\ Queue /\ Cursor /\ MasterTracksSockets

(* The types the proofs below need.                                        *)
LEMMA Typing ==
    ASSUME TypeInv
    PROVE  /\ Fd \subseteq Nat /\ Listener \in Fd /\ NoClient \notin Client
           /\ i \in Nat /\ j \in Nat /\ fdmax \in Nat
           /\ newfd \in Fd \cup {-1}
           /\ master \subseteq Fd /\ read_fds \subseteq Fd
           /\ owner \in [Fd -> Client \cup {NoClient}]
           /\ backlog \in Seq(Client)
           /\ up \in [Client -> Seq(Byte)]
BY ServerAssumption DEF TypeInv, TypeOK, ServerTypeOK, SocketsTypeOK

(* FD_SET takes a new socket number whenever the sets suffice.             *)
LEMMA FdSetAdds ==
    ASSUME SetsSuffice, NEW s, s \subseteq Fd, NEW f \in Fd, f \notin s
    PROVE  FdSet(f, s) = s \cup {f}
<1>1. IsFiniteSet(s) /\ IsFiniteSet(Fd)
  BY FS_Subset DEF SetsSuffice
<1>2. Cardinality(s) < Cardinality(Fd)
  BY <1>1, FS_Subset, FS_CardinalityType
<1>3. Cardinality(s) \in Nat /\ Cardinality(Fd) \in Nat
  BY <1>1, FS_CardinalityType
<1> QED BY <1>2, <1>3, ServerAssumption DEF SetsSuffice, FdSet

(* The initial state.                                                      *)
LEMMA SockInit == Init => SockInv
<1> SUFFICES ASSUME Init PROVE SockInv
  OBVIOUS
<1>1. TypeInv
  BY TypeInit
<1>2. Phases
  BY DEF Init, SocketsInit, ServerInit, Phases, Starting, Serving, Fetching
<1>3. Queue
  BY ServerAssumption DEF Init, SocketsInit, ServerInit, Queue
<1>4. Cursor
  BY DEF Init, ServerInit, Cursor, Fetching
<1>5. MasterTracksSockets
  BY ServerAssumption DEF Init, SocketsInit, ServerInit, MasterTracksSockets
<1> QED BY <1>1, <1>2, <1>3, <1>4, <1>5 DEF SockInv

(* The web server does not touch it.                                       *)
LEMMA SockWeb == SockInv /\ TypeInv' /\ WebStep => SockInv'
BY DEF WebStep, sockVars, serverVars, SockInv, Phases, Queue, Cursor,
       MasterTracksSockets, Starting, Serving, Fetching, Welcoming

(* A client can only get itself queued.                                    *)
LEMMA SockClient ==
    ASSUME SockInv, TypeInv', NEW c \in Client, ClientStep(c)
    PROVE  SockInv'
<1>0. TypeInv /\ Phases /\ Queue /\ Cursor /\ MasterTracksSockets
  BY DEF SockInv
<1>1. /\ UNCHANGED serverVars
      /\ UNCHANGED server
      /\ \/ UNCHANGED backlog /\ dialed \subseteq dialed'
         \/ /\ server = "listening" /\ c \notin dialed
            /\ dialed' = dialed \cup {c}
            /\ backlog' = Append(backlog, c)
  BY DEF ClientStep, ClientNext, Connect, ConnectRefused, SendLine, Receive, Quit
<1>2. Cursor' /\ MasterTracksSockets'
  BY <1>0, <1>1 DEF serverVars, Cursor, MasterTracksSockets, Fetching, Welcoming
<1>3. Phases'
  BY <1>0, <1>1 DEF serverVars, Phases, Starting, Serving, Fetching
<1>4. Queue'
  <2>1. CASE UNCHANGED backlog /\ dialed \subseteq dialed'
    BY <1>0, <1>1, <2>1 DEF serverVars, Queue
  <2>2. CASE /\ c \notin dialed /\ dialed' = dialed \cup {c}
             /\ backlog' = Append(backlog, c)
    <3>1. /\ Len(backlog') = Len(backlog) + 1 /\ Len(backlog) \in Nat
          /\ \A k \in 1..Len(backlog) : backlog'[k] = backlog[k]
          /\ backlog'[Len(backlog) + 1] = c
      BY <1>0, <2>2, Typing
    <3> QED BY <1>0, <1>1, <2>2, <3>1 DEF serverVars, Queue
  <2> QED BY <1>1, <2>1, <2>2
<1> QED BY <1>2, <1>3, <1>4 DEF SockInv

(* The server's steps that leave backlog, dialed, owner, master, read_fds  *)
(* and fdmax alone: every call but Bind, Accept, Welcome and RecvEnd.      *)
LEMMA SockQuiet ==
    ASSUME SockInv, TypeInv',
           UNCHANGED <<server, backlog, dialed, fdmax, newfd, master, owner>>,
           pc \in Starting => read_fds' = {} /\ pc' \in Starting,
           pc \in Serving => pc' \in Serving,
           pc # "exited",
           pc' \in Fetching => pc \in Fetching /\ i' = i,
           pc \in Fetching => pc' \in Fetching,
           pc' = "announce" => pc = "announce" /\ i' = i,
           pc' \in {"post", "forward"} =>
               i' \in Fd /\ owner[i'] \in Client /\ owner[i'] = outgoing'.who
    PROVE  SockInv'
<1>0. TypeInv /\ Phases /\ Queue /\ Cursor /\ MasterTracksSockets
  BY DEF SockInv
<1>1. Phases'
  BY <1>0 DEF Phases, Starting, Serving, Fetching
<1>2. Queue'
  BY <1>0 DEF Queue
<1>3. Cursor'
  BY <1>0 DEF Cursor, Fetching
<1>4. MasterTracksSockets'
  BY <1>0, <1>1 DEF MasterTracksSockets, Welcoming, Phases, Starting, Serving, Fetching
<1> QED BY <1>1, <1>2, <1>3, <1>4 DEF SockInv

(* The fetch of the history is quiet.                                      *)
LEMMA SockFetch == SockInv /\ TypeInv' /\ (BootFetch \/ FetchHistory) => SockInv'
<1> SUFFICES ASSUME SockInv, TypeInv', BootFetch \/ FetchHistory PROVE SockInv'
  OBVIOUS
<1>1. UNCHANGED <<server, backlog, dialed, fdmax, newfd, master, owner, read_fds,
                  i, outgoing>>
  BY DEF BootFetch, FetchHistory, AskHistory, ReadHistory, ReadRest, sockVars
<1>2. \/ pc \in Starting /\ pc' \in Starting
      \/ pc \in Fetching /\ pc' \in Fetching
  BY DEF BootFetch, FetchHistory, AskHistory, ReadHistory, ReadRest, Starting, Fetching
<1>3. pc \in Starting => read_fds = {}
  BY DEF SockInv, Phases
<1> QED BY <1>1, <1>2, <1>3, SockQuiet DEF Starting, Serving, Fetching

(* exit().                                                                 *)
LEMMA SockExit ==
    ASSUME SockInv, TypeInv', pc # "exited",
           pc' = "exited", server' = "down", backlog' = << >>,
           UNCHANGED <<dialed, fdmax, newfd, master, owner>>
    PROVE  SockInv'
<1>0. TypeInv /\ Phases /\ Queue /\ Cursor /\ MasterTracksSockets
  BY DEF SockInv
<1>1. Phases' /\ Cursor'
  BY <1>0 DEF Phases, Cursor, Starting, Serving, Fetching
<1>2. Queue'
  BY <1>0 DEF Queue
<1>3. MasterTracksSockets'
  BY <1>0 DEF MasterTracksSockets, Welcoming
<1> QED BY <1>1, <1>2, <1>3 DEF SockInv

LEMMA SockBind == SockInv /\ TypeInv' /\ Bind => SockInv'
<1> SUFFICES ASSUME SockInv, TypeInv', Bind PROVE SockInv'
  OBVIOUS
<1>0. TypeInv /\ Phases /\ Queue /\ Cursor /\ MasterTracksSockets
  BY DEF SockInv
<1>1. pc \in Starting
  BY DEF Bind, Starting
<1>2. Phases' /\ Cursor'
  BY <1>0 DEF Bind, Phases, Cursor, Starting, Serving, Fetching
<1>3. Queue'
  BY <1>0 DEF Bind, Queue
<1>4. MasterTracksSockets'
  BY <1>0, <1>1, Typing DEF Bind, MasterTracksSockets, Phases, Welcoming
<1> QED BY <1>2, <1>3, <1>4 DEF SockInv

(* Select never fails, for master holds no closed socket.                  *)
LEMMA SockSelect == SockInv /\ TypeInv' /\ Select => SockInv'
<1> SUFFICES ASSUME SockInv, TypeInv', Select PROVE SockInv'
  OBVIOUS
<1>1. ~ \E f \in master \ {Listener} : owner[f] = NoClient
  BY Typing DEF SockInv, MasterTracksSockets
<1>2. /\ pc = "select" /\ pc' = "scan"
      /\ UNCHANGED <<server, backlog, dialed, fdmax, newfd, master, owner>>
  BY <1>1 DEF Select
<1> QED BY <1>2, SockQuiet DEF Starting, Serving, Fetching

(* The accepted connection leaves the backlog for a free socket number.    *)
LEMMA SockAccept == SockInv /\ TypeInv' /\ Accept => SockInv'
<1> SUFFICES ASSUME SockInv, TypeInv', Accept PROVE SockInv'
  OBVIOUS
<1>0. TypeInv /\ Phases /\ Queue /\ Cursor /\ MasterTracksSockets
  BY DEF SockInv
<1>1. /\ pc = "scan" /\ pc' = "ask" /\ i' = Listener
      /\ backlog # << >>
      /\ UNCHANGED <<server, dialed, fdmax, master, read_fds, outgoing>>
  BY DEF Accept, Turn
<1>2. \/ \E f \in Fd \ {Listener} :
             /\ owner[f] = NoClient
             /\ newfd' = f
             /\ owner' = [owner EXCEPT ![f] = Head(backlog)]
             /\ backlog' = Tail(backlog)
      \/ newfd' = -1 /\ UNCHANGED owner /\ backlog' = Tail(backlog)
      \/ newfd' = -1 /\ UNCHANGED <<owner, backlog>>
  BY DEF Accept
<1> DEFINE c == Head(backlog)
           Taken == backlog' = Tail(backlog)
<1>3. /\ c \in Client /\ c = backlog[1] /\ c \in dialed
      /\ Len(backlog) \in Nat \ {0}
      /\ Taken =>
            /\ Len(backlog') = Len(backlog) - 1
            /\ \A k \in 1..Len(backlog') : backlog'[k] = backlog[k + 1]
  <2>1. backlog \in Seq(Client) /\ backlog # << >>
    BY <1>0, <1>1, Typing
  <2>2. /\ c \in Client /\ c = backlog[1] /\ 1 \in 1..Len(backlog)
        /\ Len(backlog) \in Nat \ {0}
    BY <2>1
  <2>3. ASSUME Taken
        PROVE  /\ Len(backlog') = Len(backlog) - 1
               /\ \A k \in 1..Len(backlog') : backlog'[k] = backlog[k + 1]
    BY <2>1, <2>3
  <2> QED BY <1>0, <2>2, <2>3 DEF Queue
<1>4. \A f \in Fd : owner[f] \in Client =>
          owner[f] # c /\ (f \in master)
  BY <1>0, <1>1, <1>3 DEF Queue, MasterTracksSockets, Welcoming
<1>5. Phases'
  BY <1>0, <1>1 DEF Phases, Starting, Serving, Fetching
<1>6. Taken => \A k, l \in 1..Len(backlog') :
          /\ backlog'[k] \in dialed /\ backlog'[k] # c
          /\ backlog'[k] = backlog'[l] => k = l
  <2> SUFFICES ASSUME Taken, NEW k \in 1..Len(backlog'), NEW l \in 1..Len(backlog')
               PROVE  /\ backlog'[k] \in dialed /\ backlog'[k] # c
                      /\ backlog'[k] = backlog'[l] => k = l
    BY Zenon
  <2> HIDE DEF Taken, c
  <2>1. /\ 1 \in 1..Len(backlog)
        /\ k + 1 \in 1..Len(backlog) /\ l + 1 \in 1..Len(backlog)
        /\ k + 1 # 1 /\ (k + 1 = l + 1 => k = l)
        /\ backlog'[k] = backlog[k + 1] /\ backlog'[l] = backlog[l + 1]
    BY <1>3
  <2> QED BY <1>0, <1>3, <2>1 DEF Queue
<1>7. CASE newfd' = -1 /\ UNCHANGED owner /\ (Taken \/ UNCHANGED backlog)
  <2>1. Queue'
    <3>1. CASE Taken
      BY <1>0, <1>1, <1>3, <1>6, <1>7, <3>1 DEF Queue
    <3>2. CASE UNCHANGED backlog
      BY <1>0, <1>1, <1>7, <3>2 DEF Queue
    <3> QED BY <1>7, <3>1, <3>2
  <2>2. Cursor' /\ MasterTracksSockets'
    BY <1>0, <1>1, <1>4, <1>7 DEF Cursor, MasterTracksSockets, Fetching
  <2> QED BY <1>5, <2>1, <2>2 DEF SockInv
<1>8. ASSUME NEW f \in Fd \ {Listener}, owner[f] = NoClient, newfd' = f,
             owner' = [owner EXCEPT ![f] = Head(backlog)], Taken
      PROVE  SockInv'
  <2>1. /\ owner'[f] = c
        /\ \A g \in Fd \ {f} : owner'[g] = owner[g]
        /\ NoClient \notin Client /\ f \notin master /\ f \in Fd
    BY <1>0, <1>8, Typing DEF MasterTracksSockets
  <2> HIDE DEF c
  <2>2. Queue'
    <3>1. ASSUME NEW g \in Fd, owner'[g] \in Client, NEW k \in 1..Len(backlog')
          PROVE  backlog'[k] # owner'[g]
      <4>1. CASE g = f
        BY <4>1, <2>1, <1>6, <1>8
      <4>2. CASE g # f
        BY <4>2, <3>1, <2>1, <1>0, <1>3, <1>8 DEF Queue
      <4> QED BY <4>1, <4>2
    <3> QED BY <1>0, <1>1, <1>3, <1>6, <1>8, <2>1, <3>1 DEF Queue
  <2>3. Cursor'
    BY <1>1, <1>8, <2>1 DEF Cursor, Fetching
  <2>4. MasterTracksSockets'
    <3>1. server' = "listening" => Listener \in master'
      BY <1>0, <1>1 DEF MasterTracksSockets
    <3>2. owner'[Listener] = NoClient
      BY <1>0, <1>8, <2>1, Typing DEF MasterTracksSockets
    <3>3. \A g \in master' : g <= fdmax' /\ (g # Listener => owner'[g] \in Client)
      BY <1>0, <1>1, <2>1, Typing DEF MasterTracksSockets
    <3>4. \A g \in Fd : owner'[g] \in Client =>
              g \in master' \/ (g = newfd' /\ pc' \in Welcoming)
      BY <1>1, <1>4, <1>8, <2>1 DEF Welcoming
    <3>5. \A g, h \in Fd : owner'[g] = owner'[h] /\ owner'[g] \in Client => g = h
      BY <1>0, <1>4, <2>1 DEF MasterTracksSockets
    <3> QED BY <3>1, <3>2, <3>3, <3>4, <3>5 DEF MasterTracksSockets
  <2> QED BY <1>5, <2>2, <2>3, <2>4 DEF SockInv
<1> QED BY <1>2, <1>7, <1>8

(* The welcomed connection enters master, which has room.                  *)
LEMMA SockWelcome == SetsSuffice /\ SockInv /\ TypeInv' /\ Welcome => SockInv'
<1> SUFFICES ASSUME SetsSuffice, SockInv, TypeInv', Welcome PROVE SockInv'
  OBVIOUS
<1>0. TypeInv /\ Phases /\ Queue /\ Cursor /\ MasterTracksSockets
  BY DEF SockInv
<1>1. /\ pc = "welcome"
      /\ UNCHANGED <<server, backlog, dialed, newfd, read_fds, owner>>
  BY DEF Welcome
<1>2. CASE newfd = -1
  <2>1. pc' = "scan" /\ UNCHANGED <<master, fdmax>>
    BY <1>2 DEF Welcome
  <2>2. Phases' /\ Queue' /\ Cursor'
    BY <1>0, <1>1, <2>1 DEF Phases, Queue, Cursor, Starting, Serving, Fetching
  <2>3. MasterTracksSockets'
    BY <1>0, <1>1, <1>2, <2>1, Typing DEF MasterTracksSockets, Welcoming
  <2> QED BY <2>2, <2>3 DEF SockInv
<1>3. CASE newfd # -1
  <2>1. /\ newfd \in Fd /\ newfd \notin master /\ newfd # Listener
        /\ owner[newfd] \in Client
    BY <1>0, <1>1, <1>3, Typing DEF Cursor, Fetching, TypeInv, InHand
  <2>2. master' = master \cup {newfd}
    BY <1>3, <2>1, FdSetAdds, Typing DEF Welcome, SockInv
  <2>3. /\ pc' = "announce" /\ i' = i
        /\ fdmax' = IF newfd > fdmax THEN newfd ELSE fdmax
    BY <1>3 DEF Welcome
  <2>4. Phases' /\ Queue' /\ Cursor'
    BY <1>0, <1>1, <2>3 DEF Phases, Queue, Cursor, Starting, Serving, Fetching
  <2>5. MasterTracksSockets'
    <3>1. \A f \in master' :
             f <= fdmax' /\ (f # Listener => owner'[f] \in Client)
      BY <1>0, <1>1, <2>1, <2>2, <2>3, Typing DEF MasterTracksSockets
    <3>2. \A f \in Fd : owner'[f] \in Client => f \in master'
      BY <1>0, <1>1, <2>2 DEF MasterTracksSockets
    <3> QED BY <1>0, <1>1, <2>2, <3>1, <3>2 DEF MasterTracksSockets
  <2> QED BY <2>4, <2>5 DEF SockInv
<1> QED BY <1>2, <1>3

(* A closed socket leaves master, and no other one had the same client.    *)
LEMMA SockRecvEnd == SockInv /\ TypeInv' /\ RecvEnd => SockInv'
<1> SUFFICES ASSUME SockInv, TypeInv', RecvEnd PROVE SockInv'
  OBVIOUS
<1>0. TypeInv /\ Phases /\ Queue /\ Cursor /\ MasterTracksSockets
  BY DEF SockInv
<1>1. PICK f \in Fd \ {Listener} :
         /\ pc = "scan" /\ pc' = pc
         /\ owner' = [owner EXCEPT ![f] = NoClient]
         /\ master' = master \ {f}
         /\ UNCHANGED <<server, backlog, dialed, fdmax, newfd, read_fds>>
  BY DEF RecvEnd, Turn, Close, FdClr
<1>2. /\ owner'[f] = NoClient /\ NoClient \notin Client
      /\ \A g \in Fd \ {f} : owner'[g] = owner[g]
  BY <1>1, <1>0, Typing
<1>3. Phases'
  BY <1>0, <1>1 DEF Phases, Starting, Serving, Fetching
<1>4. Queue'
  BY <1>0, <1>1, <1>2 DEF Queue
<1>5. Cursor'
  BY <1>1 DEF Cursor, Fetching
<1>6. MasterTracksSockets'
  <2>1. server' = "listening" => Listener \in master'
    BY <1>0, <1>1 DEF MasterTracksSockets
  <2>2. owner'[Listener] = NoClient
    BY <1>0, <1>1, <1>2, Typing DEF MasterTracksSockets
  <2>3. \A g \in master' : g <= fdmax' /\ (g # Listener => owner'[g] \in Client)
    BY <1>0, <1>1, <1>2, Typing DEF MasterTracksSockets
  <2>4. \A g \in Fd : owner'[g] \in Client => g \in master'
    BY <1>0, <1>1, <1>2 DEF MasterTracksSockets, Welcoming
  <2>5. \A g, h \in Fd : owner'[g] = owner'[h] /\ owner'[g] \in Client => g = h
    BY <1>0, <1>2 DEF MasterTracksSockets
  <2> QED BY <2>1, <2>2, <2>3, <2>4, <2>5 DEF MasterTracksSockets
<1> QED BY <1>3, <1>4, <1>5, <1>6 DEF SockInv

(* The remaining steps of the server are quiet.                            *)
LEMMA SockScan ==
    SockInv /\ TypeInv' /\ (EndPass \/ BroadcastStep \/ BroadcastDone \/ Recv \/ Post)
        => SockInv'
<1> SUFFICES ASSUME SockInv, TypeInv' PROVE
      (EndPass \/ BroadcastStep \/ BroadcastDone \/ Recv \/ Post) => SockInv'
  OBVIOUS
<1> USE DEF Starting, Serving, Fetching
<1>0. Cursor
  BY DEF SockInv
<1>1. ASSUME EndPass PROVE SockInv'
  BY <1>1, SockQuiet DEF EndPass, sockVars
<1>2. ASSUME BroadcastStep PROVE SockInv'
  <2>1. /\ pc \in {"announce", "forward"}
        /\ UNCHANGED <<server, backlog, dialed, pc, i, fdmax, newfd, master,
                       read_fds, owner, outgoing>>
    BY <1>2 DEF BroadcastStep
  <2> QED BY <1>0, <2>1, SockQuiet DEF Cursor
<1>3. ASSUME BroadcastDone PROVE SockInv'
  BY <1>3, SockQuiet DEF BroadcastDone, sockVars
<1>4. ASSUME Recv PROVE SockInv'
  <2>1. PICK f \in Fd \ {Listener} :
           /\ pc = "scan" /\ pc' = "post" /\ i' = f
           /\ owner[f] \in Client
           /\ outgoing'.who = owner[f]
           /\ UNCHANGED <<server, backlog, dialed, fdmax, newfd, master, owner>>
    BY <1>4 DEF Recv, Turn, Chat
  <2> QED BY <2>1, SockQuiet
<1>5. ASSUME Post PROVE SockInv'
  <2>1. /\ pc = "post" /\ pc' = "forward"
        /\ UNCHANGED <<server, backlog, dialed, fdmax, newfd, master, owner,
                       i, outgoing>>
    BY <1>5 DEF Post, sockVars
  <2> QED BY <1>0, <2>1, SockQuiet DEF Cursor
<1> QED BY <1>1, <1>2, <1>3, <1>4, <1>5

(* Every step preserves the bookkeeping.                                   *)
LEMMA SockStep == SetsSuffice /\ SockInv /\ [Next]_vars => SockInv'
<1> SUFFICES ASSUME SetsSuffice, SockInv, [Next]_vars PROVE SockInv'
  OBVIOUS
<1>0. TypeInv'
  BY TypeStep DEF SockInv
<1>1. ASSUME ServerNext PROVE SockInv'
  <2>1. CASE Exit
    BY <1>0, <2>1, SockExit DEF Exit
  <2> QED BY <1>0, <1>1, <2>1, SockFetch, SockBind, SockSelect, SockAccept,
             SockWelcome, SockRecvEnd, SockScan DEF ServerNext
<1>2. CASE WebStep
  BY <1>0, <1>2, SockWeb
<1>3. ASSUME NEW c \in Client, ClientStep(c) PROVE SockInv'
  BY <1>0, <1>3, SockClient
<1>4. CASE UNCHANGED vars
  BY <1>0, <1>4 DEF vars, sockVars, serverVars, SockInv, Phases, Queue, Cursor,
                    MasterTracksSockets, Starting, Serving, Fetching, Welcoming
<1> QED BY <1>1, <1>2, <1>3, <1>4 DEF Next, ServerStep

(* The server's books are right as long as the fd_sets suffice: select is  *)
(* never given a closed socket, no connection is forgotten, and the loops  *)
(* up to fdmax reach every socket.                                         *)
THEOREM SocketsTracked ==
    ASSUME SetsSuffice
    PROVE  Spec => []MasterTracksSockets
<1>1. Init => SockInv
  BY SockInit
<1>2. SockInv /\ [Next]_vars => SockInv'
  BY SockStep
<1>3. SockInv => MasterTracksSockets
  BY DEF SockInv
<1> QED BY <1>1, <1>2, <1>3, PTL DEF Spec

-----------------------------------------------------------------------------
(* NoEcho: streams grow in Welcome and BroadcastStep only.                 *)
LEMMA NoEchoSent ==
    ASSUME TypeInv, NoEcho, NEW c \in Client, NEW item \in Item,
           item.kind = "chat" => item.who # c,
           stream' = [stream EXCEPT ![c] = Sent(c, item)]
    PROVE  NoEcho'
<1> SUFFICES ASSUME NEW d \in Client, NEW k \in 1..Len(stream'[d]),
                    stream'[d][k].kind = "chat"
             PROVE  stream'[d][k].who # d
  BY DEF NoEcho
<1>1. stream \in [Client -> Seq(Item)]
  BY DEF TypeInv, TypeOK, SocketsTypeOK
<1>2. CASE stream'[d] = stream[d]
  BY <1>2 DEF NoEcho
<1>3. CASE d = c /\ stream'[d] = Append(stream[d], item)
  <2>1. CASE k = Len(stream[d]) + 1
    BY <1>1, <1>3, <2>1
  <2>2. CASE k # Len(stream[d]) + 1
    <3>1. k \in 1..Len(stream[d]) /\ stream'[d][k] = stream[d][k]
      BY <1>1, <1>3, <2>2
    <3> QED BY <3>1 DEF NoEcho
  <2> QED BY <2>1, <2>2
<1> QED BY <1>1, <1>2, <1>3 DEF Sent

LEMMA NoEchoStep == SockInv /\ NoEcho /\ [Next]_vars => NoEcho'
<1> SUFFICES ASSUME SockInv, NoEcho, [Next]_vars PROVE NoEcho'
  OBVIOUS
<1>0. TypeInv /\ Cursor /\ MasterTracksSockets
  BY DEF SockInv
<1>1. CASE UNCHANGED stream
  BY <1>1 DEF NoEcho
<1>2. ASSUME Welcome PROVE NoEcho'
  <2>1. CASE newfd = -1 \/ latest16Messages = NoHistory
    BY <1>1, <1>2, <2>1 DEF Welcome
  <2>2. CASE newfd # -1 /\ latest16Messages # NoHistory
    <3>1. owner[newfd] \in Client /\ latest16Messages \in Seq(Seq(Byte))
      BY <1>0, <1>2, <2>2 DEF Welcome, TypeInv, InHand, TypeOK, ServerTypeOK
    <3>2. /\ History(owner[newfd], latest16Messages) \in Item
          /\ History(owner[newfd], latest16Messages).kind = "history"
      BY <3>1, ItemTypes DEF History
    <3>3. stream' = [stream EXCEPT ![owner[newfd]] =
                Sent(owner[newfd], History(owner[newfd], latest16Messages))]
      BY <1>2, <2>2 DEF Welcome
    <3> QED BY <1>0, <3>1, <3>2, <3>3, NoEchoSent
  <2> QED BY <2>1, <2>2
<1>3. ASSUME BroadcastStep PROVE NoEcho'
  <2>1. PICK f \in Pending :
           stream' = IF owner[f] \in Client
                     THEN [stream EXCEPT ![owner[f]] = Sent(owner[f], outgoing)]
                     ELSE stream
    BY <1>3 DEF BroadcastStep
  <2>2. f \in Fd /\ f # i
    BY <1>0, Typing DEF Pending
  <2>3. outgoing \in Item
    BY <1>0, <1>3 DEF BroadcastStep, TypeInv, InHand
  <2>4. CASE owner[f] \in Client
    <3>1. outgoing.kind = "chat" => outgoing.who # owner[f]
      <4>1. CASE pc = "announce"
        BY <1>0, <4>1 DEF TypeInv, InHand
      <4>2. CASE pc = "forward"
        BY <1>0, <2>2, <2>4, <4>2 DEF Cursor, MasterTracksSockets
      <4> QED BY <1>3, <4>1, <4>2 DEF BroadcastStep
    <3> QED BY <1>0, <2>1, <2>3, <2>4, <3>1, NoEchoSent
  <2> QED BY <1>1, <2>1, <2>4
<1>4. ASSUME ServerNext, ~ Welcome, ~ BroadcastStep PROVE UNCHANGED stream
  BY <1>4 DEF ServerNext, Exit, BootFetch, Bind, Select, EndPass, Accept,
              FetchHistory, AskHistory, ReadHistory, ReadRest, BroadcastDone,
              Recv, RecvEnd, Post, sockVars
<1>5. CASE ServerStep
  BY <1>5, <1>1, <1>2, <1>3, <1>4 DEF ServerStep
<1>6. CASE WebStep
  BY <1>6, <1>1 DEF WebStep, sockVars
<1>7. ASSUME NEW c \in Client, ClientStep(c) PROVE NoEcho'
  BY <1>7, <1>1 DEF ClientStep, ClientNext, Connect, ConnectRefused, SendLine,
                    Receive, Quit
<1>8. CASE UNCHANGED vars
  BY <1>8, <1>1 DEF vars, sockVars
<1> QED BY <1>5, <1>6, <1>7, <1>8 DEF Next

(* "Server does not send to sender its own message" (README.md:54): the    *)
(* broadcast loop leaves out one socket number, and that is enough, since  *)
(* no client ever has two.                                                 *)
THEOREM NobodyHearsHimself ==
    ASSUME SetsSuffice
    PROVE  Spec => []NoEcho
<1>1. Init => SockInv /\ NoEcho
  BY SockInit DEF Init, SocketsInit, NoEcho
<1>2. SockInv /\ NoEcho /\ [Next]_vars => (SockInv /\ NoEcho)'
  BY SockStep, NoEchoStep
<1> QED BY <1>1, <1>2, PTL DEF Spec

-----------------------------------------------------------------------------
(* ReadyStaysReady: what a step leaves of a socket's readiness.            *)
Unvisited(f) == pc \notin {"select", "exited"} /\ (f > i \/ (pc = "scan" /\ f = i))

LEMMA ReadyKept ==
    ASSUME SockInv, ReadyStaysReady,
           \A f \in read_fds' : Unvisited(f)' =>
               /\ f \in read_fds /\ Unvisited(f)
               /\ f \in master => f \in master'
               /\ Readable(f) => Readable(f)'
    PROVE  ReadyStaysReady'
BY DEF ReadyStaysReady, Unvisited

LEMMA ReadyStep ==
    SetsSuffice /\ SockInv /\ ReadyStaysReady /\ [Next]_vars => ReadyStaysReady'
<1> SUFFICES ASSUME SetsSuffice, SockInv, ReadyStaysReady, [Next]_vars
             PROVE  ReadyStaysReady'
  OBVIOUS
<1>0. TypeInv /\ Phases /\ Queue /\ Cursor /\ MasterTracksSockets
  BY DEF SockInv
<1>00. /\ Fd \subseteq Nat /\ i \in Nat /\ read_fds \subseteq Fd
       /\ owner \in [Fd -> Client \cup {NoClient}] /\ NoClient \notin Client
       /\ up \in [Client -> Seq(Byte)] /\ backlog \in Seq(Client)
  BY <1>0, Typing
(* Steps that change neither sockets nor their data.                       *)
<1>1. ASSUME UNCHANGED <<backlog, hungup, up, owner, read_fds>>,
             master \subseteq master',
             \A f \in read_fds : Unvisited(f)' => Unvisited(f)
      PROVE  ReadyStaysReady'
  BY <1>1, ReadyKept DEF Readable
<1>2. ASSUME BootFetch \/ FetchHistory PROVE ReadyStaysReady'
  <2>1. UNCHANGED <<backlog, hungup, up, owner, read_fds, master, i>>
    BY <1>2 DEF BootFetch, FetchHistory, AskHistory, ReadHistory, ReadRest, sockVars
  <2>2. pc \notin {"select", "exited", "scan"} /\ pc' \notin {"select", "exited", "scan"}
    BY <1>2 DEF BootFetch, FetchHistory, AskHistory, ReadHistory, ReadRest
  <2> QED BY <1>1, <2>1, <2>2 DEF Unvisited
<1>3. ASSUME Exit \/ EndPass PROVE ReadyStaysReady'
  BY <1>3 DEF Exit, EndPass, ReadyStaysReady
<1>4. ASSUME Bind PROVE ReadyStaysReady'
  BY <1>4 DEF Bind, ReadyStaysReady
<1>5. ASSUME Select PROVE ReadyStaysReady'
  <2>1. UNCHANGED <<hungup, up, owner, master>>
    BY <1>5 DEF Select
  <2>2. ~ \E f \in master \ {Listener} : owner[f] = NoClient
    BY <1>0, Typing DEF MasterTracksSockets
  <2>3. read_fds' = {f \in master : Readable(f)} /\ UNCHANGED backlog
    BY <1>5, <2>2 DEF Select, ReadyFds
  <2> QED BY <2>1, <2>3 DEF ReadyStaysReady, Readable
<1>6. ASSUME Accept PROVE ReadyStaysReady'
  <2>1. /\ pc = "scan" /\ pc' = "ask" /\ i' = Listener /\ i <= Listener
        /\ backlog # << >>
        /\ UNCHANGED <<hungup, master, read_fds>>
    BY <1>6 DEF Accept, Turn
  <2>2. ASSUME NEW f \in read_fds', Unvisited(f)'
        PROVE  /\ f \in read_fds /\ Unvisited(f)
               /\ Readable(f) => Readable(f)'
    <3>1. f \in read_fds /\ f \in Fd /\ f > Listener
      BY <1>00, <2>1, <2>2 DEF Unvisited
    <3>2. Unvisited(f)
      BY <1>00, <2>1, <3>1, ServerAssumption DEF Unvisited
    <3>3. Head(backlog) = backlog[1] /\ 1 \in 1..Len(backlog) /\ Head(backlog) \in Client
      BY <1>00, <2>1
    <3>4. owner[f] \in Client => owner'[f] = owner[f] /\ up'[owner[f]] = up[owner[f]]
      <4>1. owner[f] \in Client => owner[f] # Head(backlog)
        BY <1>0, <3>1, <3>3 DEF Queue
      <4>2. \/ \E g \in Fd \ {Listener} :
                   /\ owner[g] = NoClient
                   /\ owner' = [owner EXCEPT ![g] = Head(backlog)]
                   /\ UNCHANGED up
            \/ /\ up' = [up EXCEPT ![Head(backlog)] = << >>]
               /\ UNCHANGED owner
            \/ UNCHANGED <<owner, up>>
        BY <1>6 DEF Accept
      <4> QED BY <1>00, <3>1, <4>1, <4>2
    <3>5. f # Listener
      BY <1>00, <3>1, ServerAssumption
    <3>6. Readable(f) => Readable(f)'
      BY <2>1, <3>4, <3>5 DEF Readable
    <3> QED BY <3>1, <3>2, <3>6
  <2> QED BY <2>1, <2>2, ReadyKept
<1>7. ASSUME Welcome PROVE ReadyStaysReady'
  <2>1. /\ pc = "welcome" /\ UNCHANGED <<backlog, hungup, up, owner, read_fds>>
        /\ master \subseteq master'
        /\ \/ pc' = "scan" /\ i' = i + 1
           \/ pc' = "announce" /\ i' = i
    BY <1>7 DEF Welcome, FdSet
  <2> QED BY <1>1, <1>00, <2>1 DEF Unvisited
<1>8. ASSUME BroadcastStep \/ BroadcastDone PROVE ReadyStaysReady'
  <2>1. /\ pc \in {"announce", "forward"}
        /\ UNCHANGED <<backlog, hungup, up, owner, read_fds, master>>
        /\ \/ pc' = pc /\ i' = i
           \/ pc' = "scan" /\ i' = i + 1
    BY <1>8 DEF BroadcastStep, BroadcastDone, sockVars
  <2> QED BY <1>1, <1>00, <2>1 DEF Unvisited
<1>9. ASSUME Recv PROVE ReadyStaysReady'
  <2>1. PICK g \in Fd \ {Listener} :
           /\ pc = "scan" /\ pc' = "post" /\ i <= g /\ i' = g
           /\ owner[g] \in Client
           /\ \E n \in 1..Len(up[owner[g]]) :
                up' = [up EXCEPT ![owner[g]] = SubSeq(@, n + 1, Len(@))]
           /\ UNCHANGED <<backlog, hungup, owner, read_fds, master>>
    BY <1>9 DEF Recv, Turn
  <2>2. ASSUME NEW f \in read_fds', Unvisited(f)'
        PROVE  f \in read_fds /\ Unvisited(f) /\ (Readable(f) => Readable(f)')
    <3>1. f \in read_fds /\ f \in Fd /\ f > g /\ Unvisited(f)
      BY <1>00, <2>1, <2>2 DEF Unvisited
    <3>2. owner[f] \in Client => owner[f] # owner[g]
      BY <1>0, <1>00, <2>1, <3>1 DEF MasterTracksSockets
    <3>3. owner[f] \in Client => up'[owner[f]] = up[owner[f]]
      BY <1>00, <2>1, <3>1, <3>2
    <3> QED BY <2>1, <3>1, <3>3 DEF Readable
  <2> QED BY <2>1, <2>2, ReadyKept
<1>10. ASSUME RecvEnd PROVE ReadyStaysReady'
  <2>1. PICK g \in Fd \ {Listener} :
           /\ pc = "scan" /\ pc' = "scan" /\ i <= g /\ i' = g + 1
           /\ owner[g] \in hungup
           /\ owner' = [owner EXCEPT ![g] = NoClient]
           /\ up' = [up EXCEPT ![owner[g]] = << >>]
           /\ master' = master \ {g}
           /\ UNCHANGED <<backlog, hungup, read_fds>>
    BY <1>10 DEF RecvEnd, Turn, Close, FdClr
  <2>2. ASSUME NEW f \in read_fds', Unvisited(f)'
        PROVE  /\ f \in read_fds /\ Unvisited(f)
               /\ f \in master => f \in master'
               /\ Readable(f) => Readable(f)'
    <3>1. f \in read_fds /\ f \in Fd /\ f > g /\ Unvisited(f)
      BY <1>00, <2>1, <2>2 DEF Unvisited
    <3>2. owner[f] \in Client => owner[f] # owner[g]
      BY <1>0, <1>00, <2>1, <3>1 DEF MasterTracksSockets
    <3>3. owner[f] \in Client => owner'[f] = owner[f] /\ up'[owner[f]] = up[owner[f]]
      BY <1>00, <2>1, <3>1, <3>2
    <3> QED BY <1>00, <2>1, <3>1, <3>3 DEF Readable
  <2> QED BY <2>2, ReadyKept
<1>11. ASSUME Post PROVE ReadyStaysReady'
  BY <1>11, <1>1 DEF Post, sockVars, Unvisited
<1>12. CASE ServerStep
  BY <1>12, <1>2, <1>3, <1>4, <1>5, <1>6, <1>7, <1>8, <1>9, <1>10, <1>11
     DEF ServerStep, ServerNext
<1>13. CASE WebStep
  BY <1>13, <1>1 DEF WebStep, sockVars, serverVars, Unvisited
<1>14. ASSUME NEW c \in Client, ClientStep(c) PROVE ReadyStaysReady'
  <2>1. UNCHANGED serverVars /\ hungup \subseteq hungup'
    BY <1>14 DEF ClientStep, ClientNext, Connect, ConnectRefused, SendLine,
                 Receive, Quit
  <2>2. backlog # << >> => backlog' # << >>
    BY <1>14, <1>00 DEF ClientStep, ClientNext, Connect, ConnectRefused,
                        SendLine, Receive, Quit
  <2>3. \A d \in Client : up[d] # << >> => up'[d] # << >>
    <3>1. \/ UNCHANGED up
          \/ \E line \in Line : up' = [up EXCEPT ![c] = @ \o line]
      BY <1>14 DEF ClientStep, ClientNext, Connect, ConnectRefused, SendLine,
                   Receive, Quit
    <3> QED BY <1>00, <3>1, ClientAssumption
  <2> QED BY <2>1, <2>2, <2>3, ReadyKept DEF serverVars, Unvisited, Readable
<1>15. CASE UNCHANGED vars
  BY <1>15, <1>1 DEF vars, sockVars, serverVars, Unvisited
<1> QED BY <1>12, <1>13, <1>14, <1>15 DEF Next

(* No recv and no accept of the scan ever blocks: a socket that select has *)
(* reported is still open and readable when its turn comes.                *)
THEOREM NeverBlocksInScan ==
    ASSUME SetsSuffice
    PROVE  Spec => []ReadyStaysReady
<1>1. Init => SockInv /\ ReadyStaysReady
  BY SockInit DEF Init, ServerInit, ReadyStaysReady
<1>2. SockInv /\ ReadyStaysReady /\ [Next]_vars => (SockInv /\ ReadyStaysReady)'
  BY SockStep, ReadyStep
<1> QED BY <1>1, <1>2, PTL DEF Spec
=============================================================================
