-------------------------- MODULE ChatSelectProofs --------------------------
(***************************************************************************)
(* The chat server is still the select server it was written from          *)
(* (SelectServerKept), for every value of the constants: through the       *)
(* mapping of module Chat, every step of the application is a step of      *)
(* selectserver.c or changes nothing in it.                                *)
(***************************************************************************)
EXTENDS ChatProofs

(* Nobody has received more than he was sent.                              *)
SeenSent == \A c \in Client : seen[c] <= Len(stream[c])

(* The handler of the listening socket runs because select reported it.    *)
Called == pc \in Fetching => Listener \in read_fds

SelectInv == SockInv /\ SeenSent /\ Called

(* A failed lookup ends the chat server in the middle of its handlers,     *)
(* which is what the select server has no counterpart for.                 *)
StaysUp == pc \in {"ask", "post"} => ~ Exit

-----------------------------------------------------------------------------
(* The select server's variables, as module Chat maps them.                *)
SBacklog == IF InDoor THEN <<owner[newfd]>> \o backlog ELSE backlog
SOwner   == IF InDoor THEN [owner EXCEPT ![newfd] = NoClient] ELSE owner
SStream  == [c \in Client |-> Chats(c)]
SSeen    == [c \in Client |-> ChatsSeen(c)]
SPc      == CASE pc \in {"boot", "bootRecv1", "bootRecv2"} -> "bind"
              [] InDoor \/ PastDoor -> "scan"
              [] pc = "post" -> "forward"
              [] OTHER -> pc
SI       == IF PastDoor THEN i + 1 ELSE i
SJ       == IF pc = "forward" THEN j ELSE 0
SBuf     == IF pc \in {"post", "forward"} THEN outgoing ELSE Nothing

SelectsStep == [Selects!Next]_(Selects!vars)

(* One lemma for each step of the select server: what the chat server has  *)
(* to do to make it.                                                       *)
LEMMA MakesNothing ==
    ASSUME UNCHANGED <<server, SBacklog, dialed, hungup, closed, up, SStream,
                       SSeen, SPc, SI, SJ, fdmax, master, read_fds, SOwner,
                       SBuf>>
    PROVE  SelectsStep
BY DEF SelectsStep, Selects!vars, Selects!sockVars, Selects!mainVars, SBacklog,
       SOwner, SStream, SSeen, SPc, SI, SJ, SBuf

(* A client connects, or is refused.                                       *)
LEMMA MakesConnect ==
    ASSUME NEW c \in Client, c \notin dialed, dialed' = dialed \cup {c},
           \/ /\ server = "listening"
              /\ Len(SBacklog) < Backlog + 1
              /\ SBacklog' = Append(SBacklog, c)
              /\ UNCHANGED hungup
           \/ hungup' = hungup \cup {c} /\ UNCHANGED SBacklog,
           UNCHANGED <<server, closed, up, SStream, SSeen, SPc, SI, SJ, fdmax,
                       master, read_fds, SOwner, SBuf>>
    PROVE  SelectsStep
<1>1. Selects!Connect(c)
  BY DEF Selects!Connect, SBacklog, SStream, SSeen
<1>2. UNCHANGED Selects!mainVars
  BY DEF Selects!mainVars, SPc, SI, SJ, SOwner, SBuf
<1> QED BY <1>1, <1>2 DEF SelectsStep, Selects!Next, Selects!ClientStep

(* A client sends a line.                                                  *)
LEMMA MakesSpeak ==
    ASSUME NEW c \in dialed \ hungup, c \in Client, NEW line \in Line,
           up' = [up EXCEPT ![c] = @ \o line],
           UNCHANGED <<server, SBacklog, dialed, hungup, closed, SStream, SSeen,
                       SPc, SI, SJ, fdmax, master, read_fds, SOwner, SBuf>>
    PROVE  SelectsStep
<1>1. Selects!Speak(c)
  BY DEF Selects!Speak, SBacklog, SStream, SSeen
<1>2. UNCHANGED Selects!mainVars
  BY DEF Selects!mainVars, SPc, SI, SJ, SOwner, SBuf
<1> QED BY <1>1, <1>2 DEF SelectsStep, Selects!Next, Selects!ClientStep

(* A client receives what it was sent.                                     *)
LEMMA MakesRead ==
    ASSUME NEW c \in dialed \ hungup, c \in Client,
           SSeen' = [SSeen EXCEPT ![c] = Len(SStream[c])],
           UNCHANGED <<server, SBacklog, dialed, hungup, closed, up, SStream,
                       SPc, SI, SJ, fdmax, master, read_fds, SOwner, SBuf>>
    PROVE  SelectsStep
<1>1. Selects!Read(c)
  BY DEF Selects!Read, SBacklog, SStream, SSeen
<1>2. UNCHANGED Selects!mainVars
  BY DEF Selects!mainVars, SPc, SI, SJ, SOwner, SBuf
<1> QED BY <1>1, <1>2 DEF SelectsStep, Selects!Next, Selects!ClientStep

(* A client leaves.                                                        *)
LEMMA MakesLeave ==
    ASSUME NEW c \in dialed \ hungup, c \in Client, hungup' = hungup \cup {c},
           UNCHANGED <<server, SBacklog, dialed, closed, up, SStream, SSeen,
                       SPc, SI, SJ, fdmax, master, read_fds, SOwner, SBuf>>
    PROVE  SelectsStep
<1>1. Selects!Leave(c)
  BY DEF Selects!Leave, SBacklog, SStream, SSeen
<1>2. UNCHANGED Selects!mainVars
  BY DEF Selects!mainVars, SPc, SI, SJ, SOwner, SBuf
<1> QED BY <1>1, <1>2 DEF SelectsStep, Selects!Next, Selects!ClientStep

(* The port is opened, or the program ends.                                *)
LEMMA MakesBind ==
    ASSUME SPc = "bind",
           \/ /\ SPc' = "select" /\ server' = "listening"
              /\ master' = {Listener} /\ fdmax' = Listener
           \/ /\ SPc' = "exited" /\ server' = "down"
              /\ UNCHANGED <<master, fdmax>>,
           UNCHANGED <<SBacklog, dialed, hungup, closed, up, SStream, SSeen,
                       SI, SJ, read_fds, SOwner, SBuf>>
    PROVE  SelectsStep
<1>1. Selects!Bind
  BY DEF Selects!Bind, SBacklog, SStream, SSeen, SPc, SI, SJ, SOwner, SBuf
<1> QED BY <1>1 DEF SelectsStep, Selects!Next

(* What recv or accept would not wait for, there.                          *)
SReadable(f) ==
    IF f = Listener
    THEN SBacklog # << >>
    ELSE SOwner[f] \in Client /\ (up[SOwner[f]] # << >> \/ SOwner[f] \in hungup)

(* select() reports the readable members of master.                        *)
LEMMA MakesSelect ==
    ASSUME SPc = "select", \A f \in master \ {Listener} : SOwner[f] # NoClient,
           read_fds' = {f \in master : SReadable(f)}, read_fds' # {},
           SI' = 0, SPc' = "scan",
           UNCHANGED <<server, SBacklog, dialed, hungup, closed, up, SStream,
                       SSeen, SJ, fdmax, master, SOwner, SBuf>>
    PROVE  SelectsStep
<1>1. {f \in master : Selects!Readable(f)} = {f \in master : SReadable(f)}
  BY DEF Selects!Readable, SReadable, SBacklog, SOwner
<1>2. Selects!Select
  BY <1>1 DEF Selects!Select, SBacklog, SStream, SSeen, SPc, SI, SJ, SOwner, SBuf
<1> QED BY <1>2 DEF SelectsStep, Selects!Next

(* The scan there is at f, or reaches it.                                  *)
STurn(f) ==
    /\ SPc = "scan"
    /\ f \in read_fds
    /\ SI <= f /\ f <= fdmax
    /\ \A g \in read_fds : SI <= g => f <= g

(* Turn there is STurn.                                                    *)
LEMMA TurnIs == ASSUME NEW f PROVE Selects!Turn(f) <=> STurn(f)
BY DEF Selects!Turn, STurn, SPc, SI

(* The scan passes numbers that are not reported.                          *)
LEMMA MakesSkip ==
    ASSUME NEW f \in Fd, STurn(f), SI < f, SI' = f,
           UNCHANGED <<server, SBacklog, dialed, hungup, closed, up, SStream,
                       SSeen, SPc, SJ, fdmax, master, read_fds, SOwner, SBuf>>
    PROVE  SelectsStep
<1>1. Selects!Turn(f)
  BY TurnIs
<1>2. Selects!Skip
  BY <1>1 DEF Selects!Skip, Selects!sockVars, SBacklog, SStream, SSeen, SPc, SI,
         SJ, SOwner, SBuf
<1> QED BY <1>2 DEF SelectsStep, Selects!Next

(* The scan ends.                                                          *)
LEMMA MakesEndPass ==
    ASSUME SPc = "scan", \A f \in read_fds : f < SI \/ fdmax < f, SPc' = "select",
           UNCHANGED <<server, SBacklog, dialed, hungup, closed, up, SStream,
                       SSeen, SI, SJ, fdmax, master, read_fds, SOwner, SBuf>>
    PROVE  SelectsStep
<1>1. Selects!EndPass
  BY DEF Selects!EndPass, Selects!sockVars, SBacklog, SStream, SSeen, SPc, SI, SJ,
         SOwner, SBuf
<1> QED BY <1>1 DEF SelectsStep, Selects!Next

(* The instance counts like FiniteSets.                                    *)
LEMMA SameCount == ASSUME NEW S PROVE Selects!Cardinality(S) = Cardinality(S)
BY DEF Selects!Cardinality, Cardinality

(* accept() succeeds, or fails.                                            *)
LEMMA MakesAccept ==
    ASSUME STurn(Listener), SBacklog # << >>,
           \/ \E f \in Fd \ {Listener} :
                 /\ SOwner[f] = NoClient
                 /\ SBacklog' = Tail(SBacklog)
                 /\ SOwner' = [SOwner EXCEPT ![f] = Head(SBacklog)]
                 /\ master' = IF Cardinality(master) < FD_SETSIZE
                              THEN master \cup {f} ELSE master
                 /\ fdmax' = IF f > fdmax THEN f ELSE fdmax
                 /\ UNCHANGED up
           \/ /\ Head(SBacklog) \in hungup
              /\ SBacklog' = Tail(SBacklog)
              /\ up' = [up EXCEPT ![Head(SBacklog)] = << >>]
              /\ UNCHANGED <<SOwner, master, fdmax>>
           \/ UNCHANGED <<SBacklog, up, SOwner, master, fdmax>>,
           SI' = Listener + 1,
           UNCHANGED <<server, dialed, hungup, closed, SStream, SSeen, SPc, SJ,
                       read_fds, SBuf>>
    PROVE  SelectsStep
<1>1. Selects!Turn(Listener)
  BY TurnIs
<1>2. Selects!Accept
  BY <1>1, SameCount DEF Selects!Accept, SBacklog, SStream, SSeen, SPc, SI, SJ, SOwner, SBuf
<1> QED BY <1>2 DEF SelectsStep, Selects!Next

(* recv() of a message.                                                    *)
LEMMA MakesRecv ==
    ASSUME NEW f \in Fd \ {Listener}, STurn(f), SOwner[f] \in Client,
           NEW n \in 1..Len(up[SOwner[f]]), n <= BufSize,
           SBuf' = Chat(SOwner[f], SubSeq(up[SOwner[f]], 1, n)),
           up' = [up EXCEPT ![SOwner[f]] = SubSeq(@, n + 1, Len(@))],
           SI' = f, SJ' = 0, SPc' = "forward",
           UNCHANGED <<server, SBacklog, dialed, hungup, closed, SStream, SSeen,
                       fdmax, master, read_fds, SOwner>>
    PROVE  SelectsStep
<1>1. Selects!Turn(f)
  BY TurnIs
<1>2. Selects!Recv
  BY <1>1 DEF Selects!Recv, Selects!Chat, Chat, SBacklog, SStream, SSeen, SPc, SI,
         SJ, SOwner, SBuf
<1> QED BY <1>2 DEF SelectsStep, Selects!Next

(* recv() of the end.                                                      *)
LEMMA MakesRecvEnd ==
    ASSUME NEW f \in Fd \ {Listener}, STurn(f), SOwner[f] \in hungup,
           SOwner' = [SOwner EXCEPT ![f] = NoClient],
           closed' = closed \cup {SOwner[f]},
           up' = [up EXCEPT ![SOwner[f]] = << >>],
           master' = master \ {f}, SI' = f + 1,
           UNCHANGED <<server, SBacklog, dialed, hungup, SStream, SSeen, SPc, SJ,
                       fdmax, read_fds, SBuf>>
    PROVE  SelectsStep
<1>1. Selects!Turn(f)
  BY TurnIs
<1>2. Selects!RecvEnd
  BY <1>1 DEF Selects!RecvEnd, SBacklog, SStream, SSeen, SPc, SI, SJ, SOwner, SBuf
<1> QED BY <1>2 DEF SelectsStep, Selects!Next

(* The members of master that the loop there has still to reach.           *)
SPending == {f \in master : f # Listener /\ f # SI /\ SJ <= f /\ f <= fdmax}

(* Pending there is SPending.                                              *)
LEMMA PendingIs == Selects!Pending = SPending
BY DEF Selects!Pending, SPending, SI, SJ

(* The message goes to one more client.                                    *)
LEMMA MakesForwardStep ==
    ASSUME SPc = "forward", NEW f \in SPending, \A g \in SPending : f <= g,
           SOwner[f] \in Client,
           \/ SOwner[f] \in hungup
           \/ Len(SStream[SOwner[f]]) - SSeen[SOwner[f]] < Window,
           SStream' = [SStream EXCEPT ![SOwner[f]] =
                         IF SOwner[f] \in hungup THEN SStream[SOwner[f]]
                         ELSE Append(SStream[SOwner[f]], SBuf)],
           SJ' = f + 1,
           UNCHANGED <<server, SBacklog, dialed, hungup, closed, up, SSeen, SPc,
                       SI, fdmax, master, read_fds, SOwner, SBuf>>
    PROVE  SelectsStep
<1>1. f \in Selects!Pending /\ \A g \in Selects!Pending : f <= g
  BY PendingIs
<1>2. Selects!ForwardStep
  BY <1>1 DEF Selects!ForwardStep, Selects!CanSend, Selects!Sent, SBacklog, SStream,
         SSeen, SPc, SI, SJ, SOwner, SBuf
<1> QED BY <1>2 DEF SelectsStep, Selects!Next

(* The message has reached everybody.                                      *)
LEMMA MakesForwardDone ==
    ASSUME SPc = "forward", SPending = {}, SPc' = "scan", SI' = SI + 1, SJ' = 0,
           SBuf' = Nothing,
           UNCHANGED <<server, SBacklog, dialed, hungup, closed, up, SStream,
                       SSeen, fdmax, master, read_fds, SOwner>>
    PROVE  SelectsStep
<1>1. Selects!Pending = {}
  BY PendingIs
<1>2. Selects!ForwardDone
  BY <1>1 DEF Selects!ForwardDone, Selects!sockVars, Selects!NoMessage, Nothing,
         SBacklog, SStream, SSeen, SPc, SI, SJ, SOwner, SBuf
<1> QED BY <1>2 DEF SelectsStep, Selects!Next

(* At first there is nobody.                                               *)
LEMMA SelectsInitially == Init => Selects!Init
<1> SUFFICES ASSUME Init PROVE Selects!Init
  OBVIOUS
<1>1. /\ pc = "boot" /\ server = "starting" /\ backlog = << >> /\ dialed = {}
      /\ hungup = {} /\ closed = {} /\ up = [c \in Client |-> << >>]
      /\ i = 0 /\ j = 0 /\ fdmax = 0 /\ master = {} /\ read_fds = {}
      /\ owner = [f \in Fd |-> NoClient]
  BY DEF Init, SocketsInit, ServerInit
<1>2. \A c \in Client : stream[c] = << >> /\ seen[c] = 0
  BY DEF Init, SocketsInit
<1>3. \A c \in Client : Chats(c) = << >>
  BY <1>2, KeepEmpty DEF Chats
<1>4. \A c \in Client : ChatsSeen(c) = 0
  <2>1. SubSeq(<< >>, 1, 0) = << >> /\ Len(<< >>) = 0
    OBVIOUS
  <2> QED BY <1>2, <2>1, KeepEmpty DEF ChatsSeen
<1>5. ~ InDoor /\ ~ PastDoor
  BY <1>1 DEF InDoor, PastDoor
<1> QED BY <1>1, <1>3, <1>4, <1>5 DEF Selects!Init, Selects!SocketsInit,
      Selects!NoMessage, Nothing

-----------------------------------------------------------------------------
(* Away from the listening socket's handler the two servers have the same  *)
(* backlog, sockets and counter.                                           *)
LEMMA OutsideNow ==
    ASSUME pc \notin Fetching \cup {"announce"}
    PROVE  SBacklog = backlog /\ SOwner = owner /\ SI = i
BY DEF SBacklog, SOwner, SI, InDoor, PastDoor, Fetching

(* The same in the next state.                                             *)
LEMMA OutsideNext ==
    ASSUME pc' \notin Fetching \cup {"announce"}
    PROVE  SBacklog' = backlog' /\ SOwner' = owner' /\ SI' = i'
BY DEF SBacklog, SOwner, SI, InDoor, PastDoor, Fetching

(* A newcomer who has a socket is still in the other server's backlog.     *)
LEMMA AcceptedNow ==
    ASSUME pc \in Fetching, newfd # -1
    PROVE  /\ SBacklog = <<owner[newfd]>> \o backlog
           /\ SOwner = [owner EXCEPT ![newfd] = NoClient]
           /\ SI = i /\ SPc = "scan"
BY DEF SBacklog, SOwner, SI, SPc, InDoor, PastDoor, Fetching

(* The same in the next state.                                             *)
LEMMA AcceptedNext ==
    ASSUME pc' \in Fetching, newfd' # -1
    PROVE  /\ SBacklog' = <<owner'[newfd']>> \o backlog'
           /\ SOwner' = [owner' EXCEPT ![newfd'] = NoClient]
           /\ SI' = i' /\ SPc' = "scan"
BY DEF SBacklog, SOwner, SI, SPc, InDoor, PastDoor, Fetching

(* The other server is past a newcomer who has no socket, or is being      *)
(* announced.                                                              *)
LEMMA PastNow ==
    ASSUME (pc \in Fetching /\ newfd = -1) \/ pc = "announce"
    PROVE  SBacklog = backlog /\ SOwner = owner /\ SI = i + 1 /\ SPc = "scan"
BY DEF SBacklog, SOwner, SI, SPc, InDoor, PastDoor, Fetching

(* The same in the next state.                                             *)
LEMMA PastNext ==
    ASSUME (pc' \in Fetching /\ newfd' = -1) \/ pc' = "announce"
    PROVE  SBacklog' = backlog' /\ SOwner' = owner' /\ SI' = i' + 1 /\ SPc' = "scan"
BY DEF SBacklog, SOwner, SI, SPc, InDoor, PastDoor, Fetching

(* What was sent and received is the same there when it is here.           *)
LEMMA SameTalk ==
    /\ UNCHANGED stream => UNCHANGED SStream
    /\ UNCHANGED <<stream, seen>> => UNCHANGED SSeen
BY DEF SStream, SSeen, Chats, ChatsSeen

(* The web server's steps are none.                                        *)
LEMMA IdleStep == ASSUME UNCHANGED <<sockVars, serverVars>> PROVE SelectsStep
<1>1. UNCHANGED <<SBacklog, SOwner, SPc, SI, SJ, SBuf>>
  BY DEF sockVars, serverVars, SBacklog, SOwner, SPc, SI, SJ, SBuf, InDoor, PastDoor
<1>2. UNCHANGED <<SStream, SSeen>>
  BY SameTalk DEF sockVars
<1> QED BY <1>1, <1>2, MakesNothing DEF sockVars, serverVars

(* Neither is the fetch of a history, at boot or for a newcomer.           *)
LEMMA FetchStep == BootFetch \/ FetchHistory => SelectsStep
<1> SUFFICES ASSUME BootFetch \/ FetchHistory PROVE SelectsStep
  OBVIOUS
<1>1. UNCHANGED <<sockVars, i, j, fdmax, newfd, master, read_fds, owner, outgoing>>
  BY DEF BootFetch, FetchHistory, AskHistory, ReadHistory, ReadRest
<1>2. \/ pc \in Starting \ {"bind"} /\ pc' \in Starting
      \/ pc \in Fetching /\ pc' \in Fetching
  BY DEF BootFetch, FetchHistory, AskHistory, ReadHistory, ReadRest, Starting,
         Fetching
<1>3. InDoor' = InDoor /\ PastDoor' = PastDoor
  BY <1>1, <1>2 DEF InDoor, PastDoor, Starting, Fetching
<1>4. UNCHANGED <<SBacklog, SOwner, SI>>
  BY <1>1, <1>3 DEF SBacklog, SOwner, SI, sockVars
<1>5. UNCHANGED <<SPc, SJ, SBuf>>
  BY <1>1, <1>2, <1>3 DEF SPc, SJ, SBuf, Starting, Fetching, InDoor, PastDoor
<1>6. UNCHANGED <<SStream, SSeen>>
  BY <1>1, SameTalk DEF sockVars
<1> QED BY <1>1, <1>4, <1>5, <1>6, MakesNothing DEF sockVars

(* exit() before the port is open is the other's failure to open it.       *)
LEMMA ExitStep == SelectInv /\ StaysUp /\ Exit => SelectsStep
<1> SUFFICES ASSUME SelectInv, StaysUp, Exit PROVE SelectsStep
  OBVIOUS
<1>1. /\ pc \in {"boot", "bind"} /\ pc' = "exited" /\ server' = "down"
      /\ backlog' = << >>
      /\ UNCHANGED <<dialed, hungup, closed, up, stream, seen, i, j, fdmax,
                     master, read_fds, owner>>
  BY DEF Exit, StaysUp
<1>2. backlog = << >>
  BY <1>1 DEF SelectInv, SockInv, Phases, Starting
<1>3. UNCHANGED <<SBacklog, SOwner, SI>>
  BY <1>1, <1>2, OutsideNow, OutsideNext DEF Fetching
<1>4. SPc = "bind" /\ SPc' = "exited" /\ UNCHANGED <<SJ, SBuf>>
  BY <1>1 DEF SPc, SJ, SBuf, InDoor, PastDoor
<1> QED BY <1>1, <1>3, <1>4, SameTalk, MakesBind

(* The port is opened.                                                     *)
LEMMA BindStep == Bind => SelectsStep
<1> SUFFICES ASSUME Bind PROVE SelectsStep
  OBVIOUS
<1>1. /\ pc = "bind" /\ pc' = "select" /\ server' = "listening"
      /\ master' = {Listener} /\ fdmax' = Listener
      /\ UNCHANGED <<backlog, dialed, hungup, closed, up, stream, seen, i, j,
                     read_fds, owner>>
  BY DEF Bind
<1>2. UNCHANGED <<SBacklog, SOwner, SI>>
  BY <1>1, OutsideNow, OutsideNext DEF Fetching
<1>3. SPc = "bind" /\ SPc' = "select" /\ UNCHANGED <<SJ, SBuf>>
  BY <1>1 DEF SPc, SJ, SBuf, InDoor, PastDoor
<1> QED BY <1>1, <1>2, <1>3, SameTalk, MakesBind

(* select() reports the same sockets there.                                *)
LEMMA SelectStep == SelectInv /\ Select => SelectsStep
<1> SUFFICES ASSUME SelectInv, Select PROVE SelectsStep
  OBVIOUS
<1>1. \A f \in master \ {Listener} : owner[f] # NoClient
  BY Typing DEF SelectInv, SockInv, MasterTracksSockets
<1>2. /\ pc = "select" /\ pc' = "scan" /\ i' = 0
      /\ read_fds' = {f \in master : Readable(f)} /\ read_fds' # {}
      /\ UNCHANGED <<server, backlog, dialed, hungup, closed, up, stream, seen,
                     j, fdmax, master, owner>>
  BY <1>1 DEF Select, ReadyFds
<1>3. /\ SBacklog = backlog /\ SBacklog' = backlog
      /\ SOwner = owner /\ SOwner' = owner /\ SI' = 0
  BY <1>2, OutsideNow, OutsideNext DEF Fetching
<1>4. SPc = "select" /\ SPc' = "scan" /\ UNCHANGED <<SJ, SBuf>>
  BY <1>2 DEF SPc, SJ, SBuf, InDoor, PastDoor
<1>5. read_fds' = {f \in master : SReadable(f)}
  BY <1>2, <1>3 DEF Readable, SReadable
<1> QED BY <1>1, <1>2, <1>3, <1>4, <1>5, SameTalk, MakesSelect

(* The scan ends there too.                                                *)
LEMMA EndPassStep == SelectInv /\ EndPass => SelectsStep
<1> SUFFICES ASSUME SelectInv, EndPass PROVE SelectsStep
  OBVIOUS
<1>1. /\ pc = "scan" /\ pc' = "select"
      /\ \A f \in read_fds : f < i \/ ~ (f <= fdmax)
      /\ UNCHANGED <<sockVars, i, j, fdmax, master, read_fds, owner>>
  BY DEF EndPass, InLoop
<1>2. \A f \in read_fds : f < i \/ fdmax < f
  BY <1>1, Typing DEF SelectInv, SockInv
<1>3. UNCHANGED <<SBacklog, SOwner, SI>> /\ SI = i
  BY <1>1, OutsideNow, OutsideNext DEF Fetching, sockVars
<1>4. SPc = "scan" /\ SPc' = "select" /\ UNCHANGED <<SJ, SBuf>>
  BY <1>1 DEF SPc, SJ, SBuf, InDoor, PastDoor
<1> QED BY <1>1, <1>2, <1>3, <1>4, SameTalk, MakesEndPass DEF sockVars

(* accept: one that succeeds brings the other's scan to the listening      *)
(* socket, if it is not there; one that fails is the other's too.          *)
LEMMA AcceptStep == SelectInv /\ Accept => SelectsStep
<1> SUFFICES ASSUME SelectInv, Accept PROVE SelectsStep
  OBVIOUS
<1>0. /\ owner \in [Fd -> Client \cup {NoClient}] /\ backlog \in Seq(Client)
      /\ i \in Nat /\ Listener \in Nat /\ Listener \in Fd
  BY Typing DEF SelectInv, SockInv
<1>1. /\ pc = "scan" /\ pc' = "ask" /\ i' = Listener
      /\ backlog # << >>
      /\ Turn(Listener)
      /\ UNCHANGED <<server, dialed, hungup, closed, stream, seen, j, fdmax,
                     master, read_fds, outgoing>>
  BY DEF Accept, Turn
<1>2. SBacklog = backlog /\ SOwner = owner /\ SI = i
  BY <1>1, OutsideNow DEF Fetching
<1>3. SPc = "scan" /\ UNCHANGED <<SJ, SBuf>>
  BY <1>1 DEF SPc, SJ, SBuf, InDoor, PastDoor
<1>4. STurn(Listener)
  BY <1>1, <1>2, <1>3 DEF Turn, InLoop, STurn
<1>5. CASE newfd' = -1
  <2>1. /\ UNCHANGED owner
        /\ \/ /\ Head(backlog) \in hungup
              /\ backlog' = Tail(backlog)
              /\ up' = [up EXCEPT ![Head(backlog)] = << >>]
           \/ UNCHANGED <<backlog, up>>
    BY <1>5, ServerAssumption DEF Accept
  <2>2. SBacklog' = backlog' /\ SOwner' = owner /\ SI' = Listener + 1
        /\ SPc' = "scan"
    BY <1>1, <1>5, <2>1, PastNext DEF Fetching
  <2> QED BY <1>1, <1>2, <1>3, <1>4, <2>1, <2>2, SameTalk, MakesAccept
<1>6. CASE newfd' # -1
  <2>1. PICK f \in Fd \ {Listener} :
           /\ owner[f] = NoClient /\ newfd' = f
           /\ backlog' = Tail(backlog)
           /\ owner' = [owner EXCEPT ![f] = Head(backlog)]
           /\ UNCHANGED up
    BY <1>6 DEF Accept
  <2>2. /\ SBacklog' = <<owner'[newfd']>> \o backlog'
        /\ SOwner' = [owner' EXCEPT ![newfd'] = NoClient]
        /\ SI' = Listener /\ SPc' = "scan"
    BY <1>1, <1>6, AcceptedNext DEF Fetching
  <2>3. SOwner' = owner
    BY <1>0, <2>1, <2>2
  <2>4. SBacklog' = backlog
    <3>1. owner'[newfd'] = Head(backlog)
      BY <1>0, <2>1
    <3>2. \A s \in Seq(Client) : s # << >> => <<Head(s)>> \o Tail(s) = s
      OBVIOUS
    <3> QED BY <1>0, <1>1, <2>1, <2>2, <3>1, <3>2
  <2>5. CASE i = Listener
    BY <1>1, <1>2, <1>3, <2>1, <2>2, <2>3, <2>4, <2>5, SameTalk, MakesNothing
  <2>6. CASE i # Listener
    <3>1. i < Listener
      BY <1>0, <1>1, <2>6 DEF Turn
    <3> QED BY <1>0, <1>1, <1>2, <1>3, <1>4, <2>1, <2>2, <2>3, <2>4, <3>1,
               SameTalk, MakesSkip
  <2> QED BY <2>5, <2>6
<1> QED BY <1>5, <1>6

-----------------------------------------------------------------------------
(* What is sent besides messages does not show.                            *)
LEMMA TalkGrows ==
    ASSUME TypeInv, SeenSent, NEW c \in Client, NEW x \in Item,
           stream' = [stream EXCEPT ![c] = Append(stream[c], x)], seen' = seen
    PROVE  /\ SStream' = [SStream EXCEPT ![c] =
                             IF x \in ChatsOf(Client) THEN Append(SStream[c], x)
                             ELSE SStream[c]]
           /\ SSeen' = SSeen
<1>1. \A d \in Client : stream[d] \in Seq(Item) /\ seen[d] \in 0..Len(stream[d])
  BY DEF TypeInv, TypeOK, SocketsTypeOK, SeenSent
<1>2. \A d \in Client : stream'[d] = IF d = c THEN Append(stream[c], x)
                                     ELSE stream[d]
  BY DEF TypeInv, TypeOK, SocketsTypeOK
<1>3. \A d \in Client :
         Keep(stream'[d], ChatsOf(Client)) =
            IF d = c /\ x \in ChatsOf(Client)
            THEN Append(Keep(stream[d], ChatsOf(Client)), x)
            ELSE Keep(stream[d], ChatsOf(Client))
  <2>1. ASSUME NEW s \in Seq(Item)
        PROVE  Keep(Append(s, x), ChatsOf(Client)) =
                  IF x \in ChatsOf(Client)
                  THEN Append(Keep(s, ChatsOf(Client)), x)
                  ELSE Keep(s, ChatsOf(Client))
    BY KeepAppend
  <2> TAKE d \in Client
  <2>2. CASE d = c
    <3>1. stream'[d] = Append(stream[d], x) /\ stream[d] \in Seq(Item)
      BY <1>1, <1>2, <2>2
    <3> QED BY <2>1, <2>2, <3>1, Zenon
  <2>3. CASE d # c
    BY <1>2, <2>3
  <2> QED BY <2>2, <2>3
<1>4. \A d \in Client : SubSeq(stream'[d], 1, seen[d]) = SubSeq(stream[d], 1, seen[d])
  <2>1. ASSUME NEW s \in Seq(Item), NEW n \in 0..Len(s)
        PROVE  SubSeq(Append(s, x), 1, n) = SubSeq(s, 1, n)
    <3>1. Append(s, x) \in Seq(Item) /\ n \in 0..Len(Append(s, x))
          /\ \A k \in 1..n : Append(s, x)[k] = s[k]
      OBVIOUS
    <3>2. /\ SubSeq(Append(s, x), 1, n) \in Seq(Item)
          /\ Len(SubSeq(Append(s, x), 1, n)) = n
          /\ \A k \in 1..n : SubSeq(Append(s, x), 1, n)[k] = Append(s, x)[k]
      BY <3>1, CutAt
    <3>3. /\ SubSeq(s, 1, n) \in Seq(Item) /\ Len(SubSeq(s, 1, n)) = n
          /\ \A k \in 1..n : SubSeq(s, 1, n)[k] = s[k]
      BY CutAt
    <3> DEFINE p == SubSeq(Append(s, x), 1, n)
               q == SubSeq(s, 1, n)
    <3>4. Len(p) = Len(q) /\ \A k \in 1..Len(p) : p[k] = q[k]
      BY <3>1, <3>2, <3>3
    <3> HIDE DEF p, q
    <3>5. p \in Seq(Item) /\ q \in Seq(Item)
      BY <3>2, <3>3 DEF p, q
    <3>6. p = q
      BY <3>4, <3>5, SeqEqual
    <3> QED BY <3>6 DEF p, q
  <2> QED BY <1>1, <1>2, <2>1
<1>5. SSeen' = SSeen
  <2>1. SSeen' = [d \in Client |->
                    Len(Keep(SubSeq(stream'[d], 1, seen'[d]), ChatsOf(Client)))]
    BY DEF SSeen, ChatsSeen, ChatsOf
  <2>2. SSeen = [d \in Client |->
                    Len(Keep(SubSeq(stream[d], 1, seen[d]), ChatsOf(Client)))]
    BY DEF SSeen, ChatsSeen
  <2>3. ASSUME NEW d \in Client
        PROVE  Len(Keep(SubSeq(stream'[d], 1, seen'[d]), ChatsOf(Client)))
                 = Len(Keep(SubSeq(stream[d], 1, seen[d]), ChatsOf(Client)))
    <3>1. SubSeq(stream'[d], 1, seen'[d]) = SubSeq(stream[d], 1, seen[d])
      BY <1>4
    <3> QED BY <3>1, Zenon
  <2> HIDE DEF ChatsOf
  <2> QED BY <2>1, <2>2, <2>3, Zenon
<1>6. SStream' = [d \in Client |-> Keep(stream'[d], ChatsOf(Client))]
      /\ SStream = [d \in Client |-> Keep(stream[d], ChatsOf(Client))]
  BY DEF SStream, Chats, ChatsOf
<1>7. SStream' = [SStream EXCEPT ![c] =
                     IF x \in ChatsOf(Client) THEN Append(SStream[c], x)
                     ELSE SStream[c]]
  <2> HIDE DEF ChatsOf
  <2> QED BY <1>3, <1>6, Zenon
<1> QED BY <1>5, <1>7

(* The welcome: the other server's accept, or nothing is left of it.       *)
LEMMA WelcomeStep == SelectInv /\ TypeInv' /\ Welcome => SelectsStep
<1> SUFFICES ASSUME SelectInv, TypeInv', Welcome PROVE SelectsStep
  OBVIOUS
<1>0. /\ TypeInv /\ SeenSent /\ Cursor /\ MasterTracksSockets
      /\ owner \in [Fd -> Client \cup {NoClient}] /\ backlog \in Seq(Client)
      /\ Listener \in Nat
  BY Typing DEF SelectInv, SockInv
<1>1. /\ pc = "welcome"
      /\ UNCHANGED <<server, backlog, dialed, hungup, closed, up, seen, newfd,
                     read_fds, owner>>
  BY DEF Welcome
<1>2. SJ = 0 /\ SBuf = Nothing
  BY <1>1 DEF SJ, SBuf
<1>3. CASE newfd = -1
  <2>1. /\ pc' = "scan" /\ i' = i + 1 /\ UNCHANGED <<stream, master, fdmax, outgoing>>
    BY <1>3 DEF Welcome
  <2>2. SBacklog = backlog /\ SOwner = owner /\ SI = i + 1 /\ SPc = "scan"
    BY <1>1, <1>3, PastNow DEF Fetching
  <2>3. SBacklog' = backlog' /\ SOwner' = owner' /\ SI' = i'
    BY <2>1, OutsideNext DEF Fetching
  <2>4. SPc' = "scan" /\ SJ' = 0 /\ SBuf' = Nothing
    BY <2>1 DEF SPc, SJ, SBuf, InDoor, PastDoor
  <2> QED BY <1>1, <1>2, <2>1, <2>2, <2>3, <2>4, SameTalk, MakesNothing
<1>4. CASE newfd # -1
  <2> DEFINE c == owner[newfd]
  <2>1. /\ pc' = "announce" /\ UNCHANGED i
        /\ master' = FdSet(newfd, master)
        /\ fdmax' = IF newfd > fdmax THEN newfd ELSE fdmax
        /\ stream' = IF latest16Messages = NoHistory THEN stream
                     ELSE [stream EXCEPT
                             ![c] = Sent(c, History(c, latest16Messages))]
    BY <1>4 DEF Welcome
  <2>2. /\ newfd \in Fd \ {Listener} /\ c \in Client /\ i = Listener
    BY <1>0, <1>1, <1>4, Typing DEF Cursor, Fetching, TypeInv, InHand
  <2>3. /\ SBacklog = <<c>> \o backlog
        /\ SOwner = [owner EXCEPT ![newfd] = NoClient]
        /\ SI = Listener /\ SPc = "scan"
    BY <1>1, <1>4, <2>2, AcceptedNow DEF Fetching
  <2>4. SBacklog' = backlog /\ SOwner' = owner /\ SI' = Listener + 1
        /\ SPc' = "scan"
    BY <1>1, <2>1, <2>2, PastNext
  <2>5. SJ' = 0 /\ SBuf' = Nothing
    BY <2>1 DEF SJ, SBuf
  <2>6. STurn(Listener)
    <3>1. Listener \in read_fds
      BY <1>1 DEF SelectInv, Called, Fetching
    <3>2. Listener <= fdmax
      BY <1>0, <1>1 DEF SelectInv, SockInv, MasterTracksSockets, Phases, Serving,
             Fetching
    <3> QED BY <1>0, <2>3, <3>1, <3>2 DEF STurn
  <2>7. SBacklog # << >> /\ Head(SBacklog) = c /\ Tail(SBacklog) = backlog
    <3>1. \A s \in Seq(Client), d \in Client :
             <<d>> \o s # << >> /\ Head(<<d>> \o s) = d /\ Tail(<<d>> \o s) = s
      OBVIOUS
    <3> QED BY <1>0, <2>2, <2>3, <3>1
  <2>8. SOwner[newfd] = NoClient /\ SOwner' = [SOwner EXCEPT ![newfd] = c]
    BY <1>0, <2>2, <2>3, <2>4
  <2>9. SStream' = SStream /\ SSeen' = SSeen
    <3>1. CASE UNCHANGED stream
      BY <1>1, <3>1, SameTalk
    <3>2. CASE /\ latest16Messages # NoHistory
               /\ stream' = [stream EXCEPT ![c] =
                               Append(stream[c], History(c, latest16Messages))]
      <4>1. History(c, latest16Messages) \in Item
        BY <1>0, <2>2, <3>2, ItemTypes DEF TypeInv, TypeOK, ServerTypeOK
      <4>2. History(c, latest16Messages) \notin ChatsOf(Client)
        BY DEF History, ChatsOf
      <4>3. SStream' = [SStream EXCEPT ![c] = SStream[c]] /\ SSeen' = SSeen
        BY <1>0, <1>1, <2>2, <3>2, <4>1, <4>2, TalkGrows
      <4> QED BY <2>2, <4>3 DEF SStream
    <3>3. CASE c \in hungup
      <4>1. stream' = IF latest16Messages = NoHistory THEN stream
                      ELSE [stream EXCEPT ![c] = stream[c]]
        BY <2>1, <3>3 DEF Sent
      <4>2. UNCHANGED stream
        BY <1>0, <4>1 DEF TypeInv, TypeOK, SocketsTypeOK
      <4> QED BY <3>1, <4>2
    <3> QED BY <2>1, <3>1, <3>2, <3>3 DEF Sent
  <2>10. \E f \in Fd \ {Listener} :
            /\ SOwner[f] = NoClient
            /\ SOwner' = [SOwner EXCEPT ![f] = Head(SBacklog)]
            /\ master' = IF Cardinality(master) < FD_SETSIZE
                         THEN master \cup {f} ELSE master
            /\ fdmax' = IF f > fdmax THEN f ELSE fdmax
            /\ UNCHANGED up
    BY <1>1, <2>1, <2>2, <2>7, <2>8 DEF FdSet
  <2> QED BY <1>1, <1>2, <2>3, <2>4, <2>5, <2>6, <2>7, <2>9, <2>10, MakesAccept
<1> QED BY <1>3, <1>4

-----------------------------------------------------------------------------
(* Who has room for one more item has room for one more message.           *)
LEMMA RoomForChat ==
    ASSUME TypeInv, SeenSent, NEW c \in Client, Len(stream[c]) - seen[c] < Window
    PROVE  Len(SStream[c]) - SSeen[c] < Window
<1> DEFINE C == ChatsOf(Client)
           s == stream[c]
           n == seen[c]
           p == SubSeq(s, 1, n)
           q == SubSeq(s, n + 1, Len(s))
<1>1. s \in Seq(Item) /\ n \in 0..Len(s) /\ Len(s) - n < Window
      /\ Window \in Nat
  BY SocketsAssumption DEF TypeInv, TypeOK, SocketsTypeOK, SeenSent
<1>2. SStream[c] = Keep(s, C) /\ SSeen[c] = Len(Keep(p, C))
  BY DEF SStream, SSeen, Chats, ChatsSeen
<1> HIDE DEF C, s, n
<1>3. p \in Seq(Item) /\ q \in Seq(Item) /\ Len(q) = Len(s) - n
  BY <1>1, CutAt
<1>4. p \o q = s
  BY <1>1, Halves
<1> HIDE DEF p, q
<1>5. Keep(s, C) = Keep(p, C) \o Keep(q, C)
  BY <1>3, <1>4, KeepConcat
<1>6. Keep(p, C) \in Seq(Item) /\ Keep(q, C) \in Seq(Item)
  BY <1>3, KeepIsSeq
<1>7. Len(Keep(s, C)) = Len(Keep(p, C)) + Len(Keep(q, C))
  BY <1>5, <1>6, ConcatParts
<1>8. Len(Keep(q, C)) <= Len(q)
  BY <1>3, KeepLen
<1>9. Len(Keep(p, C)) \in Nat /\ Len(Keep(q, C)) \in Nat /\ Len(s) \in Nat
      /\ n \in Nat
  BY <1>1, <1>6
<1> QED BY <1>1, <1>2, <1>3, <1>7, <1>8, <1>9

(* The announcement is none of its steps; the forwarding is.               *)
LEMMA BroadcastStepStep == SelectInv /\ BroadcastStep => SelectsStep
<1> SUFFICES ASSUME SelectInv, BroadcastStep PROVE SelectsStep
  OBVIOUS
<1>0. /\ TypeInv /\ SeenSent /\ MasterTracksSockets
      /\ stream \in [Client -> Seq(Item)]
  BY DEF SelectInv, SockInv, TypeInv, TypeOK, SocketsTypeOK
<1>1. /\ pc \in {"announce", "forward"}
      /\ UNCHANGED <<server, backlog, dialed, hungup, closed, up, seen, pc, i,
                     fdmax, newfd, master, read_fds, owner, outgoing>>
  BY DEF BroadcastStep
<1>2. PICK f \in Pending :
         /\ \A g \in Pending : f <= g
         /\ owner[f] \in Client => CanSend(owner[f])
         /\ stream' = IF owner[f] \in Client
                      THEN [stream EXCEPT ![owner[f]] = Sent(owner[f], outgoing)]
                      ELSE stream
         /\ j' = f + 1
  BY DEF BroadcastStep
<1> DEFINE c == owner[f]
<1>3. f \in master /\ f # Listener /\ c \in Client
  BY <1>0 DEF Pending, MasterTracksSockets
<1>4. UNCHANGED <<SBacklog, SOwner, SPc, SI, SBuf>>
  BY <1>1 DEF SBacklog, SOwner, SPc, SI, SBuf, InDoor, PastDoor
<1>5. outgoing \in Item
  BY <1>0, <1>1 DEF TypeInv, InHand
<1>6. SSeen' = SSeen
      /\ SStream' = [SStream EXCEPT ![c] =
                        IF c \in hungup \/ pc = "announce" THEN SStream[c]
                        ELSE Append(SStream[c], outgoing)]
  <2>1. CASE c \in hungup
    <3>1. UNCHANGED stream
      BY <1>0, <1>2, <1>3, <2>1 DEF Sent
    <3>2. UNCHANGED <<SStream, SSeen>>
      BY <1>1, <3>1, SameTalk
    <3> QED BY <1>3, <2>1, <3>2 DEF SStream
  <2>2. CASE c \notin hungup
    <3>1. stream' = [stream EXCEPT ![c] = Append(stream[c], outgoing)]
      BY <1>2, <1>3, <2>2 DEF Sent
    <3>2. outgoing \in ChatsOf(Client) <=> pc = "forward"
      BY <1>0, <1>1, <1>5 DEF TypeInv, InHand, ChatsOf, Item
    <3>3. /\ SStream' = [SStream EXCEPT ![c] =
                            IF outgoing \in ChatsOf(Client)
                            THEN Append(SStream[c], outgoing) ELSE SStream[c]]
          /\ SSeen' = SSeen
      BY <1>0, <1>1, <1>3, <1>5, <3>1, TalkGrows
    <3> QED BY <1>1, <2>2, <3>2, <3>3
  <2> QED BY <2>1, <2>2
<1>7. CASE pc = "announce"
  <2>1. SJ' = SJ
    BY <1>1, <1>7 DEF SJ
  <2>2. SStream' = SStream
    BY <1>3, <1>6, <1>7 DEF SStream
  <2> QED BY <1>1, <1>4, <1>6, <2>1, <2>2, MakesNothing
<1>8. CASE pc = "forward"
  <2>1. SJ = j /\ SJ' = f + 1 /\ SPc = "forward" /\ SBuf = outgoing
    BY <1>1, <1>2, <1>8 DEF SJ, SPc, SBuf, InDoor, PastDoor
  <2>2. SBacklog = backlog /\ SOwner = owner /\ SI = i
    BY <1>8, OutsideNow DEF Fetching
  <2>3. SPending = Pending
    BY <2>1, <2>2 DEF SPending, Pending, InLoop
  <2>4. c \in hungup \/ Len(SStream[c]) - SSeen[c] < Window
    BY <1>0, <1>2, <1>3, RoomForChat DEF CanSend
  <2>5. SStream' = [SStream EXCEPT ![SOwner[f]] =
                       IF SOwner[f] \in hungup THEN SStream[SOwner[f]]
                       ELSE Append(SStream[SOwner[f]], SBuf)]
    BY <1>6, <1>8, <2>1, <2>2
  <2> QED BY <1>1, <1>2, <1>3, <1>4, <1>6, <2>1, <2>2, <2>3, <2>4, <2>5,
             MakesForwardStep
<1> QED BY <1>1, <1>7, <1>8

(* The end of the announcement is not seen; that of the forwarding is.     *)
LEMMA BroadcastDoneStep == BroadcastDone => SelectsStep
<1> SUFFICES ASSUME BroadcastDone PROVE SelectsStep
  OBVIOUS
<1>1. /\ pc \in {"announce", "forward"} /\ Pending = {}
      /\ pc' = "scan" /\ i' = i + 1
      /\ UNCHANGED <<sockVars, fdmax, master, read_fds, owner>>
  BY DEF BroadcastDone
<1>2. SBacklog' = backlog' /\ SOwner' = owner' /\ SI' = i'
  BY <1>1, OutsideNext DEF Fetching
<1>3. SPc' = "scan" /\ SJ' = 0 /\ SBuf' = Nothing
  BY <1>1 DEF SPc, SJ, SBuf, InDoor, PastDoor
<1>4. UNCHANGED <<SStream, SSeen>>
  BY <1>1, SameTalk DEF sockVars
<1>5. CASE pc = "announce"
  <2>1. SBacklog = backlog /\ SOwner = owner /\ SI = i + 1 /\ SPc = "scan"
    BY <1>5, PastNow
  <2>2. SJ = 0 /\ SBuf = Nothing
    BY <1>5 DEF SJ, SBuf
  <2> QED BY <1>1, <1>2, <1>3, <1>4, <2>1, <2>2, MakesNothing DEF sockVars
<1>6. CASE pc = "forward"
  <2>1. SBacklog = backlog /\ SOwner = owner /\ SI = i
    BY <1>6, OutsideNow DEF Fetching
  <2>2. SJ = j /\ SPc = "forward"
    BY <1>6 DEF SJ, SPc, InDoor, PastDoor
  <2>3. SPending = {}
    BY <1>1, <2>1, <2>2 DEF SPending, Pending, InLoop
  <2> QED BY <1>1, <1>2, <1>3, <1>4, <2>1, <2>2, <2>3, MakesForwardDone
          DEF sockVars
<1> QED BY <1>1, <1>5, <1>6

-----------------------------------------------------------------------------
(* recv() of a message, which is at once being forwarded there.            *)
LEMMA RecvStep == Recv => SelectsStep
<1> SUFFICES ASSUME Recv PROVE SelectsStep
  OBVIOUS
<1>1. PICK f \in Fd \ {Listener} :
         /\ Turn(f) /\ owner[f] \in Client /\ i' = f /\ pc' = "post"
         /\ \E n \in 1..Len(up[owner[f]]) :
               /\ n <= BufSize
               /\ outgoing' = Chat(owner[f], SubSeq(up[owner[f]], 1, n))
               /\ up' = [up EXCEPT ![owner[f]] = SubSeq(@, n + 1, Len(@))]
         /\ UNCHANGED <<server, backlog, dialed, hungup, closed, stream, seen,
                        fdmax, master, read_fds, owner>>
  BY DEF Recv
<1>2. PICK n \in 1..Len(up[owner[f]]) :
         /\ n <= BufSize
         /\ outgoing' = Chat(owner[f], SubSeq(up[owner[f]], 1, n))
         /\ up' = [up EXCEPT ![owner[f]] = SubSeq(@, n + 1, Len(@))]
  BY <1>1
<1>3. pc = "scan"
  BY <1>1 DEF Turn
<1>4. SBacklog = backlog /\ SOwner = owner /\ SI = i /\ SPc = "scan"
  BY <1>3, OutsideNow DEF Fetching, SPc, InDoor, PastDoor
<1>5. SBacklog' = backlog' /\ SOwner' = owner' /\ SI' = i'
  BY <1>1, OutsideNext DEF Fetching
<1>6. SPc' = "forward" /\ SJ' = 0 /\ SBuf' = outgoing'
  BY <1>1 DEF SPc, SJ, SBuf, InDoor, PastDoor
<1>7. STurn(f)
  BY <1>1, <1>4 DEF Turn, InLoop, STurn
<1>8. UNCHANGED <<SStream, SSeen>>
  BY <1>1, SameTalk
<1> QED BY <1>1, <1>2, <1>4, <1>5, <1>6, <1>7, <1>8, MakesRecv

(* The message is stored: the other server does not do that.               *)
LEMMA PostStep == Post => SelectsStep
<1> SUFFICES ASSUME Post PROVE SelectsStep
  OBVIOUS
<1>1. /\ pc = "post" /\ pc' = "forward" /\ j' = 0
      /\ UNCHANGED <<sockVars, i, fdmax, newfd, master, read_fds, owner, outgoing>>
  BY DEF Post
<1>2. UNCHANGED <<SBacklog, SOwner, SI>>
  BY <1>1, OutsideNow, OutsideNext DEF Fetching, sockVars
<1>3. UNCHANGED <<SPc, SJ, SBuf>>
  BY <1>1 DEF SPc, SJ, SBuf, InDoor, PastDoor
<1> QED BY <1>1, <1>2, <1>3, SameTalk, MakesNothing DEF sockVars

(* recv() that finds the client gone.                                      *)
LEMMA RecvEndStep == RecvEnd => SelectsStep
<1> SUFFICES ASSUME RecvEnd PROVE SelectsStep
  OBVIOUS
<1>1. PICK f \in Fd \ {Listener} :
         /\ Turn(f) /\ owner[f] \in hungup
         /\ owner' = [owner EXCEPT ![f] = NoClient]
         /\ closed' = closed \cup {owner[f]}
         /\ up' = [up EXCEPT ![owner[f]] = << >>]
         /\ master' = master \ {f} /\ i' = f + 1
         /\ UNCHANGED <<server, backlog, dialed, hungup, stream, seen, pc, j,
                        fdmax, read_fds, outgoing>>
  BY DEF RecvEnd, Close, FdClr
<1>2. pc = "scan" /\ pc' = "scan"
  BY <1>1 DEF Turn
<1>3. SBacklog = backlog /\ SOwner = owner /\ SI = i
  BY <1>2, OutsideNow DEF Fetching
<1>4. SBacklog' = backlog' /\ SOwner' = owner' /\ SI' = i'
  BY <1>2, OutsideNext DEF Fetching
<1>5. SPc = "scan" /\ UNCHANGED <<SPc, SJ, SBuf>>
  BY <1>2 DEF SPc, SJ, SBuf, InDoor, PastDoor
<1>6. STurn(f)
  BY <1>1, <1>3, <1>5 DEF Turn, InLoop, STurn
<1> QED BY <1>1, <1>3, <1>4, <1>5, <1>6, SameTalk, MakesRecvEnd

-----------------------------------------------------------------------------
(* What the clients do, they do there too.                                 *)
LEMMA ClientSelectsStep ==
    ASSUME SelectInv, NEW c \in Client, ClientStep(c)
    PROVE  SelectsStep
<1>0. /\ TypeInv /\ backlog \in Seq(Client)
      /\ stream \in [Client -> Seq(Item)] /\ seen \in [Client -> Nat]
  BY Typing DEF SelectInv, SockInv, TypeInv, TypeOK, SocketsTypeOK
<1>1. UNCHANGED <<webVars, serverVars>>
  BY DEF ClientStep
<1>2. UNCHANGED <<SOwner, SPc, SI, SJ, SBuf, fdmax, master, read_fds, InDoor>>
  BY <1>1 DEF serverVars, SOwner, SPc, SI, SJ, SBuf, InDoor, PastDoor
<1>3. UNCHANGED backlog => UNCHANGED SBacklog
  BY <1>1, <1>2 DEF serverVars, SBacklog
<1>4. CASE Connect(c)
  <2>1. /\ c \notin dialed /\ server = "listening" /\ Len(backlog) < Backlog
        /\ dialed' = dialed \cup {c} /\ backlog' = Append(backlog, c)
        /\ UNCHANGED <<server, hungup, closed, up, stream, seen>>
    BY <1>4 DEF Connect
  <2>2. Len(SBacklog) < Backlog + 1 /\ SBacklog' = Append(SBacklog, c)
    <3>1. CASE InDoor
      <4>1. /\ SBacklog = <<owner[newfd]>> \o backlog
            /\ SBacklog' = <<owner[newfd]>> \o Append(backlog, c)
        BY <1>1, <1>2, <2>1, <3>1 DEF SBacklog, serverVars
      <4>2. owner[newfd] \in Client
        BY <1>0, <3>1 DEF InDoor, TypeInv, InHand
      <4>3. ASSUME NEW x \in Client, NEW s \in Seq(Client)
            PROVE  /\ Len(<<x>> \o s) = Len(s) + 1
                   /\ <<x>> \o Append(s, c) = Append(<<x>> \o s, c)
        OBVIOUS
      <4>4. Len(SBacklog) = Len(backlog) + 1
            /\ SBacklog' = Append(SBacklog, c)
        BY <1>0, <4>1, <4>2, <4>3, Zenon
      <4> QED BY <1>0, <2>1, <4>4, SocketsAssumption
    <3>2. CASE ~InDoor
      <4>1. SBacklog = backlog /\ SBacklog' = backlog'
        BY <1>2, <3>2 DEF SBacklog
      <4> QED BY <1>0, <2>1, <4>1, SocketsAssumption
    <3> QED BY <3>1, <3>2
  <2> QED BY <1>2, <2>1, <2>2, SameTalk, MakesConnect
<1>5. CASE ConnectRefused(c)
  BY <1>2, <1>3, <1>5, SameTalk, MakesConnect DEF ConnectRefused
<1>6. CASE SendLine(c)
  <2>1. /\ c \in dialed \ hungup
        /\ UNCHANGED <<server, backlog, dialed, hungup, closed, stream, seen>>
    BY <1>6 DEF SendLine
  <2>2. PICK line \in Line :
           up' = IF c \in closed \/ server = "down"
                 THEN up ELSE [up EXCEPT ![c] = @ \o line]
    BY <1>6 DEF SendLine
  <2>3. CASE UNCHANGED up
    BY <1>2, <1>3, <2>1, <2>3, SameTalk, MakesNothing
  <2>4. CASE up' = [up EXCEPT ![c] = @ \o line]
    BY <1>2, <1>3, <2>1, <2>4, SameTalk, MakesSpeak
  <2> QED BY <2>2, <2>3, <2>4
<1>7. CASE Receive(c)
  <2>1. /\ c \in dialed \ hungup /\ seen' = [seen EXCEPT ![c] = Len(stream[c])]
        /\ UNCHANGED <<server, backlog, dialed, hungup, closed, up, stream>>
    BY <1>7 DEF Receive
  <2>2. SSeen' = [SSeen EXCEPT ![c] = Len(SStream[c])]
    <3>1. SStream[c] = Chats(c)
      BY DEF SStream
    <3>2. ChatsSeen(c)' = Len(Chats(c))
      <4>1. seen'[c] = Len(stream[c]) /\ stream'[c] = stream[c]
        BY <1>0, <2>1
      <4>2. \A s \in Seq(Item) : SubSeq(s, 1, Len(s)) = s
        OBVIOUS
      <4>3. SubSeq(stream'[c], 1, seen'[c]) = stream[c]
        BY <1>0, <4>1, <4>2
      <4> QED BY <4>3 DEF ChatsSeen, Chats, ChatsOf
    <3>3. \A d \in Client \ {c} : ChatsSeen(d)' = ChatsSeen(d)
      BY <1>0, <2>1 DEF ChatsSeen
    <3>4. SSeen' = [d \in Client |-> ChatsSeen(d)'] /\ SSeen = [d \in Client |-> ChatsSeen(d)]
      BY DEF SSeen
    <3> QED BY <3>1, <3>2, <3>3, <3>4
  <2> QED BY <1>2, <1>3, <2>1, <2>2, SameTalk, MakesRead
<1>8. CASE Quit(c)
  BY <1>2, <1>3, <1>8, SameTalk, MakesLeave DEF Quit
<1> QED BY <1>4, <1>5, <1>6, <1>7, <1>8 DEF ClientStep, ClientNext

(* Every step is one of selectserver.c, or none.                           *)
LEMMA EveryStep ==
    SelectInv /\ TypeInv' /\ StaysUp /\ [Next]_vars => SelectsStep
<1> SUFFICES ASSUME SelectInv, TypeInv', StaysUp, [Next]_vars PROVE SelectsStep
  OBVIOUS
<1>1. CASE WebStep \/ UNCHANGED vars
  BY <1>1, IdleStep DEF WebStep, vars
<1>2. CASE ServerStep
  BY <1>2, FetchStep, ExitStep, BindStep, SelectStep, EndPassStep, AcceptStep,
     WelcomeStep, BroadcastStepStep, BroadcastDoneStep, RecvStep, PostStep,
     RecvEndStep DEF ServerStep, ServerNext
<1>3. ASSUME NEW c \in Client, ClientStep(c) PROVE SelectsStep
  BY <1>3, ClientSelectsStep
<1> QED BY <1>1, <1>2, <1>3 DEF Next

-----------------------------------------------------------------------------
(* The invariant holds at first.                                           *)
LEMMA SelectInvInit == Init => SelectInv
BY SockInit DEF Init, SocketsInit, ServerInit, SelectInv, SeenSent, Called, Fetching

(* Streams only grow, and a client receives what it was sent.              *)
LEMMA SeenSentStep == TypeInv /\ SeenSent /\ [Next]_vars => SeenSent'
<1> SUFFICES ASSUME TypeInv, SeenSent, [Next]_vars PROVE SeenSent'
  OBVIOUS
<1>0. stream \in [Client -> Seq(Item)] /\ seen \in [Client -> Nat]
  BY DEF TypeInv, TypeOK, SocketsTypeOK
<1>1. CASE UNCHANGED <<stream, seen>>
  BY <1>1 DEF SeenSent
<1>2. ASSUME NEW c \in Client, NEW x,
             stream' = [stream EXCEPT ![c] = Sent(c, x)], UNCHANGED seen
      PROVE  SeenSent'
  <2>1. \A s \in Seq(Item) : Len(s) \in Nat /\ Len(Append(s, x)) = Len(s) + 1
    OBVIOUS
  <2>2. \A d \in Client : Len(stream'[d]) >= Len(stream[d])
    BY <1>0, <1>2, <2>1 DEF Sent
  <2>3. \A d \in Client : /\ Len(stream'[d]) \in Nat /\ Len(stream[d]) \in Nat
                          /\ seen[d] \in Nat
    BY <1>0, <1>2, <2>1 DEF Sent
  <2> QED BY <1>2, <2>2, <2>3 DEF SeenSent
<1>3. CASE Welcome \/ BroadcastStep
  <2>1. UNCHANGED seen
    BY <1>3 DEF Welcome, BroadcastStep
  <2>2. \/ UNCHANGED stream
        \/ \E c \in Client, x \in Item \cup {Nothing} :
              stream' = [stream EXCEPT ![c] = Sent(c, x)]
    <3>1. CASE BroadcastStep
      BY <3>1 DEF BroadcastStep, TypeInv, TypeOK, ServerTypeOK
    <3>2. CASE Welcome
      <4>1. UNCHANGED stream \/
            /\ newfd # -1 /\ pc = "welcome" /\ latest16Messages # NoHistory
            /\ stream' = [stream EXCEPT ![owner[newfd]] =
                  Sent(owner[newfd], History(owner[newfd], latest16Messages))]
        BY <3>2 DEF Welcome
      <4>2. newfd # -1 /\ pc = "welcome" => owner[newfd] \in Client
        BY DEF TypeInv, InHand
      <4>3. newfd # -1 /\ pc = "welcome" /\ latest16Messages # NoHistory
              => History(owner[newfd], latest16Messages) \in Item
        BY <4>2, ItemTypes DEF TypeInv, TypeOK, ServerTypeOK
      <4> QED BY <4>1, <4>2, <4>3
    <3> QED BY <1>3, <3>1, <3>2
  <2> QED BY <1>1, <1>2, <2>1, <2>2
<1>4. ASSUME NEW c \in Client, ClientStep(c) PROVE SeenSent'
  <2>1. CASE Receive(c)
    <3>1. UNCHANGED stream /\ seen' = [seen EXCEPT ![c] = Len(stream[c])]
      BY <2>1 DEF Receive
    <3> QED BY <1>0, <3>1 DEF SeenSent
  <2>2. CASE Connect(c) \/ ConnectRefused(c) \/ SendLine(c) \/ Quit(c)
    BY <1>1, <2>2 DEF Connect, ConnectRefused, SendLine, Quit
  <2> QED BY <1>4, <2>1, <2>2 DEF ClientStep, ClientNext
<1>5. CASE ServerStep /\ ~ Welcome /\ ~ BroadcastStep
  BY <1>1, <1>5 DEF ServerStep, ServerNext, Exit, BootFetch, Bind, Select, EndPass,
     Accept, FetchHistory, BroadcastDone, Recv, RecvEnd, Post, AskHistory,
     ReadHistory, ReadRest, sockVars
<1>6. CASE WebStep \/ UNCHANGED vars
  BY <1>1, <1>6 DEF WebStep, vars, sockVars
<1> QED BY <1>3, <1>4, <1>5, <1>6 DEF Next

(* Between accept and FD_SET nothing is selected.                          *)
LEMMA CalledStep == Called /\ [Next]_vars => Called'
<1> SUFFICES ASSUME Called, [Next]_vars PROVE Called'
  OBVIOUS
<1>1. CASE read_fds' = read_fds /\ (pc' \in Fetching => pc \in Fetching)
  BY <1>1 DEF Called
<1>2. CASE Accept
  BY <1>2 DEF Accept, Turn, Called
<1>3. CASE ServerStep /\ ~ Accept
  <2>1. CASE BootFetch \/ FetchHistory
    BY <1>1, <2>1 DEF BootFetch, FetchHistory, AskHistory, ReadHistory, ReadRest,
       Fetching
  <2>2. CASE Select \/ Bind \/ Exit
    BY <2>2 DEF Select, Bind, Exit, Called, Fetching
  <2>3. CASE EndPass \/ Welcome \/ BroadcastStep \/ BroadcastDone \/ Recv
             \/ RecvEnd \/ Post
    BY <2>3 DEF EndPass, Welcome, BroadcastStep, BroadcastDone, Recv, RecvEnd,
       Post, Turn, Called, Fetching
  <2> QED BY <1>3, <2>1, <2>2, <2>3 DEF ServerStep, ServerNext
<1>4. ASSUME NEW c \in Client, ClientStep(c) PROVE Called'
  BY <1>1, <1>4 DEF ClientStep, serverVars
<1>5. CASE WebStep \/ UNCHANGED vars
  BY <1>1, <1>5 DEF WebStep, vars, serverVars
<1> QED BY <1>2, <1>3, <1>4, <1>5 DEF Next

(* Every step keeps it.                                                    *)
LEMMA SelectInvStep == SetsSuffice /\ SelectInv /\ [Next]_vars => SelectInv'
<1> SUFFICES ASSUME SetsSuffice, SelectInv, [Next]_vars PROVE SelectInv'
  OBVIOUS
<1>1. SockInv'
  BY SockStep DEF SelectInv
<1> QED BY <1>1, SeenSentStep, CalledStep DEF SelectInv, SockInv

(* TCPserver.c is still the select server that it was written from: what   *)
(* was added to selectserver.c has not changed which socket is served when *)
(* and to whom a message goes.  It holds as long as no failed lookup ends  *)
(* the server while it handles a newcomer or a message (TCPserver.c:327).  *)
THEOREM SelectServerKept ==
    ASSUME SetsSuffice
    PROVE  Spec /\ [][StaysUp]_vars => StillSelectServer
<1>1. Init => SelectInv /\ Selects!Init
  BY SelectInvInit, SelectsInitially
<1>2. SelectInv /\ [Next]_vars => SelectInv'
  BY SelectInvStep
<1>3. SelectInv /\ SelectInv' /\ [Next]_vars /\ [StaysUp]_vars
        => [Selects!Next]_(Selects!vars)
  <2> SUFFICES ASSUME SelectInv, SelectInv', [Next]_vars, [StaysUp]_vars
               PROVE  SelectsStep
    BY DEF SelectsStep
  <2>1. CASE UNCHANGED vars
    BY <2>1, IdleStep DEF vars
  <2>2. CASE StaysUp
    BY <2>2, EveryStep DEF SelectInv, SockInv
  <2> QED BY <2>1, <2>2
<1> QED BY <1>1, <1>2, <1>3, PTL DEF Spec, StillSelectServer, Selects!Spec
=============================================================================
