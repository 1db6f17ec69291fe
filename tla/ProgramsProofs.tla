---------------------------- MODULE ProgramsProofs ----------------------------
(***************************************************************************)
(* What holds of the short programs, whatever is played, on any number of  *)
(* addresses and processes: the types, and that no socket is left open.    *)
(***************************************************************************)
EXTENDS Programs, KeepingProofs

Scripts ==
    {TCPServer, TCPClient, UDPServer, UDPClient, MenuClient, HttpClient,
     ChatPost, Absent}

(* The calls before a socket is open, those of an attempt at an address,   *)
(* and those made with what initialization() returned.                     *)
Entry == {"absent", "menu", "getaddrinfo", "socket"}
Attempt == {"bind", "listen", "connect"}
Exchange == {"accept", "recv", "send", "close", "recvfrom", "sendto", "filter"}

(* What follows a call in a script.                                        *)
Follows(s) ==
    \A n \in 1..Len(s) :
        /\ s[n] \in Entry \cup Attempt \cup Exchange
        /\ s[n] \notin {"absent", "close"} => n + 1 \in 1..Len(s)
        /\ s[n] = "menu" => s[n + 1] = "getaddrinfo"
        /\ s[n] = "getaddrinfo" => s[n + 1] = "socket"
        /\ s[n] = "socket" => s[n + 1] \in {"bind", "connect", "sendto"}
        /\ s[n] = "bind" => s[n + 1] \in {"listen", "recvfrom"}
        /\ s[n] = "listen" => s[n + 1] = "accept"
        /\ s[n] = "connect" => s[n + 1] \in {"send", "filter"}
        /\ s[n] = "accept" => s[n + 1] = "recv"
        /\ s[n] \in Exchange \ {"close"} => s[n + 1] \in Exchange \ {"accept"}

(* Every script of the repository is such a sequence.                      *)
LEMMA ScriptsFollow == \A s \in Scripts : Follows(s)
<1> SUFFICES ASSUME NEW s \in Scripts PROVE Follows(s)
  OBVIOUS
<1> USE DEF Follows, Entry, Attempt, Exchange
<1>1. CASE s = TCPServer
  BY <1>1 DEF TCPServer
<1>2. CASE s = TCPClient
  BY <1>2 DEF TCPClient
<1>3. CASE s = UDPServer
  BY <1>3 DEF UDPServer
<1>4. CASE s = UDPClient
  BY <1>4 DEF UDPClient
<1>5. CASE s = MenuClient
  BY <1>5 DEF MenuClient
<1>6. CASE s = HttpClient
  BY <1>6 DEF HttpClient
<1>7. CASE s = ChatPost
  BY <1>7 DEF ChatPost
<1>8. CASE s = Absent
  BY <1>8 DEF Absent
<1> QED BY <1>1, <1>2, <1>3, <1>4, <1>5, <1>6, <1>7, <1>8 DEF Scripts

(* Scripts start with an entry call; one that tries addresses has a call of*)
(* socket() to return to, and a last call of initialization().             *)
Retries(s) ==
    /\ 1 \in 1..Len(s) /\ s[1] \in Entry
    /\ (\E n \in 1..Len(s) : s[n] \in Attempt) =>
         /\ \E n \in 1..Len(s) : s[n] = "socket"
         /\ \E n \in 1..Len(s) :
                /\ s[n] \in {"socket", "listen", "connect", "bind"}
                /\ s[n + 1] \notin {"listen", "connect", "bind"}

(* Wherever an attempt fails, there is a place to go on.                   *)
LEMMA ScriptsRetry == \A s \in Scripts : Retries(s)
<1> SUFFICES ASSUME NEW s \in Scripts PROVE Retries(s)
  OBVIOUS
<1> USE DEF Retries, Entry, Attempt
<1>1. CASE s = TCPServer
  <2>1. Len(s) = 8 /\ s[1] = "getaddrinfo" /\ s[2] = "socket"
        /\ s[4] = "listen" /\ s[5] = "accept"
    BY <1>1 DEF TCPServer
  <2> QED BY <2>1
<1>2. CASE s = TCPClient
  <2>1. Len(s) = 6 /\ s[1] = "getaddrinfo" /\ s[2] = "socket"
        /\ s[3] = "connect" /\ s[4] = "send"
    BY <1>2 DEF TCPClient
  <2> QED BY <2>1
<1>3. CASE s = UDPServer
  <2>1. Len(s) = 6 /\ s[1] = "getaddrinfo" /\ s[2] = "socket"
        /\ s[3] = "bind" /\ s[4] = "recvfrom"
    BY <1>3 DEF UDPServer
  <2> QED BY <2>1
<1>4. CASE s = UDPClient
  BY <1>4 DEF UDPClient
<1>5. CASE s = MenuClient
  BY <1>5 DEF MenuClient
<1>6. CASE s = HttpClient
  <2>1. Len(s) = 7 /\ s[1] = "getaddrinfo" /\ s[2] = "socket"
        /\ s[3] = "connect" /\ s[4] = "send"
    BY <1>6 DEF HttpClient
  <2> QED BY <2>1
<1>7. CASE s = ChatPost
  <2>1. Len(s) = 6 /\ s[1] = "getaddrinfo" /\ s[2] = "socket"
        /\ s[3] = "connect" /\ s[4] = "filter"
    BY <1>7 DEF ChatPost
  <2> QED BY <2>1
<1>8. CASE s = Absent
  BY <1>8 DEF Absent
<1> QED BY <1>1, <1>2, <1>3, <1>4, <1>5, <1>6, <1>7, <1>8 DEF Scripts

(* Only servers bind, and only baseCode/TCPServer.c accepts.               *)
Serves(s) ==
    \A n \in 1..Len(s) :
        /\ s[n] \in {"bind", "listen"} => s \in {TCPServer, UDPServer}
        /\ s[n] = "accept" => s = TCPServer

(* No client's script binds, listens or accepts.                           *)
LEMMA ScriptsServe == \A s \in Scripts : Serves(s)
<1> SUFFICES ASSUME NEW s \in Scripts, s \notin {TCPServer, UDPServer}
             PROVE  \A n \in 1..Len(s) : s[n] \notin {"bind", "listen", "accept"}
  <2>1. \A n \in 1..Len(UDPServer) : UDPServer[n] # "accept"
    BY DEF UDPServer
  <2> QED BY <2>1 DEF Serves
<1>1. CASE s = TCPClient
  BY <1>1 DEF TCPClient
<1>2. CASE s = UDPClient
  BY <1>2 DEF UDPClient
<1>3. CASE s = MenuClient
  BY <1>3 DEF MenuClient
<1>4. CASE s = HttpClient
  BY <1>4 DEF HttpClient
<1>5. CASE s = ChatPost
  BY <1>5 DEF ChatPost
<1>6. CASE s = Absent
  BY <1>6 DEF Absent
<1> QED BY <1>1, <1>2, <1>3, <1>4, <1>5, <1>6 DEF Scripts

(* A client that is killed is no server.                                   *)
LEMMA ClientIsNoServer ==
    /\ TCPClient # TCPServer /\ TCPClient # UDPServer
    /\ MenuClient # TCPServer /\ MenuClient # UDPServer
<1>1. TCPClient[1] = "getaddrinfo" /\ TCPClient[3] = "connect"
  BY DEF TCPClient
<1>2. MenuClient[1] = "menu"
  BY DEF MenuClient
<1>3. TCPServer[1] = "getaddrinfo" /\ TCPServer[3] = "bind"
  BY DEF TCPServer
<1>4. UDPServer[1] = "getaddrinfo" /\ UDPServer[3] = "bind"
  BY DEF UDPServer
<1> QED BY <1>1, <1>2, <1>3, <1>4

-----------------------------------------------------------------------------
(* The call p makes next.                                                  *)
Call(p) == program[p][at[p]]

(* Between entry calls no socket is open, during an attempt it is the one  *)
(* whose number the program has, afterwards there may be a second, of the  *)
(* connection that baseCode/TCPServer.c accepted.                          *)
Stage(p) ==
    /\ Call(p) \in Entry => open[p] = {}
    /\ Call(p) \in Attempt /\ status[p] = "running" =>
          open[p] = {internet_socket[p]}
    /\ open[p] \subseteq {internet_socket[p], client_socket[p]}
    /\ client_socket[p] # -1 =>
          program[p] = TCPServer /\ Call(p) \in Exchange \ {"accept"}
    /\ status[p] = "returned" => open[p] = {}

(* A port is held by a server that is past its bind(), with that socket.   *)
Held(a) ==
    holder[a] # Nobody =>
      LET s == holder[a] IN
      /\ Server(s)
      /\ status[s] = "running"
      /\ Call(s) \in {"listen"} \cup Exchange
      /\ internet_socket[s] \in open[s]
      /\ addr[s] = a

(* The inductive invariant.                                                *)
IInv ==
    /\ \A p \in Proc : program[p] \in Scripts
    /\ TypeOK
    /\ \A p \in Proc : Stage(p)
    /\ \A a \in 1..Addresses : Held(a)

(* All parts of a play are scripts.                                        *)
LEMMA CastScripts == ASSUME NEW play \in Cast, NEW p \in Proc
                     PROVE  play[p] \in Scripts
BY ProgramsAssumption DEF Scripts, ProgramsAssumption

(* The number that the smallest free one is.                               *)
LEMMA FreeNumber ==
    ASSUME NEW p \in Proc, Number \ open[p] # {}
    PROVE  Free(p) \in Number \ open[p]
<1>1. Number \ open[p] \subseteq Nat
  BY ProgramsAssumption DEF ProgramsAssumption
<1>2. \E f \in Number \ open[p] : \A g \in Number \ open[p] : f <= g
  BY <1>1, LeastNatural
<1> QED BY <1>2 DEF Free

(* At any call there is a script with the three properties above.          *)
LEMMA Script ==
    ASSUME IInv, NEW p \in Proc
    PROVE  /\ program[p] \in Scripts
           /\ Follows(program[p]) /\ Retries(program[p]) /\ Serves(program[p])
           /\ at[p] \in 1..Len(program[p])
           /\ Call(p) \in Entry \cup Attempt \cup Exchange
<1>1. program[p] \in Scripts /\ at[p] \in 1..Len(program[p])
  BY DEF IInv, TypeOK
<1> QED BY <1>1, ScriptsFollow, ScriptsRetry, ScriptsServe DEF Follows, Call

(* Where a failed attempt goes: back to socket(), or on to the exchange.   *)
LEMMA AfterAttempt ==
    ASSUME IInv, NEW p \in Proc, Call(p) \in Attempt
    PROVE  /\ Position(p, "socket") \in 1..Len(program[p])
           /\ program[p][Position(p, "socket")] = "socket"
           /\ Body(p) \in 1..Len(program[p])
           /\ program[p][Body(p)] \in Exchange
<1> DEFINE s == program[p]
           Last(n) == /\ s[n] \in {"socket", "listen", "connect", "bind"}
                      /\ s[n + 1] \notin {"listen", "connect", "bind"}
           m == CHOOSE n \in 1..Len(s) : Last(n)
<1>1. /\ \E n \in 1..Len(s) : s[n] = "socket"
      /\ \E n \in 1..Len(s) : Last(n)
  BY Script DEF Retries, Call
<1>2. m \in 1..Len(s) /\ Last(m)
  BY <1>1
<1>3. m + 1 \in 1..Len(s) /\ s[m + 1] \in Exchange
  BY <1>2, Script DEF Follows, Exchange
<1>4. Body(p) = 1 + m
  BY Zenon DEF Body
<1>5. /\ Position(p, "socket") \in 1..Len(s)
      /\ s[Position(p, "socket")] = "socket"
  BY <1>1, Zenon DEF Position
<1> HIDE DEF m
<1>6. Body(p) = m + 1
  BY <1>2, <1>4
<1> QED BY <1>3, <1>5, <1>6

(* The filter starts on a message.                                         *)
LEMMA FilterBegins == Init => \E text \in Seq(Byte) : FilterInit(text)
<1> SUFFICES ASSUME Init PROVE \E text \in Seq(Byte) : FilterInit(text)
  OBVIOUS
<1>1. CASE \E p \in Proc : program[p] = ChatPost
  BY <1>1, ProgramsAssumption DEF Init, ProgramsAssumption
<1>2. CASE ~ \E p \in Proc : program[p] = ChatPost
  <2>1. FilterInit(<< >>) /\ << >> \in Seq(Byte)
    BY <1>2 DEF Init
  <2> QED BY <2>1
<1> QED BY <1>1, <1>2

(* Before the first call no socket is open and no port is held.            *)
LEMMA InitIInv == Init => IInv
<1> SUFFICES ASSUME Init PROVE IInv
  OBVIOUS
<1>1. \A p \in Proc : program[p] \in Scripts
  BY CastScripts DEF Init
<1>2. \A p \in Proc : Retries(program[p])
  BY <1>1, ScriptsRetry
<1>3. FilterTypeOK
  <2>1. ASSUME NEW text \in Seq(Byte), FilterInit(text) PROVE FilterTypeOK
    <3>1. Append(text, NUL) \in Seq(Byte \cup {NUL})
      OBVIOUS
    <3> QED BY <2>1, <3>1 DEF FilterInit, FilterTypeOK
  <2>2. \E text \in Seq(Byte) : FilterInit(text)
    BY FilterBegins
  <2> QED BY <2>1, <2>2
<1>4. TypeOK
  <2>1. \A p \in Proc : at[p] \in 1..Len(program[p])
    BY <1>2 DEF Init, Retries
  <2>2. /\ status \in [Proc -> {"running", "returned", "killed", "exit"}]
        /\ addr \in [Proc -> 1..Addresses]
        /\ internet_socket \in [Proc -> Number \cup {-1}]
        /\ client_socket \in [Proc -> Number \cup {-1}]
        /\ open \in [Proc -> SUBSET Number]
        /\ round \in [Proc -> Nat]
        /\ holder \in [1..Addresses -> Proc \cup {Nobody}]
    BY ProgramsAssumption DEF Init, ProgramsAssumption
  <2>3. /\ backlog \in [Proc -> Seq(Proc)]
        /\ up \in [Proc -> Nat] /\ down \in [Proc -> Nat]
        /\ cut \in [Proc -> {"no", "fin", "reset"}]
        /\ inbox \in [Proc -> SUBSET (Proc \X Nat)]
        /\ caller \in [Proc -> (Proc \cup {Nobody}) \X Nat]
        /\ replies \in [Proc -> Nat]
        /\ refused \subseteq Proc
        /\ lost \in BOOLEAN
    <3>1. << >> \in Seq(Proc) /\ {} \in SUBSET (Proc \X Nat)
          /\ <<Nobody, 0>> \in (Proc \cup {Nobody}) \X Nat
      OBVIOUS
    <3> QED BY <3>1 DEF Init
  <2>4. at \in [Proc -> Nat]
    BY DEF Init
  <2> QED BY <2>1, <2>2, <2>3, <2>4, <1>3 DEF TypeOK
<1>5. \A p \in Proc : Stage(p)
  BY <1>2 DEF Init, Retries, Stage, Call, Entry, Attempt
<1>6. \A a \in 1..Addresses : Held(a)
  BY DEF Init, Held
<1> QED BY <1>1, <1>4, <1>5, <1>6 DEF IInv

(* The parts of the type invariant.                                        *)
AtType == at \in [Proc -> Nat] /\ \A p \in Proc : at[p] \in 1..Len(program[p])

SetupType ==
    /\ status \in [Proc -> {"running", "returned", "killed", "exit"}]
    /\ addr \in [Proc -> 1..Addresses]
    /\ internet_socket \in [Proc -> Number \cup {-1}]
    /\ client_socket \in [Proc -> Number \cup {-1}]
    /\ open \in [Proc -> SUBSET Number]
    /\ round \in [Proc -> Nat]
    /\ holder \in [1..Addresses -> Proc \cup {Nobody}]

NetType ==
    /\ backlog \in [Proc -> Seq(Proc)]
    /\ up \in [Proc -> Nat] /\ down \in [Proc -> Nat]
    /\ cut \in [Proc -> {"no", "fin", "reset"}]
    /\ inbox \in [Proc -> SUBSET (Proc \X Nat)]
    /\ caller \in [Proc -> (Proc \cup {Nobody}) \X Nat]
    /\ replies \in [Proc -> Nat]
    /\ refused \subseteq Proc
    /\ lost \in BOOLEAN

(* The parts make up the whole, before and after a step.                   *)
LEMMA TypeParts ==
    /\ TypeOK <=> AtType /\ SetupType /\ NetType /\ FilterTypeOK
    /\ TypeOK' <=> (AtType /\ SetupType /\ NetType /\ FilterTypeOK)'
BY DEF TypeOK, AtType, SetupType, NetType

(* The invariant includes the types.                                       *)
LEMMA Types == ASSUME IInv PROVE AtType /\ SetupType /\ NetType /\ FilterTypeOK
BY TypeParts DEF IInv

(* A step that leaves the network alone keeps its types,                   *)
LEMMA NetKept ==
    ASSUME IInv, UNCHANGED <<caller, tcpVars, udpVars>> PROVE NetType'
BY Types DEF tcpVars, udpVars, NetType

(* and one that leaves the filter alone those of the filter.               *)
LEMMA FilterKept == ASSUME IInv, UNCHANGED filterVars PROVE FilterTypeOK'
BY Types DEF filterVars, FilterTypeOK

(* A process that is not at such a call holds no port.                     *)
LEMMA HoldsNothing ==
    ASSUME IInv, NEW p \in Proc, Call(p) \notin {"listen"} \cup Exchange
    PROVE  \A a \in 1..Addresses : holder[a] # p
BY ProgramsAssumption DEF IInv, Held, ProgramsAssumption

-----------------------------------------------------------------------------
(* Another process is not touched.                                         *)
Same(q) ==
    /\ at'[q] = at[q] /\ status'[q] = status[q] /\ addr'[q] = addr[q]
    /\ open'[q] = open[q] /\ internet_socket'[q] = internet_socket[q]
    /\ client_socket'[q] = client_socket[q]

(* A step of one process keeps the invariant if it keeps the types, its own*)
(* stage, and takes or gives up only ports of its own.                     *)
LEMMA OneProcess ==
    ASSUME IInv, NEW p \in Proc, program' = program,
           AtType', SetupType', NetType', FilterTypeOK',
           \A q \in Proc \ {p} : Same(q),
           Stage(p)',
           \A a \in 1..Addresses :
               /\ holder'[a] \in {holder[a], Nobody, p}
               /\ holder'[a] = p => Held(a)'
    PROVE  IInv'
<1>1. ASSUME NEW q \in Proc PROVE Stage(q)'
  <2>1. CASE q = p
    BY <2>1
  <2>2. CASE q # p
    BY <2>2 DEF IInv, Stage, Same, Call
  <2> QED BY <2>1, <2>2
<1>2. ASSUME NEW a \in 1..Addresses PROVE Held(a)'
  <2>1. CASE holder'[a] \in {p, Nobody}
    BY <2>1 DEF Held
  <2>2. CASE holder'[a] = holder[a] /\ holder[a] \notin {p, Nobody}
    <3>1. holder[a] \in Proc
      BY <2>2 DEF IInv, TypeOK
    <3>2. Held(a)
      BY DEF IInv
    <3> QED BY <2>2, <3>1, <3>2 DEF Held, Same, Call, Server
  <2> QED BY <2>1, <2>2
<1> QED BY <1>1, <1>2, TypeParts DEF IInv

(* The next call of the script.                                            *)
LEMMA NextCall ==
    ASSUME IInv, NEW p \in Proc, program' = program, Go(p),
           Call(p) \notin {"absent", "close"}
    PROVE  /\ at' \in [Proc -> Nat]
           /\ \A q \in Proc : at'[q] \in 1..Len(program'[q])
           /\ \A q \in Proc \ {p} : at'[q] = at[q]
           /\ Call(p) = "menu" => Call(p)' = "getaddrinfo"
           /\ Call(p) = "getaddrinfo" => Call(p)' = "socket"
           /\ Call(p) = "socket" => Call(p)' \in {"bind", "connect", "sendto"}
           /\ Call(p) = "bind" => Call(p)' \in {"listen", "recvfrom"}
           /\ Call(p) = "listen" => Call(p)' = "accept"
           /\ Call(p) = "connect" => Call(p)' \in {"send", "filter"}
           /\ Call(p) = "accept" => Call(p)' = "recv"
           /\ Call(p) \in Exchange => Call(p)' \in Exchange \ {"accept"}
<1>1. at \in [Proc -> Nat] /\ \A q \in Proc : at[q] \in 1..Len(program[q])
  BY DEF IInv, TypeOK
<1>2. at[p] + 1 \in 1..Len(program[p])
  BY Script DEF Follows, Call
<1>3. /\ at' \in [Proc -> Nat]
      /\ \A q \in Proc : at'[q] \in 1..Len(program'[q])
      /\ \A q \in Proc \ {p} : at'[q] = at[q]
  BY <1>1, <1>2 DEF Go
<1>4. Call(p)' = program[p][at[p] + 1]
  BY <1>1 DEF Call, Go
<1> QED BY <1>3, <1>4, Script DEF Follows, Call

-----------------------------------------------------------------------------
(* A lookup starts from the first address, with no socket, or ends it all. *)
LEMMA GetAddrInfoKeeps ==
    ASSUME IInv, NEW p \in Proc, GetAddrInfo(p) PROVE IInv'
<1>1. Call(p) = "getaddrinfo" /\ status[p] = "running"
  BY DEF GetAddrInfo, Calls, Call
<1>2. NetType' /\ FilterTypeOK'
  BY NetKept, FilterKept DEF GetAddrInfo
<1>3. AtType' /\ SetupType' /\ Stage(p)'
  <2>1. CASE /\ Go(p)
             /\ addr' = [addr EXCEPT ![p] = 1]
             /\ internet_socket' = [internet_socket EXCEPT ![p] = -1]
             /\ UNCHANGED status
    <3>1. AtType'
      BY <1>1, <2>1, NextCall DEF GetAddrInfo, AtType
    <3>2. SetupType'
      BY <2>1, Types, ProgramsAssumption
      DEF GetAddrInfo, SetupType, ProgramsAssumption
    <3>3. Stage(p)'
      BY <1>1, <2>1, NextCall, Types
      DEF GetAddrInfo, SetupType, IInv, Stage, Entry, Attempt, Exchange
    <3> QED BY <3>1, <3>2, <3>3
  <2>2. CASE /\ status' = [status EXCEPT ![p] = "exit"]
             /\ UNCHANGED <<at, addr, internet_socket>>
    BY <1>1, <2>2, Types
    DEF GetAddrInfo, AtType, SetupType, IInv, Stage, Call, Entry, Attempt
  <2> QED BY <2>1, <2>2 DEF GetAddrInfo
<1>4. \A q \in Proc \ {p} : Same(q)
  BY Types DEF GetAddrInfo, SetupType, Same, Go, AtType
<1>5. \A a \in 1..Addresses : holder'[a] = holder[a] /\ holder'[a] # p
  BY <1>1, HoldsNothing DEF GetAddrInfo, Exchange
<1>6. program' = program
  BY DEF GetAddrInfo
<1> QED BY <1>2, <1>3, <1>4, <1>5, <1>6, OneProcess

(* A new socket is the only one; a failure leaves none.                    *)
LEMMA SocketKeeps == ASSUME IInv, NEW p \in Proc, Socket(p) PROVE IInv'
<1>1. Call(p) = "socket" /\ status[p] = "running"
  BY DEF Socket, Calls, Call
<1>2. NetType' /\ FilterTypeOK'
  BY NetKept, FilterKept DEF Socket
<1>3. AtType' /\ SetupType' /\ Stage(p)'
  <2>1. CASE /\ Number \ open[p] # {}
             /\ internet_socket' = [internet_socket EXCEPT ![p] = Free(p)]
             /\ open' = [open EXCEPT ![p] = @ \cup {Free(p)}]
             /\ Go(p)
             /\ UNCHANGED <<addr, status>>
    <3>1. Free(p) \in Number
      BY <2>1, FreeNumber
    <3>2. AtType'
      BY <1>1, <2>1, NextCall DEF Socket, AtType
    <3>3. SetupType'
      BY <2>1, <3>1, Types DEF Socket, SetupType
    <3>4. Stage(p)'
      BY <1>1, <2>1, NextCall, Types
      DEF Socket, SetupType, IInv, Stage, Entry, Attempt, Exchange
    <3> QED BY <3>2, <3>3, <3>4
  <2>2. CASE /\ internet_socket' = [internet_socket EXCEPT ![p] = -1]
             /\ IF addr[p] < Addresses
                THEN addr' = [addr EXCEPT ![p] = @ + 1] /\ UNCHANGED status
                ELSE status' = [status EXCEPT ![p] = "exit"] /\ UNCHANGED addr
             /\ UNCHANGED <<at, open>>
    <3>1. AtType'
      BY <2>2, Types DEF Socket, AtType
    <3>2. SetupType'
      <4>1. addr' \in [Proc -> 1..Addresses]
        BY <2>2, Types, ProgramsAssumption DEF SetupType, ProgramsAssumption
      <4>2. status' \in [Proc -> {"running", "returned", "killed", "exit"}]
        BY <2>2, Types DEF SetupType
      <4> QED BY <2>2, <4>1, <4>2, Types DEF Socket, SetupType
    <3>3. Stage(p)'
      BY <1>1, <2>2, Types
      DEF Socket, SetupType, IInv, Stage, Call, Entry, Attempt, Exchange
    <3> QED BY <3>1, <3>2, <3>3
  <2> QED BY <2>1, <2>2 DEF Socket
<1>4. \A q \in Proc \ {p} : Same(q)
  BY Types DEF Socket, SetupType, Same, Go, AtType
<1>5. \A a \in 1..Addresses : holder'[a] = holder[a] /\ holder'[a] # p
  BY <1>1, HoldsNothing DEF Socket, Exchange
<1>6. program' = program
  BY DEF Socket
<1> QED BY <1>2, <1>3, <1>4, <1>5, <1>6, OneProcess

(* An attempt that fails: the socket is closed, and the port given up.     *)
LEMMA NextAddressKeeps ==
    ASSUME IInv, NEW p \in Proc, Call(p) \in Attempt, status[p] = "running",
           NextAddress(p), NetType', FilterTypeOK',
           UNCHANGED <<program, status, internet_socket, client_socket, round>>
    PROVE  IInv'
<1>1. AtType'
  BY AfterAttempt, Types DEF NextAddress, AtType
<1>2. SetupType'
  BY Types, ProgramsAssumption
  DEF NextAddress, Released, SetupType, ProgramsAssumption
<1>3. Call(p)' \in {"socket"} \cup Exchange
  BY AfterAttempt, Types DEF NextAddress, AtType, Call
<1>4. open'[p] = {} /\ client_socket[p] = -1
  BY Types DEF NextAddress, SetupType, IInv, Stage, Attempt, Exchange
<1>5. Stage(p)'
  BY <1>3, <1>4 DEF Stage, Attempt, Exchange
<1>6. \A q \in Proc \ {p} : Same(q)
  BY Types DEF NextAddress, SetupType, Same, AtType
<1>7. \A a \in 1..Addresses : holder'[a] \in {holder[a], Nobody} /\ holder'[a] # p
  BY ProgramsAssumption DEF NextAddress, Released, ProgramsAssumption
<1> QED BY <1>1, <1>2, <1>5, <1>6, <1>7, OneProcess

(* The port that bind() takes is that of the one open socket.              *)
LEMMA BindKeeps == ASSUME IInv, NEW p \in Proc, Bind(p) PROVE IInv'
<1>1. Call(p) = "bind" /\ status[p] = "running"
  BY DEF Bind, Calls, Call
<1>2. NetType' /\ FilterTypeOK'
  BY NetKept, FilterKept DEF Bind
<1>3. CASE /\ holder[addr[p]] = Nobody
           /\ holder' = [holder EXCEPT ![addr[p]] = p]
           /\ Go(p)
           /\ UNCHANGED <<addr, open>>
  <2>1. AtType'
    BY <1>1, <1>3, NextCall DEF Bind, AtType
  <2>2. SetupType'
    BY <1>3, Types DEF Bind, SetupType
  <2>3. open[p] = {internet_socket[p]} /\ client_socket[p] = -1
    BY <1>1 DEF IInv, Stage, Attempt, Exchange
  <2>4. Call(p)' \in {"listen", "recvfrom"}
    BY <1>1, <1>3, NextCall DEF Bind
  <2>5. Stage(p)'
    BY <1>1, <1>3, <2>3, <2>4 DEF Bind, Stage, Entry, Attempt, Exchange
  <2>6. \A q \in Proc \ {p} : Same(q)
    BY <1>3, Types DEF Bind, SetupType, Same, Go, AtType
  <2>7. Server(p)
    BY <1>1, Script DEF Server, Serves, Call
  <2>8. ASSUME NEW a \in 1..Addresses
        PROVE  /\ holder'[a] \in {holder[a], p}
               /\ holder'[a] = p => Held(a)'
    <3>1. holder[a] # p
      BY <1>1, HoldsNothing DEF Exchange
    <3>2. holder'[a] = IF a = addr[p] THEN p ELSE holder[a]
      BY <1>3, Types DEF SetupType
    <3> QED BY <1>1, <1>3, <2>3, <2>4, <2>7, <3>1, <3>2
            DEF Bind, Held, Server, Exchange
  <2> QED BY <1>2, <2>1, <2>2, <2>5, <2>6, <2>8, OneProcess DEF Bind
<1>4. CASE NextAddress(p)
  BY <1>1, <1>2, <1>4, NextAddressKeeps DEF Bind, Attempt
<1> QED BY <1>3, <1>4 DEF Bind

(* listen() changes nothing but the position, or the attempt has failed.   *)
LEMMA ListenKeeps == ASSUME IInv, NEW p \in Proc, Listen(p) PROVE IInv'
<1>1. Call(p) = "listen" /\ status[p] = "running"
  BY DEF Listen, Calls, Call
<1>2. NetType' /\ FilterTypeOK'
  BY NetKept, FilterKept DEF Listen
<1>3. CASE Go(p) /\ UNCHANGED <<addr, open, holder>>
  <2>1. AtType'
    BY <1>1, <1>3, NextCall DEF Listen, AtType
  <2>2. SetupType'
    BY <1>3, Types DEF Listen, SetupType
  <2>3. Call(p)' = "accept" /\ open[p] = {internet_socket[p]} /\ client_socket[p] = -1
    BY <1>1, <1>3, NextCall DEF Listen, IInv, Stage, Attempt, Exchange
  <2>4. Stage(p)'
    BY <1>1, <1>3, <2>3 DEF Listen, Stage, Entry, Attempt, Exchange
  <2>5. \A q \in Proc \ {p} : Same(q)
    BY <1>3, Types DEF Listen, Same, Go, AtType
  <2>6. ASSUME NEW a \in 1..Addresses, holder[a] = p PROVE Held(a)'
    BY <1>3, <2>3, <2>6, ProgramsAssumption
    DEF Listen, IInv, Held, Server, Exchange, ProgramsAssumption
  <2> QED BY <1>2, <1>3, <2>1, <2>2, <2>4, <2>5, <2>6, OneProcess DEF Listen
<1>4. CASE NextAddress(p)
  BY <1>1, <1>2, <1>4, NextAddressKeeps DEF Listen, Attempt
<1> QED BY <1>3, <1>4 DEF Listen

(* A client's socket is open and is the one it has the number of.         *)
LEMMA ConnectKeeps == ASSUME IInv, NEW p \in Proc, Connect(p) PROVE IInv'
<1>1. Call(p) = "connect" /\ status[p] = "running"
  BY DEF Connect, Calls, Call
<1>2. NetType' /\ FilterTypeOK'
  <2>1. backlog' \in [Proc -> Seq(Proc)]
    <3>1. \A s \in Proc : Append(backlog[s], p) \in Seq(Proc)
      BY Types DEF NetType
    <3> QED BY <3>1, Types DEF Connect, NetType
  <2> QED BY <2>1, Types, FilterKept DEF Connect, NetType, udpVars
<1>3. CASE Go(p) /\ UNCHANGED <<addr, open, holder>>
  <2>1. AtType'
    BY <1>1, <1>3, NextCall DEF Connect, AtType
  <2>2. SetupType'
    BY <1>3, Types DEF Connect, SetupType
  <2>3. Call(p)' \in {"send", "filter"} /\ client_socket[p] = -1
    BY <1>1, <1>3, NextCall DEF Connect, IInv, Stage, Exchange
  <2>4. Stage(p)'
    BY <1>1, <1>3, <2>3 DEF Connect, IInv, Stage, Entry, Attempt, Exchange
  <2>5. \A q \in Proc \ {p} : Same(q)
    BY <1>3, Types DEF Connect, Same, Go, AtType
  <2>6. \A a \in 1..Addresses : holder'[a] = holder[a] /\ holder'[a] # p
    BY <1>1, <1>3, HoldsNothing DEF Exchange
  <2> QED BY <1>2, <2>1, <2>2, <2>4, <2>5, <2>6, OneProcess DEF Connect
<1>4. CASE NextAddress(p)
  BY <1>1, <1>2, <1>4, NextAddressKeeps DEF Connect, Attempt
<1> QED BY <1>3, <1>4 DEF Connect

-----------------------------------------------------------------------------
(* A call of the exchange that is not the first or the last one, and leaves*)
(* the sockets alone.                                                      *)
LEMMA ExchangeKeeps ==
    ASSUME IInv, NEW p \in Proc,
           Call(p) \in Exchange \ {"accept", "close"}, Go(p),
           UNCHANGED <<program, status, setupVars, client_socket, round, holder>>,
           NetType', FilterTypeOK'
    PROVE  IInv'
<1> USE DEF setupVars
<1>1. AtType'
  BY NextCall DEF AtType, Exchange
<1>2. SetupType'
  BY Types DEF SetupType
<1>3. Call(p)' \in Exchange \ {"accept"}
  BY NextCall DEF Exchange
<1>4. Stage(p)'
  BY <1>3 DEF IInv, Stage, Entry, Attempt, Exchange
<1>5. \A q \in Proc \ {p} : Same(q)
  BY Types DEF Same, Go, AtType
<1>6. ASSUME NEW a \in 1..Addresses, holder[a] = p PROVE Held(a)'
  BY <1>3, <1>6, ProgramsAssumption DEF IInv, Held, Server, ProgramsAssumption
<1> QED BY <1>1, <1>2, <1>4, <1>5, <1>6, OneProcess

(* A step of the filter, of the web server, or none.                       *)
LEMMA NoCallKeeps ==
    ASSUME IInv, NetType', FilterTypeOK',
           UNCHANGED <<program, at, status, setupVars, client_socket, round, holder>>
    PROVE  IInv'
<1> USE DEF setupVars
<1>1. AtType' /\ SetupType'
  BY Types DEF AtType, SetupType
<1>2. \A p \in Proc : Stage(p)'
  BY DEF IInv, Stage, Call
<1>3. \A a \in 1..Addresses : Held(a)'
  BY DEF IInv, Held, Server, Call
<1> QED BY <1>1, <1>2, <1>3, TypeParts DEF IInv

(* Data under way on a connection change.                                  *)
LEMMA Replaced ==
    ASSUME NEW S, NEW T, NEW f \in [S -> T], NEW c, NEW x \in T
    PROVE  [f EXCEPT ![c] = x] \in [S -> T]
OBVIOUS

(* The types of what is under way.                                         *)
LEMMA Data ==
    ASSUME IInv
    PROVE  /\ up \in [Proc -> Nat] /\ down \in [Proc -> Nat]
           /\ replies \in [Proc -> Nat] /\ refused \subseteq Proc
           /\ lost \in BOOLEAN
           /\ inbox \in [Proc -> SUBSET (Proc \X Nat)]
           /\ caller \in [Proc -> (Proc \cup {Nobody}) \X Nat]
           /\ backlog \in [Proc -> Seq(Proc)]
           /\ cut \in [Proc -> {"no", "fin", "reset"}]
BY Types DEF NetType

(* The calls of the exchange.                                              *)
LEMMA RecvKeeps == ASSUME IInv, NEW p \in Proc, Recv(p) PROVE IInv'
<1>1. ASSUME NEW f \in [Proc -> Nat], NEW c, NEW n \in 0..(f[c] - 1)
      PROVE  [f EXCEPT ![c] = n] \in [Proc -> Nat]
  <2>1. n \in Nat
    OBVIOUS
  <2> QED BY <2>1, Replaced
<1>2. up' \in [Proc -> Nat] /\ down' \in [Proc -> Nat]
  <2>1. up \in [Proc -> Nat] /\ down \in [Proc -> Nat]
    BY Data
  <2>2. CASE Server(p)
    <3> DEFINE c == caller[p][1]
    <3>1. \/ up' = up
          \/ \E n \in 0..(up[c] - 1) : up' = [up EXCEPT ![c] = n]
      BY <2>2 DEF Recv
    <3>2. up' \in [Proc -> Nat]
      <4>1. CASE up' = up
        BY <4>1, <2>1
      <4>2. CASE \E n \in 0..(up[c] - 1) : up' = [up EXCEPT ![c] = n]
        BY <4>2, <2>1, <1>1
      <4> QED BY <3>1, <4>1, <4>2
    <3>3. down' = down
      BY <2>2 DEF Recv
    <3> QED BY <2>1, <3>2, <3>3
  <2>3. CASE ~ Server(p)
    <3>1. \/ down' = down
          \/ \E n \in 0..(down[p] - 1) : down' = [down EXCEPT ![p] = n]
      BY <2>3 DEF Recv
    <3>2. down' \in [Proc -> Nat]
      <4>1. CASE down' = down
        BY <4>1, <2>1
      <4>2. CASE \E n \in 0..(down[p] - 1) : down' = [down EXCEPT ![p] = n]
        BY <4>2, <2>1, <1>1
      <4> QED BY <3>1, <4>1, <4>2
    <3>3. up' = up
      BY <2>3 DEF Recv
    <3> QED BY <2>1, <3>2, <3>3
  <2> QED BY <2>2, <2>3
<1>3. UNCHANGED <<caller, backlog, cut, udpVars>>
  BY DEF Recv
<1>4. NetType'
  BY <1>2, <1>3, Data DEF NetType, udpVars
<1>5. FilterTypeOK'
  BY FilterKept DEF Recv
<1>6. /\ Call(p) \in Exchange \ {"accept", "close"} /\ Go(p)
      /\ UNCHANGED <<program, status, setupVars, client_socket, round, holder>>
  BY DEF Recv, Calls, Call, Exchange
<1> QED BY <1>4, <1>5, <1>6, ExchangeKeeps

(* The call Send.                                                          *)
LEMMA SendKeeps == ASSUME IInv, NEW p \in Proc, Send(p) PROVE IInv'
<1>1. up' \in [Proc -> Nat] /\ down' \in [Proc -> Nat]
  <2>1. /\ up' = up \/ \E c, n : n \in Nat /\ up' = [up EXCEPT ![c] = n]
        /\ down' = down \/ \E c, n : n \in Nat /\ down' = [down EXCEPT ![c] = n]
    <3>1. \A n \in 1..2 : n \in Nat
      OBVIOUS
    <3>2. CASE Server(p)
      BY <3>1, <3>2, Zenon DEF Send
    <3>3. CASE ~ Server(p)
      BY <3>1, <3>3, Zenon DEF Send
    <3> QED BY <3>2, <3>3
  <2>2. up \in [Proc -> Nat] /\ down \in [Proc -> Nat]
    BY Data
  <2>3. \A f \in [Proc -> Nat] : \A c : \A n \in Nat :
           [f EXCEPT ![c] = n] \in [Proc -> Nat]
    OBVIOUS
  <2>4. up' \in [Proc -> Nat]
    BY <2>1, <2>2, <2>3, Zenon
  <2>5. down' \in [Proc -> Nat]
    BY <2>1, <2>2, <2>3, Zenon
  <2> QED BY <2>4, <2>5
<1>2. UNCHANGED <<caller, backlog, cut, udpVars>>
  BY DEF Send
<1>3. NetType'
  BY <1>1, <1>2, Data DEF NetType, udpVars
<1>4. FilterTypeOK'
  BY FilterKept DEF Send
<1>5. /\ Call(p) \in Exchange \ {"accept", "close"} /\ Go(p)
      /\ UNCHANGED <<program, status, setupVars, client_socket, round, holder>>
  BY DEF Send, Calls, Call, Exchange
<1> QED BY <1>3, <1>4, <1>5, ExchangeKeeps

(* The filter's steps.                                                     *)
LEMMA FilterCallKeeps == ASSUME IInv, NEW p \in Proc, FilterCall(p) PROVE IInv'
<1>1. NetType'
  BY NetKept DEF FilterCall
<1>2. CASE FilterStep /\ UNCHANGED at
  <2>1. Shifted \in Seq(Byte \cup {NUL})
    <3> DEFINE t == contentPacketToSend
    <3>1. t \in Seq(Byte \cup {NUL}) /\ i \in Nat
      BY Types DEF FilterTypeOK
    <3>2. \A k \in 1..Len(t) :
             (IF k <= i THEN t[k] ELSE IF k < Len(t) THEN t[k + 1] ELSE NUL)
               \in Byte \cup {NUL}
      BY <3>1
    <3>3. Shifted \in [1..Len(t) -> Byte \cup {NUL}]
      BY <3>2 DEF Shifted
    <3> QED BY <3>1, <3>3
  <2>2. FilterTypeOK'
    BY <1>2, <2>1, Types DEF FilterStep, Shift, Advance, FilterTypeOK
  <2>3. UNCHANGED <<program, at, status, setupVars, client_socket, round, holder>>
    BY <1>2 DEF FilterCall
  <2> QED BY <1>1, <2>2, <2>3, NoCallKeeps
<1>3. CASE Filtered /\ Go(p) /\ UNCHANGED filterVars
  <2>1. FilterTypeOK'
    BY <1>3, FilterKept
  <2>2. /\ Call(p) \in Exchange \ {"accept", "close"} /\ Go(p)
        /\ UNCHANGED <<program, status, setupVars, client_socket, round, holder>>
    BY <1>3 DEF FilterCall, Calls, Call, Exchange
  <2> QED BY <1>1, <2>1, <2>2, ExchangeKeeps
<1> QED BY <1>2, <1>3 DEF FilterCall

(* The call SendTo.                                                        *)
LEMMA SendToKeeps == ASSUME IInv, NEW p \in Proc, SendTo(p) PROVE IInv'
<1>1. replies' \in [Proc -> Nat] /\ lost' \in BOOLEAN
      /\ inbox' \in [Proc -> SUBSET (Proc \X Nat)] /\ refused' \subseteq Proc
  <2>1. CASE Server(p)
    <3> DEFINE c == caller[p][1]
    <3>1. c \in Proc \cup {Nobody}
      BY Data
    <3>2. \/ replies' = [replies EXCEPT ![c] = replies[c] + 1] /\ c \in Proc
          \/ replies' = replies
      BY <2>1, <3>1 DEF SendTo
    <3>3. replies' \in [Proc -> Nat]
      <4>1. CASE replies' = replies
        BY <4>1, Data
      <4>2. CASE replies' = [replies EXCEPT ![c] = replies[c] + 1] /\ c \in Proc
        <5>1. replies[c] + 1 \in Nat
          BY <4>2, Data
        <5> QED BY <4>2, <5>1, Data, Replaced
      <4> QED BY <3>2, <4>1, <4>2
    <3>4. lost' \in {lost, TRUE} /\ inbox' = inbox /\ refused' = refused
      BY <2>1 DEF SendTo
    <3> QED BY <3>3, <3>4, Data
  <2>2. CASE ~ Server(p)
    <3>1. <<p, round[p]>> \in Proc \X Nat
      BY Types DEF SetupType
    <3>2. \/ inbox' = inbox
          \/ \E s \in Proc :
                inbox' = [inbox EXCEPT ![s] = inbox[s] \cup {<<p, round[p]>>}]
      <4>1. holder[addr[p]] \in Proc \cup {Nobody}
        BY Types DEF SetupType
      <4> QED BY <2>2, <4>1 DEF SendTo
    <3>3. inbox' \in [Proc -> SUBSET (Proc \X Nat)]
      <4>1. CASE inbox' = inbox
        BY <4>1, Data
      <4>2. CASE \E s \in Proc :
                   inbox' = [inbox EXCEPT ![s] = inbox[s] \cup {<<p, round[p]>>}]
        <5>1. \A s \in Proc :
                inbox[s] \cup {<<p, round[p]>>} \in SUBSET (Proc \X Nat)
          <6>1. \A s \in Proc : inbox[s] \in SUBSET (Proc \X Nat)
            BY Data
          <6> QED BY <3>1, <6>1
        <5>2. PICK s \in Proc :
                 inbox' = [inbox EXCEPT ![s] = inbox[s] \cup {<<p, round[p]>>}]
          BY <4>2
        <5>3. inbox[s] \cup {<<p, round[p]>>} \in SUBSET (Proc \X Nat)
          BY <5>1
        <5>4. inbox \in [Proc -> SUBSET (Proc \X Nat)]
          BY Data
        <5> QED BY <5>2, <5>3, <5>4
      <4> QED BY <3>2, <4>1, <4>2
    <3>4. lost' \in {lost, TRUE} /\ replies' = replies
          /\ refused' \in {refused, refused \cup {p}}
      BY <2>2 DEF SendTo
    <3> QED BY <3>3, <3>4, Data
  <2> QED BY <2>1, <2>2
<1>2. UNCHANGED <<caller, tcpVars>>
  BY DEF SendTo
<1>3. NetType'
  BY <1>1, <1>2, Data DEF NetType, tcpVars
<1>4. FilterTypeOK'
  BY FilterKept DEF SendTo
<1>5. /\ Call(p) \in Exchange \ {"accept", "close"} /\ Go(p)
      /\ UNCHANGED <<program, status, setupVars, client_socket, round, holder>>
  BY DEF SendTo, Calls, Call, Exchange
<1> QED BY <1>3, <1>4, <1>5, ExchangeKeeps

(* The call RecvFrom.                                                      *)
LEMMA RecvFromKeeps == ASSUME IInv, NEW p \in Proc, RecvFrom(p) PROVE IInv'
<1>1. /\ Call(p) \in Exchange \ {"accept", "close"} /\ Go(p)
      /\ UNCHANGED <<program, status, setupVars, client_socket, round, holder>>
  BY DEF RecvFrom, Calls, Call, Exchange
<1>2. FilterTypeOK' /\ UNCHANGED <<tcpVars, lost>>
  BY FilterKept DEF RecvFrom
<1>3. CASE Server(p)
  <2>1. inbox' \in [Proc -> SUBSET (Proc \X Nat)]
        /\ caller' \in [Proc -> (Proc \cup {Nobody}) \X Nat]
    <3>1. CASE UNCHANGED <<inbox, caller>>
      BY <3>1, Data
    <3>2. CASE \E d \in inbox[p] : /\ inbox' = [inbox EXCEPT ![p] = inbox[p] \ {d}]
                                   /\ caller' = [caller EXCEPT ![p] = d]
      <4>1. PICK d \in inbox[p] : /\ inbox' = [inbox EXCEPT ![p] = inbox[p] \ {d}]
                                  /\ caller' = [caller EXCEPT ![p] = d]
        BY <3>2
      <4>2. inbox[p] \in SUBSET (Proc \X Nat)
        BY Data
      <4>3. /\ d \in (Proc \cup {Nobody}) \X Nat
            /\ inbox[p] \ {d} \in SUBSET (Proc \X Nat)
        BY <4>2
      <4>4. /\ inbox \in [Proc -> SUBSET (Proc \X Nat)]
            /\ caller \in [Proc -> (Proc \cup {Nobody}) \X Nat]
        BY Data
      <4>5. inbox' \in [Proc -> SUBSET (Proc \X Nat)]
        BY <4>1, <4>3, <4>4
      <4>6. caller' \in [Proc -> (Proc \cup {Nobody}) \X Nat]
        <5> HIDE <4>2
        <5>1. caller' = [caller EXCEPT ![p] = d]
          BY <4>1
        <5> QED BY <5>1, <4>3, <4>4, Replaced, Zenon
      <4> QED BY <4>5, <4>6
    <3> QED BY <1>3, <3>1, <3>2 DEF RecvFrom
  <2>2. UNCHANGED <<replies, refused>>
    BY <1>3 DEF RecvFrom
  <2>3. NetType'
    BY <1>2, <2>1, <2>2, Data DEF NetType, tcpVars
  <2> QED BY <1>1, <1>2, <2>3, ExchangeKeeps
<1>4. CASE ~ Server(p)
  <2>1. \/ replies[p] > 0 /\ replies' = [replies EXCEPT ![p] = replies[p] - 1]
           /\ refused' = refused
        \/ refused' = refused \ {p} /\ replies' = replies
    BY <1>4 DEF RecvFrom
  <2>2. replies' \in [Proc -> Nat] /\ refused' \subseteq Proc
    <3>1. replies[p] \in Nat
      BY Data
    <3>2. replies[p] > 0 => replies[p] - 1 \in Nat
      BY <3>1
    <3>3. replies \in [Proc -> Nat] /\ refused \subseteq Proc
      BY Data
    <3>4. replies' \in [Proc -> Nat]
      <4>1. CASE replies' = replies
        BY <4>1, <3>3
      <4>2. CASE replies[p] > 0 /\ replies' = [replies EXCEPT ![p] = replies[p] - 1]
        BY <4>2, <3>2, <3>3
      <4> QED BY <2>1, <4>1, <4>2
    <3>5. refused' \subseteq Proc
      BY <2>1, <3>3
    <3> QED BY <3>4, <3>5
  <2>3. UNCHANGED <<inbox, caller>>
    BY <1>4 DEF RecvFrom
  <2>4. NetType'
    BY <1>2, <2>2, <2>3, Data DEF NetType, tcpVars
  <2> QED BY <1>1, <1>2, <2>4, ExchangeKeeps
<1> QED BY <1>3, <1>4

(* The web server.                                                         *)
LEMMA WebAnswerKeeps == ASSUME IInv, NEW p \in Proc, WebAnswer(p) PROVE IInv'
<1>1. /\ up' \in [Proc -> Nat] /\ down' \in [Proc -> Nat]
      /\ cut' \in [Proc -> {"no", "fin", "reset"}]
  <2>1. up' = [up EXCEPT ![p] = 0]
    BY DEF WebAnswer
  <2>2. /\ down' = down \/ \E n \in 1..2 : down' = [down EXCEPT ![p] = n]
        /\ \/ cut' = [cut EXCEPT ![p] = "fin"]
           \/ cut' = [cut EXCEPT ![p] = "reset"]
    BY DEF WebAnswer
  <2>3. \A n \in 0..2 : n \in Nat
    OBVIOUS
  <2>4. up' \in [Proc -> Nat]
    BY <2>1, <2>3, Data, Replaced
  <2>5. down' \in [Proc -> Nat]
    <3>1. down \in [Proc -> Nat]
      BY Data
    <3>2. CASE down' = down
      BY <3>1, <3>2
    <3>3. CASE \E n \in 1..2 : down' = [down EXCEPT ![p] = n]
      BY <3>1, <3>3
    <3> QED BY <2>2, <3>2, <3>3
  <2>6. cut' \in [Proc -> {"no", "fin", "reset"}]
    BY <2>2, Data, Replaced
  <2> QED BY <2>4, <2>5, <2>6
<1>2. UNCHANGED <<caller, backlog, udpVars>>
  BY DEF WebAnswer
<1>3. NetType'
  BY <1>1, <1>2, Data DEF NetType, udpVars
<1>4. FilterTypeOK'
  BY FilterKept DEF WebAnswer
<1>5. UNCHANGED <<program, at, status, setupVars, client_socket, round, holder>>
  BY DEF WebAnswer
<1> QED BY <1>3, <1>4, <1>5, NoCallKeeps

(* The second socket of a server is that of client_socket.                 *)
LEMMA AcceptKeeps == ASSUME IInv, NEW s \in Proc, Accept(s) PROVE IInv'
<1>1. Call(s) = "accept" /\ status[s] = "running"
  BY DEF Accept, Calls, Call
<1>2. program[s] = TCPServer
  BY <1>1, Script DEF Serves, Call
<1>3. client_socket[s] = -1 /\ open[s] \subseteq {internet_socket[s]}
  <2>1. client_socket[s] = -1
    BY <1>1 DEF IInv, Stage
  <2>2. open[s] \subseteq {internet_socket[s], -1} /\ open[s] \subseteq Number
    BY <2>1, Types DEF IInv, Stage, SetupType
  <2>3. -1 \notin Number
    BY ProgramsAssumption DEF ProgramsAssumption
  <2> QED BY <2>1, <2>2, <2>3
<1>4. UNCHANGED <<program, addr, internet_socket, round, up, down, udpVars>>
  BY DEF Accept
<1>5. FilterTypeOK'
  BY FilterKept DEF Accept
<1>6. CASE ~ Usable(s)
  <2>1. /\ status' = [status EXCEPT ![s] = "exit"]
        /\ UNCHANGED <<at, client_socket, open, holder, caller, backlog, cut>>
    BY <1>6 DEF Accept
  <2>2. NetType'
    BY <1>4, <2>1, NetKept DEF tcpVars
  <2>3. AtType' /\ SetupType'
    BY <1>4, <2>1, Types DEF AtType, SetupType
  <2>4. status'[s] = "exit"
    BY <2>1, Types DEF SetupType
  <2>5. Call(s)' = "accept"
    BY <1>1, <1>4, <2>1 DEF Call
  <2>6. Stage(s)'
    BY <1>3, <1>4, <2>1, <2>4, <2>5 DEF Stage, Entry, Attempt, Exchange
  <2>7. \A q \in Proc \ {s} : Same(q)
    BY <1>4, <2>1, Types DEF SetupType, Same
  <2>8. ASSUME NEW a \in 1..Addresses PROVE holder[a] # s
    BY <1>6, ProgramsAssumption DEF IInv, Held, Usable, ProgramsAssumption
  <2> QED BY <1>4, <1>5, <2>1, <2>2, <2>3, <2>6, <2>7, <2>8, OneProcess
<1>7. CASE /\ Number \ open[s] # {}
           /\ client_socket' = [client_socket EXCEPT ![s] = Free(s)]
           /\ open' = [open EXCEPT ![s] = open[s] \cup {Free(s)}]
           /\ caller' = [caller EXCEPT ![s] = <<Head(backlog[s]), 0>>]
           /\ backlog' = [backlog EXCEPT ![s] = Tail(backlog[s])]
           /\ Go(s)
           /\ UNCHANGED <<status, holder, cut>>
           /\ backlog[s] # << >>
  <2>1. Free(s) \in Number
    BY <1>7, FreeNumber
  <2>2. NetType'
    <3>1. backlog[s] \in Seq(Proc)
      BY Data
    <3>2. Tail(backlog[s]) \in Seq(Proc) /\ Head(backlog[s]) \in Proc
      BY <1>7, <3>1
    <3>3. backlog' \in [Proc -> Seq(Proc)]
      BY <1>7, <3>2, Data
    <3>4. <<Head(backlog[s]), 0>> \in (Proc \cup {Nobody}) \X Nat
      BY <3>2
    <3>5. caller' \in [Proc -> (Proc \cup {Nobody}) \X Nat]
      BY <1>7, <3>4, Data, Replaced, Zenon
    <3> QED BY <1>4, <1>7, <3>3, <3>5, Data DEF NetType, udpVars
  <2>3. AtType'
    BY <1>1, <1>4, <1>7, NextCall DEF AtType
  <2>4. SetupType'
    BY <1>4, <1>7, <2>1, Types DEF SetupType
  <2>5. Call(s)' = "recv"
    BY <1>1, <1>4, <1>7, NextCall
  <2>6. client_socket'[s] = Free(s) /\ open'[s] = open[s] \cup {Free(s)}
    BY <1>7, Types DEF SetupType
  <2>7. Stage(s)'
    BY <1>1, <1>2, <1>3, <1>4, <1>7, <2>5, <2>6
    DEF Stage, Entry, Attempt, Exchange
  <2>8. \A q \in Proc \ {s} : Same(q)
    BY <1>4, <1>7, Types DEF SetupType, Same, Go, AtType
  <2>9. ASSUME NEW a \in 1..Addresses, holder'[a] = s PROVE Held(a)'
    <3>1. internet_socket[s] \in open[s] /\ addr[s] = a
      BY <1>7, <2>9, ProgramsAssumption DEF IInv, Held, ProgramsAssumption
    <3> QED BY <1>1, <1>2, <1>4, <1>7, <2>5, <2>6, <2>9, <3>1
            DEF Held, Server, Exchange
  <2> QED BY <1>4, <1>5, <1>7, <2>2, <2>3, <2>4, <2>7, <2>8, <2>9, OneProcess
<1>8. CASE /\ status' = [status EXCEPT ![s] = "exit"]
           /\ open' = [open EXCEPT ![s] = {}]
           /\ holder' = Released(s)
           /\ cut' = [d \in Proc |->
                         IF d \in Queued(s) THEN "reset" ELSE cut[d]]
           /\ backlog' = [backlog EXCEPT ![s] = << >>]
           /\ UNCHANGED <<at, client_socket, caller>>
  <2>1. NetType'
    <3>1. cut' \in [Proc -> {"no", "fin", "reset"}]
      BY <1>8, Data
    <3>2. backlog' \in [Proc -> Seq(Proc)]
      BY <1>8, Data
    <3> QED BY <1>4, <1>8, <3>1, <3>2, Data DEF NetType, udpVars
  <2>2. AtType'
    BY <1>4, <1>8, Types DEF AtType
  <2>3. SetupType'
    <3>1. holder' \in [1..Addresses -> Proc \cup {Nobody}]
      BY <1>8, Types DEF SetupType, Released
    <3> QED BY <1>4, <1>8, <3>1, Types DEF SetupType
  <2>4. Call(s)' = "accept" /\ status'[s] = "exit" /\ open'[s] = {}
    BY <1>1, <1>4, <1>8, Types DEF Call, SetupType
  <2>5. Stage(s)'
    BY <1>3, <1>8, <2>4 DEF Stage, Entry, Attempt, Exchange
  <2>6. \A q \in Proc \ {s} : Same(q)
    BY <1>4, <1>8, Types DEF SetupType, Same
  <2>7. \A a \in 1..Addresses : holder'[a] \in {holder[a], Nobody} /\ holder'[a] # s
    BY <1>8, ProgramsAssumption DEF Released, ProgramsAssumption
  <2> QED BY <1>4, <1>5, <2>1, <2>2, <2>3, <2>5, <2>6, <2>7, OneProcess
<1> QED BY <1>6, <1>7, <1>8, Zenon DEF Accept

(* Both numbers are closed, hence all sockets are, and the port is free.   *)
LEMMA CloseKeeps == ASSUME IInv, NEW p \in Proc, Close(p) PROVE IInv'
<1>1. Call(p) = "close" /\ status[p] = "running"
  BY DEF Close, Calls, Call
<1>2. UNCHANGED <<program, addr, internet_socket, client_socket, round, caller,
                  up, down, lost>>
  BY DEF Close
<1>3. FilterTypeOK'
  BY FilterKept DEF Close
<1>4. NetType'
  <2>1. backlog' \in [Proc -> Seq(Proc)]
    BY Data DEF Close
  <2>2. cut' \in [Proc -> {"no", "fin", "reset"}]
    BY Data DEF Close
  <2>3. inbox' \in [Proc -> SUBSET (Proc \X Nat)]
    BY Data DEF Close
  <2>4. replies' \in [Proc -> Nat] /\ refused' \subseteq Proc
    BY Data DEF Close
  <2> QED BY <1>2, <2>1, <2>2, <2>3, <2>4, Data DEF NetType
<1>5. open'[p] = {}
  BY Types DEF Close, SetupType, IInv, Stage
<1>6. \/ /\ program[p] = MenuClient
         /\ at' = [at EXCEPT ![p] = 1] /\ status' = status
      \/ status' = [status EXCEPT ![p] = "returned"] /\ at' = at
  BY DEF Close
<1>7. AtType'
  BY <1>2, <1>6, Script, Types DEF AtType, Retries
<1>8. SetupType'
  <2>1. holder' \in [1..Addresses -> Proc \cup {Nobody}]
    BY Types DEF Close, SetupType, Released
  <2>2. open' \in [Proc -> SUBSET Number]
    BY Types DEF Close, SetupType
  <2>3. status' \in [Proc -> {"running", "returned", "killed", "exit"}]
    BY <1>6, Types DEF SetupType
  <2> QED BY <1>2, <2>1, <2>2, <2>3, Types DEF SetupType
<1>9. Stage(p)'
  <2>1. CASE /\ program[p] = MenuClient
             /\ at' = [at EXCEPT ![p] = 1] /\ status' = status
    <3>1. Call(p)' \in Entry
      BY <1>2, <2>1, Script, Types DEF Call, Retries, AtType
    <3>2. client_socket[p] = -1
      BY <2>1, ClientIsNoServer DEF IInv, Stage
    <3> QED BY <1>2, <1>5, <3>1, <3>2 DEF Stage, Entry, Attempt
  <2>2. CASE status' = [status EXCEPT ![p] = "returned"] /\ at' = at
    <3>1. Call(p)' = "close"
      BY <1>1, <1>2, <2>2 DEF Call
    <3> QED BY <1>2, <1>5, <3>1 DEF IInv, Stage, Attempt, Exchange, Call
  <2> QED BY <1>6, <2>1, <2>2
<1>10. \A q \in Proc \ {p} : Same(q)
  BY <1>2, <1>6, Types DEF Close, SetupType, AtType, Same
<1>11. \A a \in 1..Addresses : holder'[a] \in {holder[a], Nobody} /\ holder'[a] # p
  BY ProgramsAssumption DEF Close, Released, ProgramsAssumption
<1> QED BY <1>2, <1>3, <1>4, <1>7, <1>8, <1>9, <1>10, <1>11, OneProcess

(* The menu is shown while no socket is open.                              *)
LEMMA MenuKeeps == ASSUME IInv, NEW p \in Proc, Menu(p) PROVE IInv'
<1>1. Call(p) = "menu" /\ status[p] = "running"
  BY DEF Menu, Calls, Call
<1>2. /\ Go(p)
      /\ UNCHANGED <<program, status, setupVars, client_socket, holder>>
  BY DEF Menu
<1>3. NetType' /\ FilterTypeOK'
  BY NetKept, FilterKept DEF Menu
<1>4. AtType'
  BY <1>1, <1>2, NextCall DEF AtType
<1>5. SetupType'
  <2>1. round' \in [Proc -> Nat]
    BY Types DEF Menu, SetupType
  <2> QED BY <1>2, <2>1, Types DEF SetupType, setupVars
<1>6. Call(p)' = "getaddrinfo" /\ open[p] = {} /\ client_socket[p] = -1
  BY <1>1, <1>2, NextCall DEF IInv, Stage, Entry, Exchange
<1>7. Stage(p)'
  BY <1>2, <1>6 DEF Stage, Attempt, setupVars
<1>8. \A q \in Proc \ {p} : Same(q)
  BY <1>2, Types DEF Same, Go, AtType, setupVars
<1>9. \A a \in 1..Addresses : holder'[a] = holder[a] /\ holder'[a] # p
  BY <1>1, <1>2, HoldsNothing DEF Exchange
<1> QED BY <1>2, <1>3, <1>4, <1>5, <1>7, <1>8, <1>9, OneProcess

(* Only clients are killed, and they hold no port.                         *)
LEMMA KillKeeps == ASSUME IInv, NEW p \in Proc, Kill(p) PROVE IInv'
<1>1. /\ program[p] = TCPClient
      /\ status' = [status EXCEPT ![p] = "killed"]
      /\ open' = [open EXCEPT ![p] = {}]
      /\ UNCHANGED <<program, at, addr, internet_socket, client_socket, round,
                     holder>>
  BY DEF Kill
<1>2. NetType' /\ FilterTypeOK'
  BY NetKept, FilterKept DEF Kill
<1>3. AtType' /\ SetupType'
  BY <1>1, Types DEF AtType, SetupType
<1>4. status'[p] = "killed" /\ open'[p] = {}
  BY <1>1, Types DEF SetupType
<1>5. Stage(p)'
  BY <1>1, <1>4 DEF IInv, Stage, Call
<1>6. \A q \in Proc \ {p} : Same(q)
  BY <1>1, Types DEF SetupType, Same
<1>7. \A a \in 1..Addresses : holder'[a] = holder[a] /\ holder'[a] # p
  BY <1>1, ClientIsNoServer, ProgramsAssumption
  DEF IInv, Held, Server, ProgramsAssumption
<1> QED BY <1>1, <1>2, <1>3, <1>5, <1>6, <1>7, OneProcess

-----------------------------------------------------------------------------
(* Every step of every process keeps the invariant.                        *)
LEMMA Inductive == IInv /\ [Next]_vars => IInv'
<1> SUFFICES ASSUME IInv, [Next]_vars PROVE IInv'
  OBVIOUS
<1>1. ASSUME NEW p \in Proc, Step(p) PROVE IInv'
  BY <1>1, GetAddrInfoKeeps, SocketKeeps, BindKeeps, ListenKeeps, ConnectKeeps,
     AcceptKeeps, RecvKeeps, SendKeeps, FilterCallKeeps, SendToKeeps,
     RecvFromKeeps, CloseKeeps, Zenon
  DEF Step
<1>2. CASE UNCHANGED vars
  <2>1. NetType' /\ FilterTypeOK'
    BY <1>2, NetKept, FilterKept DEF vars
  <2> QED BY <1>2, <2>1, NoCallKeeps DEF vars
<1> QED BY <1>1, <1>2, MenuKeeps, KillKeeps, WebAnswerKeeps, Zenon DEF Next

(* The invariant says more than NoSocketLeft.                              *)
LEMMA NothingLeft == IInv => NoSocketLeft
<1> SUFFICES ASSUME IInv PROVE NoSocketLeft
  OBVIOUS
<1>1. ASSUME NEW p \in Proc
      PROVE  /\ open[p] \subseteq {internet_socket[p], client_socket[p]}
             /\ status[p] = "returned" \/ at[p] = 1 => open[p] = {}
  <2>1. Stage(p)
    BY DEF IInv
  <2>2. at[p] = 1 => Call(p) \in Entry
    BY Script DEF Retries, Call
  <2> QED BY <2>1, <2>2 DEF Stage
<1>2. ASSUME NEW a \in 1..Addresses, holder[a] # Nobody
      PROVE  LET s == holder[a]
             IN  status[s] = "running" /\ Usable(s) /\ addr[s] = a
  BY <1>2 DEF IInv, Held, Usable
<1> QED BY <1>1, <1>2 DEF NoSocketLeft

(* The short programs keep to their types, and to their scripts: no jump   *)
(* out of the loop over the addresses leads past the last call.            *)
THEOREM TypeCorrect == Spec => []TypeOK
<1>1. IInv => TypeOK
  BY DEF IInv
<1> QED BY InitIInv, Inductive, <1>1, PTL DEF Spec

(* Whichever calls fail, at however many addresses: no program returns, or *)
(* shows its menu again, with a socket open, none has an open socket whose *)
(* number it lost, and ports belong to open sockets of running servers.    *)
THEOREM NoSocketStaysOpen == Spec => []NoSocketLeft
BY InitIInv, Inductive, NothingLeft, PTL DEF Spec

-----------------------------------------------------------------------------
(* What the loop keeps true: the copy holds the letters of the message;    *)
(* its last cell is a NUL, and after a NUL there are NULs only; what the   *)
(* index has passed is wanted.                                             *)
FilterInv ==
    /\ FilterTypeOK
    /\ Len(contentPacketToSend) = Len(buf) + 1
    /\ i <= Len(buf)
    /\ contentPacketToSend[Len(buf) + 1] = NUL
    /\ \A k, l \in 1..(Len(buf) + 1) :
          k <= l /\ contentPacketToSend[k] = NUL => contentPacketToSend[l] = NUL
    /\ Keep(contentPacketToSend, Letter) = Keep(buf, Letter)
    /\ \A k \in 1..i : contentPacketToSend[k] \in Letter \cup {NUL}

(* The filter begins with the message as it was received.                  *)
LEMMA FilterStarts ==
    ASSUME NEW text \in Seq(Byte), FilterInit(text)
    PROVE  FilterInv
<1>1. /\ buf = text /\ i = 0 /\ contentPacketToSend = Append(text, NUL)
      /\ Len(text) \in Nat
  BY DEF FilterInit
<1>2. /\ contentPacketToSend \in Seq(Byte \cup {NUL})
      /\ Len(contentPacketToSend) = Len(text) + 1
      /\ \A k \in 1..Len(text) : contentPacketToSend[k] = text[k] /\ text[k] \in Byte
      /\ contentPacketToSend[Len(text) + 1] = NUL
  BY <1>1
<1>3. Keep(contentPacketToSend, Letter) = Keep(text, Letter)
  <2>1. Keep(Append(text, NUL), Letter) = Keep(text, Letter)
    BY KeepAppend, FilterAssumption
  <2> QED BY <1>1, <2>1
<1>4. ASSUME NEW k \in 1..(Len(buf) + 1), NEW l \in 1..(Len(buf) + 1), k <= l,
             contentPacketToSend[k] = NUL
      PROVE  contentPacketToSend[l] = NUL
  <2>1. k \notin 1..Len(text)
    BY <1>2, <1>4, FilterAssumption
  <2>2. l = Len(text) + 1
    BY <1>1, <1>4, <2>1
  <2> QED BY <1>2, <2>2
<1>5. FilterTypeOK
  BY <1>1, <1>2 DEF FilterTypeOK
<1> QED BY <1>1, <1>2, <1>3, <1>4, <1>5 DEF FilterInv

(* One run of the innermost loop takes the unwanted byte out.              *)
LEMMA ShiftTakes ==
    ASSUME FilterInv, Shift
    PROVE  /\ contentPacketToSend' \in Seq(Byte \cup {NUL})
           /\ Len(contentPacketToSend') = Len(contentPacketToSend)
           /\ \A k \in 1..(Len(buf) + 1) : contentPacketToSend'[k] =
                 IF k <= i THEN contentPacketToSend[k]
                 ELSE IF k < Len(buf) + 1 THEN contentPacketToSend[k + 1]
                 ELSE NUL
           /\ Keep(contentPacketToSend', Letter) = Keep(contentPacketToSend, Letter)
<1> DEFINE s == contentPacketToSend
           t == contentPacketToSend'
           B == Byte \cup {NUL}
           w == SubSeq(s, 1, i)
           z == SubSeq(s, i + 2, Len(s))
<1>1. /\ s \in Seq(B) /\ Len(s) = Len(buf) + 1 /\ i \in Nat /\ i < Len(buf)
      /\ Len(buf) \in Nat /\ s[i + 1] \notin Letter /\ s[i + 1] # NUL
      /\ t = [k \in 1..Len(s) |-> IF k <= i THEN s[k]
                                  ELSE IF k < Len(s) THEN s[k + 1] ELSE NUL]
  BY DEF FilterInv, FilterTypeOK, Shift, Shifted, Unwanted, Current
<1> HIDE DEF s, t
<1>2. /\ Len(t) = Len(s)
      /\ \A k \in 1..Len(s) : t[k] = IF k <= i THEN s[k]
                                     ELSE IF k < Len(s) THEN s[k + 1] ELSE NUL
  BY <1>1
<1>3. t \in Seq(B)
  <2>1. \A k \in 1..Len(s) : s[k] \in B
    BY <1>1
  <2>2. \A k \in 1..Len(s) : (IF k <= i THEN s[k]
                              ELSE IF k < Len(s) THEN s[k + 1] ELSE NUL) \in B
    BY <1>1, <2>1
  <2> QED BY <1>1, <2>2
<1>4. i + 1 \in 1..Len(s) /\ i \in 0..Len(s) /\ i + 1 \in 0..Len(s)
      /\ (i + 1) + 1 = i + 2 /\ (i + 1) - 1 = i
  BY <1>1
<1>5. /\ w \in Seq(B) /\ Len(w) = i /\ \A k \in 1..i : w[k] = s[k]
      /\ z \in Seq(B) /\ Len(z) = Len(s) - (i + 1)
      /\ \A k \in 1..(Len(s) - (i + 1)) : z[k] = s[(i + 1) + k]
  BY <1>1, <1>4, CutAt
<1>6. Keep(s, Letter) = Keep(Without(s, i + 1), Letter)
  BY <1>1, <1>4, KeepTaken
<1>7. Without(s, i + 1) = w \o z
  BY <1>4 DEF Without
<1> HIDE DEF w, z
<1> DEFINE u == w \o z
<1>8. /\ u \in Seq(B) /\ Len(u) = Len(w) + Len(z)
      /\ \A k \in 1..Len(w) : u[k] = w[k]
      /\ \A k \in 1..Len(z) : u[Len(w) + k] = z[k]
  <2> HIDE DEF B
  <2>1. w \in Seq(B) /\ z \in Seq(B)
    BY <1>5
  <2>2. /\ w \o z \in Seq(B) /\ Len(w \o z) = Len(w) + Len(z)
        /\ \A k \in 1..Len(w) : (w \o z)[k] = w[k]
        /\ \A k \in 1..Len(z) : (w \o z)[Len(w) + k] = z[k]
    BY <2>1, ConcatAt
  <2> QED BY <2>2
<1> HIDE DEF u
<1>9. Len(u) = Len(s) - 1 /\ \A k \in 1..(Len(s) - 1) : u[k] = t[k]
  <2>1. Len(u) = Len(s) - 1
    BY <1>1, <1>5, <1>8
  <2>2. ASSUME NEW k \in 1..(Len(s) - 1) PROVE u[k] = t[k]
    <3>1. CASE k <= i
      BY <1>1, <1>2, <1>5, <1>8, <3>1
    <3>2. CASE k > i
      <4>1. k - i \in 1..Len(z) /\ i + (k - i) = k /\ (i + 1) + (k - i) = k + 1
        BY <1>1, <1>5, <3>2
      <4>2. u[i + (k - i)] = z[k - i]
        BY <1>5, <1>8, <4>1
      <4>3. z[k - i] = s[k + 1]
        BY <1>5, <4>1
      <4>4. t[k] = s[k + 1]
        BY <1>1, <1>2, <3>2
      <4> QED BY <4>1, <4>2, <4>3, <4>4
    <3>3. k <= i \/ k > i
      BY <1>1
    <3> QED BY <3>1, <3>2, <3>3
  <2> QED BY <2>1, <2>2
<1>10. t = Append(u, NUL)
  <2> DEFINE v == Append(u, NUL)
  <2>1. /\ v \in Seq(B) /\ Len(v) = Len(s)
        /\ \A k \in 1..(Len(s) - 1) : v[k] = u[k]
        /\ v[Len(s)] = NUL
    BY <1>1, <1>8, <1>9
  <2> HIDE DEF v
  <2>2. t[Len(s)] = NUL
    BY <1>1, <1>2
  <2>3. ASSUME NEW k \in 1..Len(s) PROVE t[k] = v[k]
    <3>1. k \in 1..(Len(s) - 1) \/ k = Len(s)
      BY <1>1
    <3> QED BY <1>9, <2>1, <2>2, <3>1
  <2>4. t = v
    BY <1>2, <1>3, <2>1, <2>3, SeqEqual
  <2> QED BY <2>4 DEF v
<1>11. Keep(t, Letter) = Keep(u, Letter)
  <2>1. Keep(Append(u, NUL), Letter) = Keep(u, Letter)
    BY <1>8, KeepAppend, FilterAssumption
  <2> QED BY <1>10, <2>1
<1>12. Keep(t, Letter) = Keep(s, Letter)
  BY <1>6, <1>7, <1>11 DEF u
<1> QED BY <1>1, <1>2, <1>3, <1>12 DEF s, t

(* Every step keeps what the filter has still to deliver.                  *)
LEMMA FilterKeepsInv ==
    ASSUME FilterInv, FilterStep
    PROVE  FilterInv'
<1>0. /\ i \in Nat /\ buf \in Seq(Byte) /\ Len(buf) \in Nat /\ i <= Len(buf)
      /\ Len(contentPacketToSend) = Len(buf) + 1
  BY DEF FilterInv, FilterTypeOK
<1>1. CASE Advance
  <2>1. /\ i < Len(buf) /\ i' = i + 1 /\ UNCHANGED <<buf, contentPacketToSend>>
        /\ contentPacketToSend[i + 1] \in Letter \cup {NUL}
    BY <1>1 DEF Advance, Unwanted, Current
  <2>2. \A k \in 1..(i + 1) : contentPacketToSend[k] \in Letter \cup {NUL}
    BY <1>0, <2>1 DEF FilterInv
  <2> QED BY <1>0, <2>1, <2>2 DEF FilterInv, FilterTypeOK
<1>2. CASE Shift
  <2>1. /\ UNCHANGED <<buf, i>> /\ i < Len(buf)
        /\ contentPacketToSend[i + 1] # NUL
    BY <1>2 DEF Shift, Unwanted, Current
  <2>2. /\ contentPacketToSend' \in Seq(Byte \cup {NUL})
        /\ Len(contentPacketToSend') = Len(buf) + 1
        /\ \A k \in 1..(Len(buf) + 1) : contentPacketToSend'[k] =
              IF k <= i THEN contentPacketToSend[k]
              ELSE IF k < Len(buf) + 1 THEN contentPacketToSend[k + 1]
              ELSE NUL
        /\ Keep(contentPacketToSend', Letter) = Keep(contentPacketToSend, Letter)
    BY <1>0, <1>2, ShiftTakes
  <2>3. ASSUME NEW k \in 1..(Len(buf) + 1), NEW l \in 1..(Len(buf) + 1),
               k <= l, contentPacketToSend'[k] = NUL
        PROVE  contentPacketToSend'[l] = NUL
    <3>0. \A m, n \in 1..(Len(buf) + 1) :
             m <= n /\ contentPacketToSend[m] = NUL => contentPacketToSend[n] = NUL
      BY DEF FilterInv
    <3>1. k > i
      <4> SUFFICES ASSUME k <= i PROVE FALSE
        BY <1>0
      <4>1. contentPacketToSend[k] = NUL
        BY <2>2, <2>3
      <4>2. i + 1 \in 1..(Len(buf) + 1) /\ k <= i + 1
        BY <1>0, <2>1
      <4> QED BY <2>1, <3>0, <4>1, <4>2
    <3>2. CASE l = Len(buf) + 1
      BY <1>0, <2>1, <2>2, <3>2
    <3>3. CASE l < Len(buf) + 1
      <4>1. /\ contentPacketToSend[k + 1] = NUL
            /\ contentPacketToSend'[l] = contentPacketToSend[l + 1]
        BY <1>0, <2>2, <2>3, <3>1, <3>3
      <4>2. k + 1 \in 1..(Len(buf) + 1) /\ l + 1 \in 1..(Len(buf) + 1)
            /\ k + 1 <= l + 1
        BY <1>0, <2>3, <3>3
      <4> QED BY <3>0, <4>1, <4>2
    <3> QED BY <1>0, <3>2, <3>3
  <2>4. contentPacketToSend'[Len(buf) + 1] = NUL
    BY <1>0, <2>1, <2>2
  <2>5. \A k \in 1..i : contentPacketToSend'[k] \in Letter \cup {NUL}
    BY <1>0, <2>1, <2>2 DEF FilterInv
  <2> QED BY <1>0, <2>1, <2>2, <2>3, <2>4, <2>5 DEF FilterInv, FilterTypeOK
<1> QED BY <1>1, <1>2 DEF FilterStep

(* When the loop has ended the letters are what precedes the first NUL.    *)
LEMMA FilterDelivers == FilterInv => FilterKeepsLetters
<1> SUFFICES ASSUME FilterInv, Filtered
             PROVE  \E n \in 0..Len(buf) :
                       /\ SubSeq(contentPacketToSend, 1, n) = Keep(buf, Letter)
                       /\ contentPacketToSend[n + 1] = NUL
  BY DEF FilterInv, FilterKeepsLetters
<1> DEFINE s == contentPacketToSend
           B == Byte \cup {NUL}
<1>1. /\ s \in Seq(B) /\ Len(s) = Len(buf) + 1 /\ Len(buf) \in Nat
      /\ s[Len(buf) + 1] = NUL
      /\ \A k, l \in 1..Len(s) : k <= l /\ s[k] = NUL => s[l] = NUL
      /\ Keep(s, Letter) = Keep(buf, Letter)
      /\ \A k \in 1..Len(buf) : s[k] \in Letter \cup {NUL}
  <2>1. i = Len(buf)
    BY DEF FilterInv, FilterTypeOK, Filtered
  <2> QED BY <2>1 DEF FilterInv, FilterTypeOK
<1> HIDE DEF s
<1> DEFINE N == {k \in 1..Len(s) : s[k] = NUL}
<1>2. PICK m \in N : \A k \in N : m <= k
  <2>1. N \subseteq Nat /\ Len(buf) + 1 \in N
    BY <1>1
  <2> HIDE DEF N
  <2> QED BY <2>1, LeastNatural
<1> DEFINE n == m - 1
           p == SubSeq(s, 1, n)
           q == SubSeq(s, n + 1, Len(s))
<1>3. /\ m \in 1..Len(s) /\ n \in 0..Len(buf) /\ n \in 0..Len(s) /\ n + 1 = m
      /\ s[m] = NUL
  BY <1>1, <1>2
<1>4. /\ p \in Seq(B) /\ Len(p) = n /\ \A k \in 1..n : p[k] = s[k]
      /\ q \in Seq(B) /\ Len(q) = Len(s) - n
      /\ \A k \in 1..(Len(s) - n) : q[k] = s[n + k]
      /\ p \o q = s
  <2> HIDE DEF B
  <2>1. s \in Seq(B) /\ n \in 0..Len(s)
    BY <1>1, <1>3
  <2> HIDE DEF n
  <2> QED BY <2>1, CutAt, Halves
<1> HIDE DEF p, q
<1>5. p \in Seq(Letter)
  <2>1. ASSUME NEW k \in 1..n PROVE p[k] \in Letter
    <3>1. k \in 1..Len(buf) /\ k \in 1..Len(s) /\ ~ (m <= k)
      BY <1>1, <1>3
    <3>2. s[k] # NUL
      BY <1>2, <3>1
    <3> QED BY <1>1, <1>4, <3>1, <3>2
  <2> QED BY <1>3, <1>4, <2>1, SeqOf
<1>6. q \in Seq({NUL})
  <2>1. ASSUME NEW k \in 1..(Len(s) - n) PROVE q[k] \in {NUL}
    <3>1. n + k \in 1..Len(s) /\ m <= n + k
      BY <1>1, <1>3
    <3> QED BY <1>1, <1>3, <1>4, <3>1
  <2> QED BY <1>1, <1>3, <1>4, <2>1, SeqOf
<1>7. Keep(p, Letter) = p
  BY <1>5, KeepAll
<1>8. Keep(q, Letter) = << >>
  BY <1>6, KeepNone, FilterAssumption
<1>9. Keep(p \o q, Letter) = Keep(p, Letter) \o Keep(q, Letter)
  BY <1>4, KeepConcat
<1>10. p \o << >> = p
  BY <1>4, ConcatEmptySeq
<1>11. p = Keep(buf, Letter)
  BY <1>1, <1>4, <1>7, <1>8, <1>9, <1>10, Zenon
<1>12. SubSeq(s, 1, n) = Keep(buf, Letter) /\ s[n + 1] = NUL
  BY <1>3, <1>11 DEF p
<1> QED BY <1>3, <1>12 DEF s

(* Only ChatPost's filter works on a message; the others leave it alone.   *)
LEMMA FilterUntouched ==
    ASSUME NEW p \in Proc, Step(p) \/ Menu(p) \/ Kill(p) \/ WebAnswer(p)
    PROVE  FilterStep \/ UNCHANGED filterVars
<1>1. CASE GetAddrInfo(p) \/ Socket(p) \/ Bind(p) \/ Listen(p) \/ Connect(p)
  BY <1>1 DEF GetAddrInfo, Socket, Bind, Listen, Connect
<1>2. CASE Accept(p) \/ Recv(p) \/ Send(p) \/ FilterCall(p)
  BY <1>2 DEF Accept, Recv, Send, FilterCall
<1>3. CASE SendTo(p) \/ RecvFrom(p) \/ Close(p)
  BY <1>3 DEF SendTo, RecvFrom, Close
<1>4. CASE Menu(p) \/ Kill(p) \/ WebAnswer(p)
  BY <1>4 DEF Menu, Kill, WebAnswer
<1> QED BY <1>1, <1>2, <1>3, <1>4 DEF Step

(* executionMsg() leaves the letters of every message, in their order,     *)
(* whatever the alphabet, however long the message is and wherever the     *)
(* unwanted bytes stand.                                                   *)
THEOREM LettersSurvive == Spec => []FilterKeepsLetters
<1>1. Init => FilterInv
  <2> SUFFICES ASSUME Init PROVE FilterInv
    OBVIOUS
  <2>1. PICK text \in Seq(Byte) : FilterInit(text)
    BY FilterBegins
  <2> QED BY <2>1, FilterStarts
<1>2. FilterInv /\ [Next]_vars => FilterInv'
  <2> SUFFICES ASSUME FilterInv, [Next]_vars PROVE FilterInv'
    OBVIOUS
  <2>1. FilterStep \/ UNCHANGED filterVars
    BY FilterUntouched, Zenon DEF Next, vars
  <2>2. CASE UNCHANGED filterVars
    BY <2>2 DEF filterVars, FilterInv, FilterTypeOK
  <2> QED BY <2>1, <2>2, FilterKeepsInv
<1> QED BY <1>1, <1>2, FilterDelivers, PTL DEF Spec
=============================================================================
