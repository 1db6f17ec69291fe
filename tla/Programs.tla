------------------------------ MODULE Programs ------------------------------
(***************************************************************************)
(* The short programs: the course's examples in src/baseCode, the UDP      *)
(* client of src/extras, TCPclient_http.c, and the client inside           *)
(* TCPserver.c that sends a message to chat.php.  Each makes a fixed       *)
(* sequence of calls, its script.  The first calls are those of a loop     *)
(* over the addresses getaddrinfo returned, initialization(); the other    *)
(* calls report their errors and go on to the next.                        *)
(*                                                                         *)
(* Several processes run such programs on one machine and the port 24042.  *)
(***************************************************************************)
EXTENDS Integers, FiniteSets, Filter

CONSTANTS
    Proc,       \* the processes
    Cast,       \* the plays: which program each process runs
    Addresses,  \* BOUND: addresses that getaddrinfo returns
    Number,     \* socket numbers of a process
    Rounds,     \* BOUND: choices made in the menu of extras/UDPClient.c
    Message,    \* the messages for chat.php
    Nobody      \* no process

(* baseCode/TCPServer.c                                                    *)
TCPServer == <<"getaddrinfo", "socket", "bind", "listen",
               "accept", "recv", "send", "close">>

(* Mutant: the client waits for the greeting before it sends its own.      *)
TCPClientWaits ==
    <<"getaddrinfo", "socket", "connect", "recv", "send", "close">>

(* baseCode/TCPClient.c                                                    *)
TCPClient == <<"getaddrinfo", "socket", "connect", "send", "recv", "close">>

(* Mutant: the datagram is not answered.                                   *)
UDPServerMute == <<"getaddrinfo", "socket", "bind", "recvfrom", "close">>

(* baseCode/UDPServer.c                                                    *)
UDPServer ==
    <<"getaddrinfo", "socket", "bind", "recvfrom", "sendto", "close">>

(* baseCode/UDPClient.c                                                    *)
UDPClient == <<"getaddrinfo", "socket", "sendto", "recvfrom", "close">>

(* extras/UDPClient.c: the same after each choice made in its menu         *)
MenuClient ==
    <<"menu", "getaddrinfo", "socket", "sendto", "recvfrom", "close">>

(* main/TCPclient/TCPclient_http.c                                         *)
HttpClient ==
    <<"getaddrinfo", "socket", "connect", "send", "recv", "recv", "close">>

(* main/TCPserver/TCPserver.c, sendMsgToHttp()                             *)
ChatPost ==
    <<"getaddrinfo", "socket", "connect", "filter", "send", "close">>

(* A process that does not take part.                                      *)
Absent == <<"absent">>

ASSUME ProgramsAssumption ==
    /\ Addresses \in Nat \ {0}
    /\ Rounds \in Nat
    /\ Number \subseteq Nat
    /\ \A play \in Cast : \A p \in Proc :
          play[p] \in {TCPServer, TCPClient, UDPServer, UDPClient, MenuClient,
                      HttpClient, ChatPost, Absent}
    /\ Message \subseteq Seq(Byte)
    /\ Nobody \notin Proc

VARIABLES
    program,            \* program[p]: the script p follows
    at,                 \* at[p]: the position of p's next call in it
    status,             \* "running", "returned", "killed", or "exit"
    addr,               \* addr[p]: internet_address_result_iterator
    internet_socket,    \* internet_socket[p]: a number, or -1
    client_socket,      \* ... of the connection that accept returned, or -1
    open,               \* open[p]: the numbers of p's open sockets
    round               \* round[p]: the choices made in the menu so far

VARIABLES               \* kept by the operating systems and the network
    holder,     \* holder[a]: whose socket is bound to address a
    backlog,    \* backlog[s]: connections that s has not accepted
    up, down,   \* up[c], down[c]: pieces of data under way on c's connection
    cut,        \* cut[c]: "no", or how its server ended it: "fin", "reset"
    inbox,      \* inbox[s]: datagrams for s, each a sender and its round
    caller,     \* caller[s]: the connection accepted, or the datagram taken
    replies,    \* replies[c]: answers that arrived at c's present socket
    refused,    \* clients that were told "port unreachable"
    lost        \* a datagram was lost

setupVars == <<addr, internet_socket, open>>
tcpVars == <<backlog, up, down, cut>>
udpVars == <<inbox, replies, refused, lost>>
vars == <<program, at, status, setupVars, client_socket, round, holder, caller,
          tcpVars, udpVars, filterVars>>

Init ==
    /\ program \in Cast
    /\ at = [p \in Proc |-> 1]
    /\ status = [p \in Proc |-> "running"]
    /\ addr = [p \in Proc |-> 1]
    /\ internet_socket = [p \in Proc |-> -1]
    /\ client_socket = [p \in Proc |-> -1]
    /\ open = [p \in Proc |-> {}]
    /\ round = [p \in Proc |-> 0]
    /\ holder = [a \in 1..Addresses |-> Nobody]
    /\ backlog = [p \in Proc |-> << >>]
    /\ up = [p \in Proc |-> 0]
    /\ down = [p \in Proc |-> 0]
    /\ cut = [p \in Proc |-> "no"]
    /\ inbox = [p \in Proc |-> {}]
    /\ caller = [p \in Proc |-> <<Nobody, 0>>]
    /\ replies = [p \in Proc |-> 0]
    /\ refused = {}
    /\ lost = FALSE
    /\ IF \E p \in Proc : program[p] = ChatPost
       THEN \E text \in Message : FilterInit(text)
       ELSE FilterInit(<< >>)

TypeOK ==
    /\ at \in [Proc -> Nat]
    /\ \A p \in Proc : at[p] \in 1..Len(program[p])
    /\ status \in [Proc -> {"running", "returned", "killed", "exit"}]
    /\ addr \in [Proc -> 1..Addresses]
    /\ internet_socket \in [Proc -> Number \cup {-1}]
    /\ client_socket \in [Proc -> Number \cup {-1}]
    /\ open \in [Proc -> SUBSET Number]
    /\ round \in [Proc -> Nat]
    /\ holder \in [1..Addresses -> Proc \cup {Nobody}]
    /\ backlog \in [Proc -> Seq(Proc)]
    /\ up \in [Proc -> Nat] /\ down \in [Proc -> Nat]
    /\ cut \in [Proc -> {"no", "fin", "reset"}]
    /\ inbox \in [Proc -> SUBSET (Proc \X Nat)]
    /\ caller \in [Proc -> (Proc \cup {Nobody}) \X Nat]
    /\ replies \in [Proc -> Nat]
    /\ refused \subseteq Proc
    /\ lost \in BOOLEAN
    /\ FilterTypeOK

-----------------------------------------------------------------------------
(* p is about to make this call.                                           *)
Calls(p, call) == status[p] = "running" /\ program[p][at[p]] = call

(* The call returns and the next one is due.                               *)
Go(p) == at' = [at EXCEPT ![p] = @ + 1]

(* The position of a call in p's script, and of the first call after       *)
(* initialization().                                                       *)
Position(p, call) ==
    CHOOSE n \in 1..Len(program[p]) : program[p][n] = call
Body(p) ==
    1 + CHOOSE n \in 1..Len(program[p]) :
            /\ program[p][n] \in {"socket", "listen", "connect", "bind"}
            /\ program[p][n + 1] \notin {"listen", "connect", "bind"}

Working(p) == status[p] = "running" /\ at[p] >= Body(p)

(* internet_socket is the number of an open socket, and not of a closed one*)
Usable(p) == internet_socket[p] \in open[p]

Server(p) == program[p] \in {TCPServer, UDPServer}
WebClient(p) == program[p] \in {HttpClient, ChatPost}

(* The smallest number that is free.                                       *)
Free(p) ==
    CHOOSE f \in Number \ open[p] : \A g \in Number \ open[p] : f <= g

(* Process s ends or closes its sockets: the port is free, and queued      *)
(* connections are reset.                                                  *)
Released(s) ==
    [a \in 1..Addresses |-> IF holder[a] = s THEN Nobody ELSE holder[a]]

Queued(s) == {backlog[s][k] : k \in 1..Len(backlog[s])}

-----------------------------------------------------------------------------
(* initialization()                                                        *)

GetAddrInfo(p) ==
    /\ Calls(p, "getaddrinfo")
    /\ \/ /\ Go(p)
          /\ addr' = [addr EXCEPT ![p] = 1]
          /\ internet_socket' = [internet_socket EXCEPT ![p] = -1]
          /\ UNCHANGED status
       \/ /\ status' = [status EXCEPT ![p] = "exit"]     \* exit(1)
          /\ UNCHANGED <<at, addr, internet_socket>>
    /\ UNCHANGED <<program, client_socket, open, round, holder, caller,
                   tcpVars, udpVars, filterVars>>

(* socket().  When it fails for the last address internet_socket is -1, the*)
(* program says so, and exit(2).                                           *)
Socket(p) ==
    /\ Calls(p, "socket")
    /\ \/ /\ Number \ open[p] # {}
          /\ internet_socket' = [internet_socket EXCEPT ![p] = Free(p)]
          /\ open' = [open EXCEPT ![p] = @ \cup {Free(p)}]
          /\ Go(p)
          /\ UNCHANGED <<addr, status>>
       \/ /\ internet_socket' = [internet_socket EXCEPT ![p] = -1]
          /\ IF addr[p] < Addresses
             THEN addr' = [addr EXCEPT ![p] = @ + 1] /\ UNCHANGED status
             ELSE status' = [status EXCEPT ![p] = "exit"] /\ UNCHANGED addr
          /\ UNCHANGED <<at, open>>
    /\ UNCHANGED <<program, client_socket, round, holder, caller,
                   tcpVars, udpVars, filterVars>>

(* Mutant: the socket of the address that failed is not closed.            *)
NextAddressLeaking(p) ==
    /\ IF addr[p] < Addresses
       THEN /\ addr' = [addr EXCEPT ![p] = @ + 1]
            /\ at' = [at EXCEPT ![p] = Position(p, "socket")]
       ELSE at' = [at EXCEPT ![p] = Body(p)] /\ UNCHANGED addr
    /\ UNCHANGED <<open, holder>>

(* Mutant: the loop does not look for the end of the list.                 *)
NextAddressPastEnd(p) ==
    /\ addr' = [addr EXCEPT ![p] = @ + 1]
    /\ at' = [at EXCEPT ![p] = Position(p, "socket")]
    /\ open' = [open EXCEPT ![p] = @ \ {internet_socket[p]}]
    /\ holder' = Released(p)

(* After a failure: close(), and on to the next address.  After the last   *)
(* one internet_socket still holds the number just closed, which is not -1,*)
(* and the program carries on with it.                                     *)
NextAddress(p) ==
    /\ open' = [open EXCEPT ![p] = @ \ {internet_socket[p]}]
    /\ holder' = Released(p)
    /\ IF addr[p] < Addresses
       THEN /\ addr' = [addr EXCEPT ![p] = @ + 1]
            /\ at' = [at EXCEPT ![p] = Position(p, "socket")]
       ELSE at' = [at EXCEPT ![p] = Body(p)] /\ UNCHANGED addr

(* bind(): fails at an address that is taken, or for another reason.       *)
Bind(p) ==
    /\ Calls(p, "bind")
    /\ \/ /\ holder[addr[p]] = Nobody
          /\ holder' = [holder EXCEPT ![addr[p]] = p]
          /\ Go(p)
          /\ UNCHANGED <<addr, open>>
       \/ NextAddress(p)
    /\ UNCHANGED <<program, status, internet_socket, client_socket, round,
                   caller, tcpVars, udpVars, filterVars>>

Listen(p) ==
    /\ Calls(p, "listen")
    /\ (Go(p) /\ UNCHANGED <<addr, open, holder>>) \/ NextAddress(p)
    /\ UNCHANGED <<program, status, internet_socket, client_socket, round,
                   caller, tcpVars, udpVars, filterVars>>

(* s listens at address a, and its queue (of 1) is not full.               *)
Welcomes(s, a) ==
    /\ program[s] = TCPServer
    /\ Working(s) /\ Usable(s)
    /\ holder[a] = s
    /\ Len(backlog[s]) < 1

(* connect(): to the web server, or to whoever listens at the address; or  *)
(* it fails.                                                               *)
Connect(p) ==
    /\ Calls(p, "connect")
    /\ \/ /\ WebClient(p)
          /\ Go(p)
          /\ UNCHANGED <<backlog, addr, open, holder>>
       \/ /\ ~WebClient(p)
          /\ \E s \in Proc :
                /\ Welcomes(s, addr[p])
                /\ backlog' = [backlog EXCEPT ![s] = Append(@, p)]
          /\ Go(p)
          /\ UNCHANGED <<addr, open, holder>>
       \/ NextAddress(p) /\ UNCHANGED backlog
    /\ UNCHANGED <<program, status, internet_socket, client_socket, round,
                   caller, up, down, cut, udpVars, filterVars>>

-----------------------------------------------------------------------------
(* connection(), execution(), cleanup() of the TCP programs                *)

(* accept(); -1 (the client is gone, there is no number, or the socket is  *)
(* none) is exit(3).                                                       *)
Accept(s) ==
    /\ Calls(s, "accept")
    /\ IF ~Usable(s)
       THEN /\ status' = [status EXCEPT ![s] = "exit"]
            /\ UNCHANGED <<at, client_socket, open, holder, caller, backlog,
                           cut>>
       ELSE /\ backlog[s] # << >>
            /\ LET c == Head(backlog[s]) IN
               \/ /\ Number \ open[s] # {}
                  /\ client_socket' = [client_socket EXCEPT ![s] = Free(s)]
                  /\ open' = [open EXCEPT ![s] = @ \cup {Free(s)}]
                  /\ caller' = [caller EXCEPT ![s] = <<c, 0>>]
                  /\ backlog' = [backlog EXCEPT ![s] = Tail(@)]
                  /\ Go(s)
                  /\ UNCHANGED <<status, holder, cut>>
               \/ /\ status[c] # "running" \/ Number \ open[s] = {}
                  /\ status' = [status EXCEPT ![s] = "exit"]
                  /\ open' = [open EXCEPT ![s] = {}]
                  /\ holder' = Released(s)
                  /\ cut' = [d \in Proc |->
                                IF d \in Queued(s) THEN "reset" ELSE cut[d]]
                  /\ backlog' = [backlog EXCEPT ![s] = << >>]
                  /\ UNCHANGED <<at, client_socket, caller>>
    /\ UNCHANGED <<program, addr, internet_socket, round, up, down,
                   udpVars, filterVars>>

(* recv(): what has arrived, or some of it; the end of the connection, an  *)
(* error of it, or the error of a socket that is none.                     *)
Recv(p) ==
    /\ Calls(p, "recv")
    /\ IF Server(p)
       THEN LET c == caller[p][1] IN
            /\ \/ \E n \in 0..(up[c] - 1) : up' = [up EXCEPT ![c] = n]
               \/ status[c] # "running" /\ UNCHANGED up
            /\ UNCHANGED down
       ELSE /\ \/ \E n \in 0..(down[p] - 1) : down' = [down EXCEPT ![p] = n]
               \/ /\ \/ cut[p] = "reset"
                     \/ cut[p] = "fin" /\ down[p] = 0
                     \/ ~Usable(p)
                  /\ UNCHANGED down
            /\ UNCHANGED up
    /\ Go(p)
    /\ UNCHANGED <<program, status, setupVars, client_socket, round, holder,
                   caller, backlog, cut, udpVars, filterVars>>

(* send(): its data travel in one piece or in two; or it fails.            *)
Send(p) ==
    /\ Calls(p, "send")
    /\ IF Server(p)
       THEN LET c == caller[p][1] IN
            /\ IF status[c] = "running"
               THEN \E n \in 1..2 : down' = [down EXCEPT ![c] = n]
               ELSE UNCHANGED down
            /\ UNCHANGED up
       ELSE /\ IF Usable(p) /\ cut[p] = "no"
               THEN \E n \in 1..2 : up' = [up EXCEPT ![p] = n]
               ELSE UNCHANGED up
            /\ UNCHANGED down
    /\ Go(p)
    /\ UNCHANGED <<program, status, setupVars, client_socket, round, holder,
                   caller, backlog, cut, udpVars, filterVars>>

(* executionMsg(): the filter, step by step.                               *)
FilterCall(p) ==
    /\ Calls(p, "filter")
    /\ \/ FilterStep /\ UNCHANGED at
       \/ Filtered /\ Go(p) /\ UNCHANGED filterVars
    /\ UNCHANGED <<program, status, setupVars, client_socket, round, holder,
                   caller, tcpVars, udpVars>>

-----------------------------------------------------------------------------
(* execution() of the UDP programs                                         *)

(* sendto().  A client's datagram reaches whoever holds the address, or is *)
(* lost; when nobody holds it the client may be told.  A server answers    *)
(* the latest sender, if it received anything; an answer to a socket that  *)
(* is closed is thrown away.                                               *)
SendTo(p) ==
    /\ Calls(p, "sendto")
    /\ Go(p)
    /\ IF Server(p)
       THEN LET c == caller[p][1] IN
            /\ \/ /\ c # Nobody
                  /\ Usable(c) /\ round[c] = caller[p][2]
                  /\ \/ /\ replies' = [replies EXCEPT ![c] = @ + 1]
                        /\ UNCHANGED lost
                     \/ lost' = TRUE /\ UNCHANGED replies
               \/ /\ c # Nobody => ~Usable(c) \/ round[c] # caller[p][2]
                  /\ UNCHANGED <<replies, lost>>
            /\ UNCHANGED <<inbox, refused>>
       ELSE /\ LET s == holder[addr[p]] IN
               IF s = Nobody
               THEN /\ refused' \in {refused, refused \cup {p}}
                    /\ UNCHANGED <<inbox, lost>>
               ELSE /\ \/ /\ inbox' = [inbox EXCEPT
                                        ![s] = @ \cup {<<p, round[p]>>}]
                          /\ UNCHANGED lost
                       \/ lost' = TRUE /\ UNCHANGED inbox
                    /\ UNCHANGED refused
            /\ UNCHANGED replies
    /\ UNCHANGED <<program, status, setupVars, client_socket, round, holder,
                   caller, tcpVars, filterVars>>

(* recvfrom(): a datagram that has arrived, in any order; or the error of  *)
(* an unreachable port, or of a socket that is none.                       *)
RecvFrom(p) ==
    /\ Calls(p, "recvfrom")
    /\ Go(p)
    /\ IF Server(p)
       THEN /\ \/ \E d \in inbox[p] :
                     /\ inbox' = [inbox EXCEPT ![p] = @ \ {d}]
                     /\ caller' = [caller EXCEPT ![p] = d]
               \/ ~Usable(p) /\ UNCHANGED <<inbox, caller>>
            /\ UNCHANGED <<replies, refused>>
       ELSE /\ \/ /\ replies[p] > 0
                  /\ replies' = [replies EXCEPT ![p] = @ - 1]
                  /\ UNCHANGED refused
               \/ p \in refused /\ refused' = refused \ {p} /\ UNCHANGED replies
            /\ UNCHANGED <<inbox, caller>>
    /\ UNCHANGED <<program, status, setupVars, client_socket, round, holder,
                   tcpVars, lost, filterVars>>

-----------------------------------------------------------------------------
(* cleanup(): shutdown() and close() of every socket.  A connection closed *)
(* while data are unread is reset.  main() returns, or shows its menu.     *)
Close(p) ==
    /\ Calls(p, "close")
    /\ open' = [open EXCEPT ![p] = @ \ {internet_socket[p], client_socket[p]}]
    /\ holder' = Released(p)
    /\ cut' = [c \in Proc |->
                 IF c \in Queued(p) THEN "reset"
                 ELSE IF program[p] = TCPServer /\ caller[p][1] = c
                      THEN (IF up[c] > 0 THEN "reset" ELSE "fin")
                 ELSE cut[c]]
    /\ backlog' = [backlog EXCEPT ![p] = << >>]
    /\ inbox' = [inbox EXCEPT ![p] = {}]
    /\ replies' = [replies EXCEPT ![p] = 0]
    /\ refused' = refused \ {p}
    /\ IF program[p] = MenuClient
       THEN at' = [at EXCEPT ![p] = 1] /\ UNCHANGED status
       ELSE status' = [status EXCEPT ![p] = "returned"] /\ UNCHANGED at
    /\ UNCHANGED <<program, addr, internet_socket, client_socket, round, caller,
                   up, down, lost, filterVars>>

(* printMenu(): whatever the user enters, a packet is sent.                *)
Menu(p) ==
    /\ Calls(p, "menu")
    /\ round[p] < Rounds
    /\ round' = [round EXCEPT ![p] = @ + 1]
    /\ Go(p)
    /\ UNCHANGED <<program, status, setupVars, client_socket, holder, caller,
                   tcpVars, udpVars, filterVars>>

(* A client that is connected is killed by its user.                       *)
Kill(p) ==
    /\ program[p] = TCPClient
    /\ Working(p)
    /\ status' = [status EXCEPT ![p] = "killed"]
    /\ open' = [open EXCEPT ![p] = {}]
    /\ UNCHANGED <<program, at, addr, internet_socket, client_socket, round,
                   holder, caller, tcpVars, udpVars, filterVars>>

(* The web server answers in one piece or two and closes, or resets.       *)
WebAnswer(p) ==
    /\ WebClient(p)
    /\ up[p] > 0 /\ cut[p] = "no"
    /\ up' = [up EXCEPT ![p] = 0]
    /\ \/ \E n \in 1..2 : down' = [down EXCEPT ![p] = n]
          /\ cut' = [cut EXCEPT ![p] = "fin"]
       \/ cut' = [cut EXCEPT ![p] = "reset"] /\ UNCHANGED down
    /\ UNCHANGED <<program, at, status, setupVars, client_socket, round, holder,
                   caller, backlog, udpVars, filterVars>>

-----------------------------------------------------------------------------
Step(p) ==
    \/ GetAddrInfo(p) \/ Socket(p) \/ Bind(p) \/ Listen(p) \/ Connect(p)
    \/ Accept(p) \/ Recv(p) \/ Send(p) \/ FilterCall(p)
    \/ SendTo(p) \/ RecvFrom(p) \/ Close(p)

Next == \E p \in Proc : Step(p) \/ Menu(p) \/ Kill(p) \/ WebAnswer(p)

(* Programs go on; the web server answers; users need not choose or kill.  *)
Fairness == \A p \in Proc : WF_vars(Step(p)) /\ WF_vars(WebAnswer(p))

Spec == Init /\ [][Next]_vars /\ Fairness

-----------------------------------------------------------------------------
(* However many addresses fail, and at whichever call, the only open       *)
(* sockets of a program are those it still has the numbers of, none is     *)
(* left when it returns or shows its menu again, and a port is held by an  *)
(* open socket of a running server only.                                   *)
NoSocketLeft ==
    /\ \A p \in Proc :
          /\ open[p] \subseteq {internet_socket[p], client_socket[p]}
          /\ status[p] = "returned" \/ at[p] = 1 => open[p] = {}
    /\ \A a \in 1..Addresses : holder[a] # Nobody =>
          LET s == holder[a]
          IN  status[s] = "running" /\ Usable(s) /\ addr[s] = a

(* Every exchange over TCP comes to its end: whoever got past              *)
(* initialization(), be it with a closed socket, or in the queue of a      *)
(* server that serves somebody else and leaves, and a server that has      *)
(* accepted, though its client may have been killed.  Nobody waits for     *)
(* ever for the other side's data.                                         *)
ExchangeEnds ==
    \A p \in Proc :
      (\/ program[p] \in {TCPClient, HttpClient, ChatPost} /\ Working(p)
       \/ program[p] = TCPServer /\ Working(p) /\ client_socket[p] # -1)
        ~> (status[p] # "running")

(* A UDP client that waits, and whose datagram a server has taken, gets an *)
(* answer on the socket it asked from, unless a datagram is lost.          *)
AskerAnswered ==
    \A s, c \in Proc :
      (Server(s) /\ caller[s] = <<c, round[c]>> /\ Calls(c, "recvfrom"))
        ~> (~Calls(c, "recvfrom") \/ lost)
=============================================================================
