------------------------------ MODULE UDPServer ------------------------------
(***************************************************************************)
(* src/main/UDPserver/UDPserver.c: a menu, then a loop of receiving a      *)
(* reading and confirming it, without end (mode 1) or for a number of      *)
(* rounds, each with a timeout (mode 2), after which statistics of the     *)
(* readings are reported.  The fields of a reading are treated alike, so   *)
(* Field may stand for any number of the nine.                             *)
(***************************************************************************)
EXTENDS Datagrams

CONSTANTS
    Amounts,    \* what the user may enter as the number of packets
    Timeouts,   \* the timeouts the user may choose, 0 being "wait for ever"
    Garbage,    \* what an uninitialised double may hold: any number,
                \*    infinities (beyond Lowest and Highest) and NaN
    NaN,        \* the double that is not a number
    Lowest,     \* -DBL_MAX
    Highest,    \* DBL_MAX
    NoSender,   \* the client address before the first packet
    BufferLines \* lines of receivedPackets.csv that stdio holds back

ASSUME UDPServerAssumption ==
    /\ Amounts \subseteq Nat
    /\ Timeouts \subseteq Nat
    /\ NaN \notin Int
    /\ Garbage \subseteq Int \cup {NaN}
    /\ Lowest \in Int /\ Highest \in Int
    /\ \A v \in Value : Lowest <= v /\ v <= Highest
    /\ NoSender \notin Sender
    /\ BufferLines \in Nat \ {0}

VARIABLES
    pc,                         \* "initialization", "choice", "setup",
                                \*    "recv", "confirm", "report", "done",
                                \*    "failed" or "killed"
    internet_socket,            \* "none", "bound" or "closed"
    mode,                       \* userChoice: 1, 2, or 0 before the choice
    timeout,                    \* SO_RCVTIMEO, 0 being none
    amountOfPacketsToReceivePrint, amountOfPacketsToReceive,
    numberOfPacketsReceived, packetLossCounterTimeout,
    packetLossCounterTimeoutPrint,      \* the number reported as received
    client_internet_address,    \* the sender of the latest packet
    stats,                      \* stats[f]: field f of the latest reading
    statsMax, statsMin,         \* ... its extremes
    statsAvg,                   \* ... its sum, divided when it is reported
    csv, buffered,              \* receivedPackets.csv: the numbers on the
                                \*    lines in the file, and on those that
                                \*    are still in the buffer of stdio
    readings, owed              \* history variables, which no guard reads:
                                \*    the readings received in mode 2, and
                                \*    the packets of each sender that are
                                \*    received, not confirmed

counters == <<amountOfPacketsToReceivePrint, amountOfPacketsToReceive,
              numberOfPacketsReceived, packetLossCounterTimeout,
              packetLossCounterTimeoutPrint>>
statistics == <<stats, statsMax, statsMin, statsAvg, readings>>
file == <<csv, buffered>>
udpServerVars == <<pc, internet_socket, mode, timeout, counters,
                   client_internet_address, statistics, file, owed>>

UDPServerInit ==
    /\ pc = "initialization"
    /\ internet_socket = "none"
    /\ mode = 0
    /\ timeout = 0
    /\ amountOfPacketsToReceivePrint = 0
    /\ amountOfPacketsToReceive = 0
    /\ numberOfPacketsReceived = 0
    /\ packetLossCounterTimeout = 0
    /\ packetLossCounterTimeoutPrint = 0
    /\ client_internet_address = NoSender
    /\ stats = [f \in Field |-> 0]
    /\ statsMax = [f \in Field |-> Lowest]
    /\ statsMin = [f \in Field |-> Highest]
    /\ statsAvg = [f \in Field |-> 0]
    /\ csv = << >> /\ buffered = << >>
    /\ readings = << >>
    /\ owed = [s \in Sender |-> 0]

UDPServerTypeOK ==
    /\ pc \in {"initialization", "choice", "setup", "recv", "confirm",
              "report", "done", "failed", "killed"}
    /\ internet_socket \in {"none", "bound", "closed"}
    /\ mode \in 0..2
    /\ timeout \in Nat
    /\ amountOfPacketsToReceivePrint \in Nat
    /\ amountOfPacketsToReceive \in Nat
    /\ numberOfPacketsReceived \in Nat
    /\ packetLossCounterTimeout \in Nat
    /\ packetLossCounterTimeoutPrint \in Nat
    /\ client_internet_address \in Sender \cup {NoSender}
    /\ stats \in [Field -> Int \cup {NaN}]
    /\ statsMax \in [Field -> Int]
    /\ statsMin \in [Field -> Int]
    /\ statsAvg \in [Field -> Int \cup {NaN}]
    /\ csv \in Seq(Nat) /\ buffered \in Seq(Nat)
    /\ readings \in Seq(Reading)
    /\ owed \in [Sender -> Nat]

-----------------------------------------------------------------------------
(* exit(-1): the port is closed, and what was on its way is thrown away.   *)
Exit ==
    /\ pc' = "failed"
    /\ net' = << >>
    /\ UNCHANGED <<replies, unreachable, refused, lost, doubled>>

(* initialization(): a socket whose bind() failed is closed, and when it   *)
(* was the last one its number is used all the same.  exit(1), exit(2).    *)
Initialize ==
    /\ pc = "initialization"
    /\ \/ /\ internet_socket' \in {"bound", "closed"}
          /\ pc' = "choice"
          /\ UNCHANGED netVars
       \/ Exit /\ UNCHANGED internet_socket
    /\ UNCHANGED <<mode, timeout, counters, client_internet_address,
                   statistics, file, owed>>

(* The first menu: 1, 2, or exit(-1).                                      *)
Choose ==
    /\ pc = "choice"
    /\ \/ mode' = 1 /\ pc' = "recv" /\ UNCHANGED netVars
       \/ mode' = 2 /\ pc' = "setup" /\ UNCHANGED netVars
       \/ mode' = 0 /\ Exit
    /\ UNCHANGED <<internet_socket, timeout, counters,
                   client_internet_address, statistics, file, owed>>

(* The second menu, the number of packets, setsockopt(), whose failure is  *)
(* only reported; a wrong choice ends the program.  The arrays stats* and  *)
(* stats*Avg hold what the stack held before.                              *)
SetUp ==
    /\ pc = "setup"
    /\ \/ \E n \in Amounts, t \in Timeouts, old, sum \in [Field -> Garbage] :
             /\ amountOfPacketsToReceive' = n
             /\ amountOfPacketsToReceivePrint' = n
             /\ timeout' \in {t, 0}
             /\ stats' = old
             /\ statsAvg' = sum
             /\ pc' = IF n = 0 THEN "report" ELSE "recv"
             /\ UNCHANGED netVars
       \/ /\ Exit
          /\ UNCHANGED <<amountOfPacketsToReceive,
                         amountOfPacketsToReceivePrint, timeout, stats, statsAvg>>
    /\ UNCHANGED <<internet_socket, mode, numberOfPacketsReceived, file,
                   packetLossCounterTimeout, packetLossCounterTimeoutPrint,
                   client_internet_address, statsMax, statsMin, readings, owed>>

(* Mutant: the fields are cleared before sscanf().                         *)
ParsedZero(reading) ==
    [f \in Field |-> IF f \in DOMAIN reading THEN reading[f] ELSE 0]

(* sscanf(): the fields it converts; the others keep their former value.   *)
Parsed(reading) ==
    [f \in Field |-> IF f \in DOMAIN reading THEN reading[f] ELSE stats[f]]

(* Comparisons with NaN are false, sums with it are NaN.                   *)
Larger(v, f)  == IF v # NaN /\ v > statsMax[f] THEN v ELSE statsMax[f]
Smaller(v, f) == IF v # NaN /\ v < statsMin[f] THEN v ELSE statsMin[f]
Plus(a, b) == IF NaN \in {a, b} THEN NaN ELSE a + b

(* Mutant: the confirmations go to the first sender for ever.              *)
AddressFirst(s) ==
    IF client_internet_address = NoSender THEN s ELSE client_internet_address

(* recvfrom() stores the sender's address.                                 *)
Address(s) == s

(* Mutant: numbered with the amount that is kept for the report.           *)
LineNumberPrint ==
    IF mode = 1 THEN numberOfPacketsReceived + 1
    ELSE amountOfPacketsToReceivePrint

(* The number a packet gets on its line: mode 1 counts up, mode 2 down.    *)
LineNumber ==
    IF mode = 1 THEN numberOfPacketsReceived + 1 ELSE amountOfPacketsToReceive

(* fprintf(OUTPUTFILE, ...): the line waits in the buffer of stdio, which  *)
(* is written to the file when it is full.  Nothing else flushes it.       *)
SaveLine ==
    IF Len(buffered) < BufferLines
    THEN buffered' = Append(buffered, LineNumber) /\ UNCHANGED csv
    ELSE buffered' = <<LineNumber>> /\ csv' = csv \o buffered

(* recvfrom() returns a datagram, in any order of sending.  Mode 2 parses  *)
(* it and updates the statistics.                                          *)
RecvPacket ==
    /\ pc = "recv"
    /\ \E k \in 1..Len(net) :
          /\ net' = Without(net, k)
          /\ client_internet_address' = Address(net[k].from)
          /\ owed' = [owed EXCEPT ![net[k].from] = @ + 1]
          /\ IF mode = 2
             THEN LET new == Parsed(net[k].reading) IN
                  /\ stats' = new
                  /\ statsMax' = [f \in Field |-> Larger(new[f], f)]
                  /\ statsMin' = [f \in Field |-> Smaller(new[f], f)]
                  /\ statsAvg' = [f \in Field |-> Plus(statsAvg[f], new[f])]
                  /\ readings' = Append(readings, net[k].reading)
             ELSE UNCHANGED statistics
    /\ numberOfPacketsReceived' = numberOfPacketsReceived + 1
    /\ SaveLine
    /\ pc' = "confirm"
    /\ UNCHANGED <<replies, unreachable, refused, lost, doubled,
                   internet_socket, mode, timeout,
                   amountOfPacketsToReceive, amountOfPacketsToReceivePrint,
                   packetLossCounterTimeout, packetLossCounterTimeoutPrint>>

(* Mutant: after an error the loop starts again.                           *)
RecvFailsAgain ==
    /\ pc = "recv"
    /\ timeout > 0 \/ unreachable \/ internet_socket = "closed"
    /\ unreachable' \in {FALSE, unreachable}
    /\ UNCHANGED <<net, replies, refused, lost, doubled, udpServerVars>>

(* recvfrom() fails: the timeout has passed, an earlier confirmation found *)
(* its receiver's port closed, or the server's own socket is closed.  Mode *)
(* 2 counts each as a timeout.                                             *)
RecvFails ==
    /\ pc = "recv"
    /\ \/ timeout > 0 /\ UNCHANGED unreachable
       \/ unreachable /\ unreachable' = FALSE
       \/ internet_socket = "closed" /\ UNCHANGED unreachable
    /\ packetLossCounterTimeout' =
          packetLossCounterTimeout + IF mode = 2 THEN 1 ELSE 0
    /\ pc' = "confirm"
    /\ UNCHANGED <<net, replies, refused, lost, doubled, internet_socket, mode,
                   timeout, amountOfPacketsToReceive,
                   amountOfPacketsToReceivePrint, numberOfPacketsReceived,
                   packetLossCounterTimeoutPrint, client_internet_address,
                   statistics, file, owed>>

(* Mutant: a round without a packet is taken off twice.                    *)
OneRoundLessTwice ==
    amountOfPacketsToReceive - (IF packetLossCounterTimeout > 0 THEN 2 ELSE 1)

(* The round is taken off those that are left.                             *)
OneRoundLess == amountOfPacketsToReceive - 1

(* sendto() to the sender of the latest packet, also when nothing came.    *)
(* Before the first packet there is no address, and it fails; if the       *)
(* receiver's socket is among those "closed", some systems tell the        *)
(* server's socket.  Then one round less is left in mode 2.                *)
Confirm(closed) ==
    /\ pc = "confirm"
    /\ LET s == client_internet_address IN
       \/ s = NoSender /\ UNCHANGED <<replies, unreachable, owed>>
       \/ /\ s \in Sender
          /\ owed' = [owed EXCEPT ![s] = IF @ > 0 THEN @ - 1 ELSE 0]
          /\ IF s \in closed
             THEN unreachable' \in {unreachable, TRUE} /\ UNCHANGED replies
             ELSE /\ replies' = [replies EXCEPT ![s] = @ + 1]
                  /\ UNCHANGED unreachable
    /\ \/ mode = 1 /\ pc' = "recv" /\ UNCHANGED amountOfPacketsToReceive
       \/ /\ mode = 2
          /\ amountOfPacketsToReceive' = OneRoundLess
          /\ pc' = IF OneRoundLess = 0 THEN "report" ELSE "recv"
    /\ UNCHANGED <<net, refused, lost, doubled, internet_socket, mode, timeout,
                   amountOfPacketsToReceivePrint, numberOfPacketsReceived,
                   packetLossCounterTimeout, packetLossCounterTimeoutPrint,
                   client_internet_address, statistics, file>>

(* Mutant: the number of lost packets is reported as that of received ones.*)
ReceivedSwapped == packetLossCounterTimeout

(* The number of packets reported as received.                             *)
ReceivedReported == amountOfPacketsToReceivePrint - packetLossCounterTimeout

(* The averages, the losses, the report, and the end of the program, which *)
(* writes out the buffers.  (The divisions by the number of packets are    *)
(* left to the properties.)                                                *)
Report ==
    /\ pc = "report"
    /\ packetLossCounterTimeoutPrint' = ReceivedReported
    /\ pc' = "done"
    /\ net' = << >>
    /\ csv' = csv \o buffered /\ buffered' = << >>
    /\ UNCHANGED <<replies, unreachable, refused, lost, doubled,
                   internet_socket, mode, timeout,
                   amountOfPacketsToReceive, amountOfPacketsToReceivePrint,
                   numberOfPacketsReceived, packetLossCounterTimeout,
                   client_internet_address, statistics, owed>>

(* Ctrl+c, the only way out of mode 1: what stdio holds back is lost.      *)
Interrupt ==
    /\ pc \in {"recv", "confirm"}
    /\ pc' = "killed"
    /\ buffered' = << >>
    /\ net' = << >>
    /\ UNCHANGED <<replies, unreachable, refused, lost, doubled,
                   internet_socket, mode, timeout, counters,
                   client_internet_address, statistics, csv, owed>>
=============================================================================
