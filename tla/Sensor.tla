------------------------------- MODULE Sensor -------------------------------
(***************************************************************************)
(* The UDP programs together: one server, and senders that send and wait   *)
(* the way src/main/UDPclient/UDPclient.c does.  (UDPclient.c is written   *)
(* for port 24042, the server binds 20000: a sender here has the server's  *)
(* port.)                                                                  *)
(***************************************************************************)
EXTENDS UDPServer, UDPClient, Functions

vars == <<netVars, udpServerVars, udpClientVars>>

Init == NetInit /\ UDPServerInit /\ UDPClientInit

PortOpen ==
    internet_socket = "bound" /\ pc \notin {"done", "failed", "killed"}
Closed == {s \in Sender : phase[s] = "closed"}

ServerStep ==
    /\ \/ Initialize \/ Choose \/ SetUp \/ RecvPacket \/ RecvFails
       \/ Confirm(Closed) \/ Report
    /\ UNCHANGED udpClientVars

ServerKilled == Interrupt /\ UNCHANGED udpClientVars

SenderStep(s) ==
    /\ Enter(s) \/ SendPacket(s, PortOpen) \/ GetReply(s)
    /\ UNCHANGED udpServerVars

NetStep == NetNext /\ UNCHANGED <<udpServerVars, udpClientVars>>

Next ==
    ServerStep \/ ServerKilled \/ (\E s \in Sender : SenderStep(s)) \/ NetStep

Spec == Init /\ [][Next]_vars

(* The program goes on once the user has made his choices; recvfrom() hands*)
(* over a datagram that has arrived, whatever errors come between; a sender*)
(* sends what it has announced and takes its confirmation.                 *)
Fairness ==
    /\ WF_vars(pc \notin {"choice", "setup"} /\ ServerStep)
    /\ SF_vars(RecvPacket /\ UNCHANGED udpClientVars)
    /\ \A s \in Sender : WF_vars(phase[s] # "idle" /\ SenderStep(s))

FairSpec == Spec /\ Fairness

-----------------------------------------------------------------------------
(* Every variable keeps its type; in particular no counter goes below 0.   *)
TypeOK == NetTypeOK /\ UDPServerTypeOK /\ UDPClientTypeOK

(* Every round of mode 2 is counted once, as a packet or as a timeout, so  *)
(* that the report's number of received packets, which the code computes   *)
(* from the timeouts, is the number of packets it received.                *)
RoundsCounted ==
    mode = 2 /\ pc # "killed" =>
      /\ numberOfPacketsReceived + packetLossCounterTimeout =
           amountOfPacketsToReceivePrint - amountOfPacketsToReceive
             + (IF pc = "confirm" THEN 1 ELSE 0)
      /\ pc = "done" =>
           packetLossCounterTimeoutPrint = numberOfPacketsReceived

(* The values of field f that packets brought.                             *)
Bringing(f) == {k \in 1..Len(readings) : f \in DOMAIN readings[k]}
Values(f) == {readings[k][f] : k \in Bringing(f)}

(* No value received lies outside the extremes kept for its field.  They   *)
(* are values received themselves, if the first packet brought the field,  *)
(* whatever the packets after it lack: what sscanf leaves in place then is *)
(* such a value again.                                                     *)
ExtremesEnclose ==
    \A f \in Field :
      /\ \A v \in Values(f) : statsMin[f] <= v /\ v <= statsMax[f]
      /\ 1 \in Bringing(f) => {statsMin[f], statsMax[f]} \subseteq Values(f)

(* When the server goes back to waiting, every packet it received has been *)
(* confirmed to the sender it came from, however the senders alternate.    *)
EveryPacketConfirmed ==
    \A s \in Sender :
      owed[s] <= (IF /\ pc \in {"confirm", "killed"}
                     /\ client_internet_address = s
                  THEN 1 ELSE 0)

(* Whatever comes in between, every packet received has a line of its own, *)
(* in the order of receipt: numbered 1, 2, ... in mode 1 and by the rounds *)
(* left in mode 2, where a round without a packet leaves a gap.  When the  *)
(* session is over no line is missing from the file.                       *)
PacketsOnRecord ==
    LET lines == csv \o buffered IN
    /\ pc # "killed" => Len(lines) = numberOfPacketsReceived
    /\ mode = 1 => \A k \in 1..Len(lines) : lines[k] = k
    /\ mode = 2 => \A k \in 1..(Len(lines) - 1) : lines[k] > lines[k + 1]
    /\ pc = "done" => buffered = << >>

(* README.md:18: the CSV of the received stream is created: when the       *)
(* program has ended, by itself or in the way it tells the user to end it, *)
(* the file has a line for each packet.                                    *)
StreamOnRecord ==
    pc \in {"done", "killed"} => Len(csv) = numberOfPacketsReceived

(* README.md:30: a min, a max and an average of the parsed data are kept:  *)
(* when the report is made, the extremes of a field of which values were   *)
(* received are such values, and, if every packet brought the field, what  *)
(* is divided by the number of packets is their sum.                       *)
StatisticsRight ==
    pc = "done" =>
      \A f \in Field : Values(f) # {} =>
        /\ {statsMin[f], statsMax[f]} \subseteq Values(f)
        /\ Bringing(f) = 1..Len(readings) =>
             statsAvg[f] = SumFunction([k \in Bringing(f) |-> readings[k][f]])

(* A session with a timeout, or one on a port that was taken, ends with    *)
(* its report, whatever the senders and the network do, unless the user    *)
(* ends it.                                                                *)
SessionEnds ==
    (pc = "recv" /\ mode = 2 /\ (timeout > 0 \/ internet_socket = "closed"))
      ~> (pc \in {"done", "killed"})

(* While nothing is lost, a sender that waits, and of which a datagram has *)
(* reached the server's port, gets its confirmation, or the session ends.  *)
SenderAnswered ==
    \A s \in Sender :
      (/\ phase[s] = "waiting" /\ pc \in {"recv", "confirm"}
       /\ owed[s] > 0 \/ \E k \in 1..Len(net) : net[k].from = s)
        ~> (phase[s] = "closed" \/ lost \/ pc \in {"done", "killed"})
=============================================================================
