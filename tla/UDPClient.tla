------------------------------ MODULE UDPClient ------------------------------
(***************************************************************************)
(* src/main/UDPclient/UDPclient.c: send one content a number of times,     *)
(* wait for one confirmation, close.                                       *)
(***************************************************************************)
EXTENDS Datagrams

CONSTANT
    Counts      \* what a user may enter as the number of packets to send

ASSUME UDPClientAssumption == Counts \subseteq Nat

VARIABLES
    phase,      \* phase[s]: "idle", "sending", "waiting" or "closed"
    content,    \* content[s]: the reading s sends
    toSend      \* toSend[s]: how often s has still to send it

udpClientVars == <<phase, content, toSend>>

UDPClientInit ==
    /\ phase = [s \in Sender |-> "idle"]
    /\ content = [s \in Sender |-> << >>]
    /\ toSend = [s \in Sender |-> 0]

UDPClientTypeOK ==
    /\ phase \in [Sender -> {"idle", "sending", "waiting", "closed"}]
    /\ content \in [Sender -> Reading]
    /\ toSend \in [Sender -> Nat]

(* The number of packets and the content are entered.  A first packet is   *)
(* sent whatever the number.                                               *)
Enter(s) ==
    /\ phase[s] = "idle"
    /\ \E n \in Counts, reading \in Reading :
          /\ content' = [content EXCEPT ![s] = reading]
          /\ toSend' = [toSend EXCEPT ![s] = IF n > 1 THEN n ELSE 1]
    /\ phase' = [phase EXCEPT ![s] = "sending"]
    /\ UNCHANGED netVars

(* sendto(); after the last packet the client waits.  "open" tells whether *)
(* the server's port is open; if not, the datagram is thrown away, and some*)
(* systems tell the sender's socket.                                       *)
SendPacket(s, open) ==
    /\ phase[s] = "sending"
    /\ \/ /\ open
          /\ Len(net) < MaxNet
          /\ net' = Append(net, [from |-> s, reading |-> content[s]])
          /\ UNCHANGED refused
       \/ /\ ~open
          /\ refused' \in {refused, refused \cup {s}}
          /\ UNCHANGED net
    /\ toSend' = [toSend EXCEPT ![s] = @ - 1]
    /\ phase' = [phase EXCEPT ![s] = IF toSend[s] = 1 THEN "waiting" ELSE @]
    /\ UNCHANGED <<replies, unreachable, lost, doubled, content>>

(* recvfrom() without a timeout: one confirmation or an error, and the     *)
(* socket is closed.  What else was sent to it is thrown away, and some    *)
(* systems tell the server's socket.                                       *)
GetReply(s) ==
    /\ phase[s] = "waiting"
    /\ replies[s] > 0 \/ s \in refused
    /\ replies' = [replies EXCEPT ![s] = 0]
    /\ refused' = refused \ {s}
    /\ unreachable' \in {unreachable, unreachable \/ replies[s] > 1}
    /\ phase' = [phase EXCEPT ![s] = "closed"]
    /\ UNCHANGED <<net, lost, doubled, content, toSend>>
=============================================================================
