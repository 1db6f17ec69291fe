------------------------------ MODULE Datagrams ------------------------------
(***************************************************************************)
(* EXTERNAL.  What the network and the operating system do for the UDP     *)
(* programs: datagrams on their way to the server, which may overtake each *)
(* other, be lost or be duplicated, and confirmations on their way back.   *)
(* A datagram is a reading: the values that sscanf can convert of its      *)
(* text, which may stop before the last field.                             *)
(***************************************************************************)
EXTENDS Naturals, Sequences, FiniteSets, Integers

CONSTANTS
    Sender,     \* runs of the client program, or phones
    Field,      \* the fields of a reading that the server uses: 1..n
    Value,      \* the values in a field
    MaxNet,     \* BOUND: datagrams on their way at a time
    MaxDoubled, \* BOUND: datagrams that the network delivers twice
    Loss        \* TRUE: datagrams and confirmations may be lost

ASSUME DatagramsAssumption ==
    /\ Field \in {1..n : n \in 1..9}
    /\ Value \subseteq Int
    /\ MaxNet \in Nat \ {0}
    /\ MaxDoubled \in Nat
    /\ Loss \in BOOLEAN

VARIABLES
    net,            \* datagrams on their way to the server
    replies,        \* replies[s]: confirmations on their way to s
    unreachable,    \* "port unreachable" came back to the server's socket
    refused,        \* ... and to the sockets of these senders
    lost, doubled   \* something was lost; how much was delivered twice

netVars == <<net, replies, unreachable, refused, lost, doubled>>

Reading == UNION {[1..n -> Value] : n \in {0} \cup Field}
Datagram == [from : Sender, reading : Reading]

NetInit ==
    /\ net = << >>
    /\ replies = [s \in Sender |-> 0]
    /\ unreachable = FALSE
    /\ refused = {}
    /\ lost = FALSE
    /\ doubled = 0

NetTypeOK ==
    /\ net \in Seq(Datagram)
    /\ replies \in [Sender -> Nat]
    /\ unreachable \in BOOLEAN
    /\ refused \subseteq Sender
    /\ lost \in BOOLEAN
    /\ doubled \in Nat

(* s without its element at k.                                             *)
Without(s, k) == SubSeq(s, 1, k - 1) \o SubSeq(s, k + 1, Len(s))

LoseDatagram ==
    /\ Loss
    /\ \E k \in 1..Len(net) : net' = Without(net, k)
    /\ lost' = TRUE
    /\ UNCHANGED <<replies, unreachable, refused, doubled>>

DoubleDatagram ==
    /\ doubled < MaxDoubled
    /\ Len(net) < MaxNet
    /\ \E k \in 1..Len(net) : net' = Append(net, net[k])
    /\ doubled' = doubled + 1
    /\ UNCHANGED <<replies, unreachable, refused, lost>>

LoseReply ==
    /\ Loss
    /\ \E s \in Sender :
          /\ replies[s] > 0
          /\ replies' = [replies EXCEPT ![s] = @ - 1]
    /\ lost' = TRUE
    /\ UNCHANGED <<net, unreachable, refused, doubled>>

NetNext == LoseDatagram \/ DoubleDatagram \/ LoseReply
=============================================================================
