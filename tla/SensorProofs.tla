---------------------------- MODULE SensorProofs ----------------------------
(***************************************************************************)
(* What holds of the UDP server with any number of senders, whatever the   *)
(* network loses, repeats and reorders, for every value of the constants.  *)
(***************************************************************************)
EXTENDS Sensor, SequenceTheorems, TLAPS

(* Fields are numbers, so that a reading is a sequence of values.          *)
LEMMA FieldsAreNumbers == \E n \in 1..9 : Field = 1..n
BY DatagramsAssumption DEF DatagramsAssumption

(* Taking one element out of a sequence leaves a sequence.                 *)
LEMMA WithoutType ==
    ASSUME NEW S, NEW s \in Seq(S), NEW k \in 1..Len(s)
    PROVE  Without(s, k) \in Seq(S)
<1>1. SubSeq(s, 1, k - 1) \in Seq(S)
  OBVIOUS
<1>2. SubSeq(s, k + 1, Len(s)) \in Seq(S)
  OBVIOUS
<1> QED BY <1>1, <1>2 DEF Without

(* What sscanf leaves in the fields are values of the packet or of before. *)
LEMMA ParsedType ==
    ASSUME NEW V, Value \subseteq V, stats \in [Field -> V],
           NEW reading \in Reading
    PROVE  Parsed(reading) \in [Field -> V]
<1>1. \A f \in Field : f \in DOMAIN reading => reading[f] \in Value
  BY FieldsAreNumbers DEF Reading
<1> QED BY <1>1 DEF Parsed

-----------------------------------------------------------------------------
(* Nothing is a reading too: no field of the text could be converted.      *)
LEMMA EmptyReading == << >> \in Reading
<1> DEFINE Sizes == {[1..n -> Value] : n \in {0} \cup Field}
<1>1. [1..0 -> Value] \in Sizes
  OBVIOUS
<1>2. << >> \in [1..0 -> Value]
  OBVIOUS
<1> QED BY <1>1, <1>2 DEF Reading

-----------------------------------------------------------------------------
(* A sender that is sending has something left to send.                    *)
Sending == \A s \in Sender : phase[s] = "sending" => toSend[s] >= 1

(* Nothing is counted before the user has made his choices, there is a     *)
(* round left while the server is in the loop, and none after it.          *)
Rounds ==
    /\ pc \in {"initialization", "choice", "setup"} =>
         /\ amountOfPacketsToReceivePrint = 0 /\ amountOfPacketsToReceive = 0
         /\ numberOfPacketsReceived = 0 /\ packetLossCounterTimeout = 0
    /\ pc = "setup" => mode = 2
    /\ pc \in {"recv", "confirm"} =>
         mode \in {1, 2} /\ (mode = 2 => amountOfPacketsToReceive >= 1)
    /\ pc \in {"report", "done"} => mode = 2 /\ amountOfPacketsToReceive = 0

(* The inductive invariant: types, and what the counters amount to.        *)
IInv == TypeOK /\ Sending /\ Rounds /\ RoundsCounted

LEMMA InitIInv == Init => IInv
<1> SUFFICES ASSUME Init PROVE IInv
  OBVIOUS
<1>1. NetTypeOK
  <2>1. << >> \in Seq(Datagram)
    OBVIOUS
  <2>2. lost = FALSE => lost \in BOOLEAN
    OBVIOUS
  <2>3. unreachable = FALSE => unreachable \in BOOLEAN
    OBVIOUS
  <2> QED BY <2>1, <2>2, <2>3 DEF Init, NetInit, NetTypeOK
<1>2. UDPServerTypeOK
  BY UDPServerAssumption
     DEF Init, UDPServerInit, UDPServerTypeOK, UDPServerAssumption
<1>3. UDPClientTypeOK
  BY EmptyReading DEF Init, UDPClientInit, UDPClientTypeOK
<1>4. Sending /\ Rounds /\ RoundsCounted
  BY DEF Init, UDPServerInit, UDPClientInit, Sending, Rounds, RoundsCounted
<1> QED BY <1>1, <1>2, <1>3, <1>4 DEF IInv, TypeOK

(* What happens outside the server leaves the server's part alone.         *)
LEMMA OutsideServer ==
    ASSUME IInv, UNCHANGED udpServerVars
    PROVE  UDPServerTypeOK' /\ Rounds' /\ RoundsCounted'
BY DEF udpServerVars, counters, statistics, file, IInv, TypeOK, UDPServerTypeOK,
       Rounds, RoundsCounted

LEMMA NetIInv ==
    ASSUME IInv, NetStep PROVE IInv'
<1> USE DEF IInv, TypeOK
<1>1. UDPServerTypeOK' /\ Rounds' /\ RoundsCounted'
  BY OutsideServer DEF NetStep
<1>2. UDPClientTypeOK' /\ Sending'
  BY DEF NetStep, udpClientVars, UDPClientTypeOK, Sending
<1>3. CASE LoseDatagram
  BY <1>1, <1>2, <1>3, WithoutType DEF LoseDatagram, NetTypeOK
<1>4. CASE DoubleDatagram
  BY <1>1, <1>2, <1>4 DEF DoubleDatagram, NetTypeOK
<1>5. CASE LoseReply
  BY <1>1, <1>2, <1>5 DEF LoseReply, NetTypeOK
<1> QED BY <1>3, <1>4, <1>5 DEF NetStep, NetNext

LEMMA SenderIInv ==
    ASSUME IInv, NEW s \in Sender, SenderStep(s) PROVE IInv'
<1> USE DEF IInv, TypeOK
<1>1. UDPServerTypeOK' /\ Rounds' /\ RoundsCounted'
  BY OutsideServer DEF SenderStep
<1>2. CASE Enter(s)
  BY <1>1, <1>2, UDPClientAssumption
     DEF UDPClientAssumption, Enter, netVars, NetTypeOK, UDPClientTypeOK,
         Sending
<1>3. CASE SendPacket(s, PortOpen)
  <2>1. [from |-> s, reading |-> content[s]] \in Datagram
    BY DEF UDPClientTypeOK, Datagram
  <2>2. net' \in Seq(Datagram)
    BY <1>3, <2>1 DEF SendPacket, NetTypeOK
  <2>3. NetTypeOK'
    <3>1. refused' \subseteq Sender
      BY <1>3 DEF SendPacket, NetTypeOK
    <3> QED BY <1>3, <2>2, <3>1 DEF SendPacket, NetTypeOK
  <2>4. UDPClientTypeOK'
    BY <1>3 DEF SendPacket, UDPClientTypeOK, Sending
  <2>5. Sending'
    BY <1>3 DEF SendPacket, UDPClientTypeOK, Sending
  <2> QED BY <1>1, <2>3, <2>4, <2>5
<1>4. CASE GetReply(s)
  <2>1. NetTypeOK'
    BY <1>4 DEF GetReply, NetTypeOK
  <2> QED BY <1>1, <1>4, <2>1 DEF GetReply, UDPClientTypeOK, Sending
<1> QED BY <1>2, <1>3, <1>4 DEF SenderStep

(* A step of the server leaves the senders' part alone.                    *)
LEMMA OutsideSenders ==
    ASSUME IInv, UNCHANGED udpClientVars
    PROVE  UDPClientTypeOK' /\ Sending'
BY DEF udpClientVars, IInv, TypeOK, UDPClientTypeOK, Sending

(* The network keeps its types while nothing happens to it, and when the   *)
(* server ends.                                                            *)
LEMMA NetUntouched ==
    ASSUME IInv, UNCHANGED netVars \/ Exit PROVE NetTypeOK'
<1>1. CASE UNCHANGED netVars
  BY <1>1 DEF netVars, NetTypeOK, IInv, TypeOK
<1>2. CASE Exit
  <2>1. << >> \in Seq(Datagram)
    OBVIOUS
  <2> QED BY <1>2, <2>1 DEF Exit, NetTypeOK, IInv, TypeOK
<1> QED BY <1>1, <1>2

LEMMA InitializeIInv ==
    ASSUME IInv, Initialize, UNCHANGED udpClientVars PROVE IInv'
<1> USE DEF IInv, TypeOK
<1>1. UDPClientTypeOK' /\ Sending'
  BY OutsideSenders
<1>2. NetTypeOK'
  BY NetUntouched DEF Initialize
<1>3. UDPServerTypeOK'
  BY DEF Initialize, Exit, counters, statistics, file, UDPServerTypeOK
<1>4. Rounds' /\ RoundsCounted'
  BY DEF Initialize, Exit, counters, UDPServerTypeOK, Rounds, RoundsCounted
<1> QED BY <1>1, <1>2, <1>3, <1>4

LEMMA ChooseIInv ==
    ASSUME IInv, Choose, UNCHANGED udpClientVars PROVE IInv'
<1> USE DEF IInv, TypeOK
<1>1. UDPClientTypeOK' /\ Sending'
  BY OutsideSenders
<1>2. NetTypeOK'
  BY NetUntouched DEF Choose
<1>3. UDPServerTypeOK'
  BY DEF Choose, Exit, counters, statistics, file, UDPServerTypeOK
<1>4. Rounds' /\ RoundsCounted'
  BY DEF Choose, Exit, counters, UDPServerTypeOK, Rounds, RoundsCounted
<1> QED BY <1>1, <1>2, <1>3, <1>4

LEMMA SetUpIInv ==
    ASSUME IInv, SetUp, UNCHANGED udpClientVars PROVE IInv'
<1> USE DEF IInv, TypeOK
<1>1. UDPClientTypeOK' /\ Sending'
  BY OutsideSenders
<1>2. NetTypeOK'
  BY NetUntouched DEF SetUp
<1>3. UDPServerTypeOK'
  <2>1. timeout' \in Nat
    BY UDPServerAssumption
       DEF UDPServerAssumption, SetUp, UDPServerTypeOK
  <2>2. stats' \in [Field -> Int \cup {NaN}] /\ statsAvg' \in [Field -> Int \cup {NaN}]
    BY UDPServerAssumption
       DEF UDPServerAssumption, SetUp, UDPServerTypeOK
  <2>3. /\ amountOfPacketsToReceive' \in Nat
        /\ amountOfPacketsToReceivePrint' \in Nat
    BY UDPServerAssumption
       DEF UDPServerAssumption, SetUp, UDPServerTypeOK
  <2>4. pc' \in {"report", "recv", "failed"}
    BY DEF SetUp, Exit
  <2> QED BY <2>1, <2>2, <2>3, <2>4 DEF SetUp, file, UDPServerTypeOK
<1>4. Rounds' /\ RoundsCounted'
  BY UDPServerAssumption
     DEF UDPServerAssumption, SetUp, Exit, UDPServerTypeOK, Rounds,
         RoundsCounted
<1> QED BY <1>1, <1>2, <1>3, <1>4

(* Lines are numbered with numbers, in the file and in the buffer.         *)
LEMMA SaveLineType ==
    ASSUME IInv, SaveLine
    PROVE  csv' \in Seq(Nat) /\ buffered' \in Seq(Nat)
<1>1. LineNumber \in Nat
  BY DEF LineNumber, IInv, TypeOK, UDPServerTypeOK
<1>2. csv \in Seq(Nat) /\ buffered \in Seq(Nat)
  BY DEF IInv, TypeOK, UDPServerTypeOK
<1>3. /\ Append(buffered, LineNumber) \in Seq(Nat)
      /\ <<LineNumber>> \in Seq(Nat)
      /\ csv \o buffered \in Seq(Nat)
  BY <1>1, <1>2
<1> QED BY <1>2, <1>3 DEF SaveLine

LEMMA RecvPacketIInv ==
    ASSUME IInv, RecvPacket, UNCHANGED udpClientVars PROVE IInv'
<1> USE DEF IInv, TypeOK
<1>1. UDPClientTypeOK' /\ Sending'
  BY OutsideSenders
<1>2. PICK k \in 1..Len(net) :
          /\ net' = Without(net, k)
          /\ client_internet_address' = Address(net[k].from)
          /\ owed' = [owed EXCEPT ![net[k].from] = @ + 1]
          /\ IF mode = 2
             THEN LET new == Parsed(net[k].reading) IN
                  /\ stats' = new
                  /\ statsMax' = [f \in Field |-> Larger(new[f], f)]
                  /\ statsMin' = [f \in Field |-> Smaller(new[f], f)]
                  /\ statsAvg' = [f \in Field |-> Plus(statsAvg[f], new[f])]
                  /\ readings' = Append(readings, net[k].reading)
             ELSE UNCHANGED statistics
  BY DEF RecvPacket
<1>3. net[k] \in Datagram
  BY DEF NetTypeOK
<1>4. NetTypeOK'
  BY <1>2, WithoutType DEF RecvPacket, NetTypeOK
<1>5. Parsed(net[k].reading) \in [Field -> Int \cup {NaN}]
  BY <1>3, ParsedType, DatagramsAssumption
     DEF DatagramsAssumption, UDPServerTypeOK, Datagram
<1>6. /\ stats' \in [Field -> Int \cup {NaN}]
      /\ statsAvg' \in [Field -> Int \cup {NaN}]
      /\ statsMax' \in [Field -> Int] /\ statsMin' \in [Field -> Int]
      /\ readings' \in Seq(Reading)
  <2>1. CASE mode = 2
    <3> DEFINE new == Parsed(net[k].reading)
    <3>1. \A f \in Field : /\ new[f] \in Int \cup {NaN}
                          /\ Plus(statsAvg[f], new[f]) \in Int \cup {NaN}
                          /\ Larger(new[f], f) \in Int
                          /\ Smaller(new[f], f) \in Int
      <4> SUFFICES ASSUME NEW f \in Field
                   PROVE  /\ new[f] \in Int \cup {NaN}
                          /\ Plus(statsAvg[f], new[f]) \in Int \cup {NaN}
                          /\ Larger(new[f], f) \in Int
                          /\ Smaller(new[f], f) \in Int
        OBVIOUS
      <4>1. new[f] \in Int \cup {NaN} /\ statsAvg[f] \in Int \cup {NaN}
        BY <1>5 DEF UDPServerTypeOK
      <4>2. statsMax[f] \in Int /\ statsMin[f] \in Int
        BY DEF UDPServerTypeOK
      <4> HIDE DEF new
      <4>3. Plus(statsAvg[f], new[f]) \in Int \cup {NaN}
        BY <4>1 DEF Plus
      <4> QED BY <4>1, <4>2, <4>3 DEF Larger, Smaller
    <3>2. Append(readings, net[k].reading) \in Seq(Reading)
      BY <1>3 DEF UDPServerTypeOK, Datagram
    <3>3. /\ stats' = new
          /\ statsMax' = [f \in Field |-> Larger(new[f], f)]
          /\ statsMin' = [f \in Field |-> Smaller(new[f], f)]
          /\ statsAvg' = [f \in Field |-> Plus(statsAvg[f], new[f])]
          /\ readings' = Append(readings, net[k].reading)
      BY <2>1, <1>2
    <3> HIDE DEF new
    <3> QED BY <3>1, <3>2, <3>3, <1>5 DEF new
  <2>2. CASE mode # 2
    BY <2>2, <1>2 DEF UDPServerTypeOK, statistics
  <2> QED BY <2>1, <2>2
<1>7. UDPServerTypeOK'
  <2>1. csv' \in Seq(Nat) /\ buffered' \in Seq(Nat)
    BY SaveLineType DEF RecvPacket
  <2> QED BY <1>2, <1>3, <1>6, <2>1
          DEF RecvPacket, UDPServerTypeOK, Address, Datagram
<1>8. Rounds' /\ RoundsCounted'
  BY DEF RecvPacket, UDPServerTypeOK, Rounds, RoundsCounted
<1> QED BY <1>1, <1>4, <1>7, <1>8

LEMMA RecvFailsIInv ==
    ASSUME IInv, RecvFails, UNCHANGED udpClientVars PROVE IInv'
<1> USE DEF IInv, TypeOK
<1>1. UDPClientTypeOK' /\ Sending'
  BY OutsideSenders
<1>2. NetTypeOK'
  BY DEF RecvFails, NetTypeOK
<1>3. UDPServerTypeOK'
  BY DEF RecvFails, statistics, file, UDPServerTypeOK
<1>4. Rounds' /\ RoundsCounted'
  BY DEF RecvFails, UDPServerTypeOK, Rounds, RoundsCounted
<1> QED BY <1>1, <1>2, <1>3, <1>4

LEMMA ConfirmIInv ==
    ASSUME IInv, Confirm(Closed), UNCHANGED udpClientVars PROVE IInv'
<1> USE DEF IInv, TypeOK
<1>1. UDPClientTypeOK' /\ Sending'
  BY OutsideSenders
<1>2. NetTypeOK'
  <2>1. replies' \in [Sender -> Nat]
    <3>1. \/ replies' = replies
          \/ \E c \in Sender : replies' = [replies EXCEPT ![c] = @ + 1]
      BY DEF Confirm
    <3> QED BY <3>1 DEF NetTypeOK
  <2>2. unreachable' \in BOOLEAN
    BY DEF Confirm, NetTypeOK
  <2> QED BY <2>1, <2>2 DEF Confirm, NetTypeOK
<1>3. UDPServerTypeOK'
  <2>1. owed' \in [Sender -> Nat]
    <3>1. \/ owed' = owed
          \/ \E c \in Sender :
                owed' = [owed EXCEPT ![c] = IF @ > 0 THEN @ - 1 ELSE 0]
      BY DEF Confirm
    <3>2. \A c \in Sender : (IF owed[c] > 0 THEN owed[c] - 1 ELSE 0) \in Nat
      BY DEF UDPServerTypeOK
    <3>3. owed \in [Sender -> Nat]
      BY DEF UDPServerTypeOK
    <3> QED BY <3>1, <3>2, <3>3
  <2>2. amountOfPacketsToReceive' \in Nat
    BY DEF Confirm, UDPServerTypeOK, Rounds, OneRoundLess
  <2> QED BY <2>1, <2>2 DEF Confirm, statistics, file, UDPServerTypeOK
<1>4. Rounds' /\ RoundsCounted'
  <2>1. CASE mode = 1 /\ pc' = "recv" /\ UNCHANGED amountOfPacketsToReceive
    BY <2>1 DEF Confirm, Rounds, RoundsCounted
  <2>2. CASE /\ mode = 2
             /\ amountOfPacketsToReceive' = OneRoundLess
             /\ pc' = IF OneRoundLess = 0 THEN "report" ELSE "recv"
    BY <2>2 DEF Confirm, OneRoundLess, UDPServerTypeOK, Rounds, RoundsCounted
  <2> QED BY <2>1, <2>2 DEF Confirm
<1> QED BY <1>1, <1>2, <1>3, <1>4

LEMMA ReportIInv ==
    ASSUME IInv, Report, UNCHANGED udpClientVars PROVE IInv'
<1> USE DEF IInv, TypeOK
<1>1. UDPClientTypeOK' /\ Sending'
  BY OutsideSenders
<1>2. NetTypeOK'
  BY DEF Report, NetTypeOK
<1>3. ReceivedReported = numberOfPacketsReceived
  BY DEF Report, ReceivedReported, UDPServerTypeOK, Rounds, RoundsCounted
<1>4. UDPServerTypeOK'
  BY <1>3 DEF Report, statistics, UDPServerTypeOK
<1>5. Rounds' /\ RoundsCounted'
  BY <1>3 DEF Report, UDPServerTypeOK, Rounds, RoundsCounted
<1> QED BY <1>1, <1>2, <1>4, <1>5

LEMMA KilledIInv ==
    ASSUME IInv, ServerKilled PROVE IInv'
<1> USE DEF IInv, TypeOK
<1>1. UDPClientTypeOK' /\ Sending'
  BY OutsideSenders DEF ServerKilled
<1>2. NetTypeOK'
  BY DEF ServerKilled, Interrupt, NetTypeOK
<1>3. UDPServerTypeOK'
  BY DEF ServerKilled, Interrupt, counters, statistics, UDPServerTypeOK
<1>4. Rounds' /\ RoundsCounted'
  BY DEF ServerKilled, Interrupt, counters, UDPServerTypeOK, Rounds,
         RoundsCounted
<1> QED BY <1>1, <1>2, <1>3, <1>4

LEMMA NextIInv == IInv /\ [Next]_vars => IInv'
<1> SUFFICES ASSUME IInv, [Next]_vars PROVE IInv'
  OBVIOUS
<1>1. CASE ServerStep
  BY <1>1, InitializeIInv, ChooseIInv, SetUpIInv, RecvPacketIInv, RecvFailsIInv, ConfirmIInv,
     ReportIInv DEF ServerStep
<1>2. ASSUME NEW s \in Sender, SenderStep(s) PROVE IInv'
  BY <1>2, SenderIInv
<1>3. CASE NetStep
  BY <1>3, NetIInv
<1>4. CASE UNCHANGED vars
  <2>1. UDPServerTypeOK' /\ Rounds' /\ RoundsCounted'
    BY <1>4, OutsideServer DEF vars
  <2>2. UDPClientTypeOK' /\ Sending'
    BY <1>4, OutsideSenders DEF vars
  <2>3. NetTypeOK'
    BY <1>4 DEF vars, netVars, NetTypeOK, IInv, TypeOK
  <2> QED BY <2>1, <2>2, <2>3 DEF IInv, TypeOK
<1>5. CASE ServerKilled
  BY <1>5, KilledIInv
<1> QED BY <1>1, <1>2, <1>3, <1>4, <1>5 DEF Next

LEMMA Inductive == Spec => []IInv
BY InitIInv, NextIInv, PTL DEF Spec

(* The UDP programs keep their types: no counter of packets, rounds or     *)
(* confirmations is ever negative.                                         *)
THEOREM TypeCorrect == Spec => []TypeOK
BY Inductive, PTL DEF IInv

(* Whatever is lost, repeated or reordered, a round is counted once, as a  *)
(* packet or as a timeout, and the number of received packets that the     *)
(* report computes from the timeouts is the number of those received.      *)
THEOREM ReportIsRight == Spec => []RoundsCounted
BY Inductive, PTL DEF IInv

-----------------------------------------------------------------------------
(* Until the first reading the extremes are the initial ones; after it, a  *)
(* field that it brought holds a value received for as long as mode 2 is   *)
(* receiving.                                                              *)
Extremes ==
    /\ ExtremesEnclose
    /\ readings = << >> =>
         \A f \in Field : statsMax[f] = Lowest /\ statsMin[f] = Highest
    /\ \A f \in Field :
         1 \in Bringing(f) => mode = 2 /\ stats[f] \in Values(f)
    /\ pc \in {"initialization", "choice", "setup"} => readings = << >>

(* Steps that receive no reading keep what is known of the extremes.       *)
LEMMA ExtremesUntouched ==
    ASSUME IInv, Extremes, UNCHANGED <<readings, statsMax, statsMin>>,
           readings = << >> \/ UNCHANGED <<stats, mode>>,
           pc \in {"initialization", "choice", "setup"}
             \/ pc' \notin {"initialization", "choice", "setup"}
    PROVE  Extremes'
<1>1. \A f \in Field : Values(f)' = Values(f) /\ Bringing(f)' = Bringing(f)
  BY DEF Values, Bringing
<1>2. readings = << >> => \A f \in Field : Bringing(f) = {}
  BY DEF Bringing
<1> QED BY <1>1, <1>2 DEF Extremes, ExtremesEnclose

(* A packet of mode 2 adds the value that it brought, if any.              *)
LEMMA ExtremesOfReading ==
    ASSUME IInv, Extremes, mode = 2, mode' = 2, pc = "recv", pc' = "confirm",
           NEW reading \in Reading,
           readings' = Append(readings, reading),
           stats' = Parsed(reading),
           statsMax' = [f \in Field |-> Larger(Parsed(reading)[f], f)],
           statsMin' = [f \in Field |-> Smaller(Parsed(reading)[f], f)]
    PROVE  Extremes'
<1>1. readings \in Seq(Reading) /\ Len(readings) \in Nat
  BY DEF IInv, TypeOK, UDPServerTypeOK
<1>2. /\ Len(readings') = Len(readings) + 1
      /\ readings'[Len(readings) + 1] = reading
      /\ \A k \in 1..Len(readings) : readings'[k] = readings[k]
      /\ readings' # << >>
  BY <1>1
<1>3. ASSUME NEW f \in Field
      PROVE  /\ \A v \in Values(f)' : statsMin'[f] <= v /\ v <= statsMax'[f]
             /\ 1 \in Bringing(f)' =>
                  /\ {statsMin'[f], statsMax'[f]} \subseteq Values(f)'
                  /\ stats'[f] \in Values(f)'
  <2> DEFINE last == Len(readings) + 1
             v == Parsed(reading)[f]
  <2>1. /\ stats'[f] = v
        /\ statsMax'[f] = Larger(v, f) /\ statsMin'[f] = Smaller(v, f)
        /\ v = IF f \in DOMAIN reading THEN reading[f] ELSE stats[f]
    BY DEF Parsed
  <2>2. Bringing(f)' = Bringing(f) \cup
                         (IF f \in DOMAIN reading THEN {last} ELSE {})
    <3>1. 1..Len(readings') = 1..Len(readings) \cup {last}
      BY <1>1, <1>2
    <3> QED BY <1>2, <3>1 DEF Bringing
  <2>3. Values(f)' = Values(f) \cup
                       (IF f \in DOMAIN reading THEN {reading[f]} ELSE {})
    <3>1. \A k \in Bringing(f) : readings'[k] = readings[k]
      BY <1>2 DEF Bringing
    <3>2. readings'[last] = reading
      BY <1>2
    <3> QED BY <2>2, <3>1, <3>2 DEF Values
  <2>4. Values(f) \subseteq Value
    <3>1. ASSUME NEW k \in Bringing(f) PROVE readings[k][f] \in Value
      <4>1. readings[k] \in Reading /\ f \in DOMAIN readings[k]
        BY <1>1 DEF Bringing
      <4> QED BY <4>1 DEF Reading
    <3> QED BY <3>1 DEF Values
  <2>5. f \in DOMAIN reading => reading[f] \in Value
    BY DEF Reading
  <2>6. /\ statsMax[f] \in Int /\ statsMin[f] \in Int
        /\ v \in Int \cup {NaN}
    <3>1. stats[f] \in Int \cup {NaN} /\ statsMax[f] \in Int /\ statsMin[f] \in Int
      BY DEF IInv, TypeOK, UDPServerTypeOK
    <3> QED BY <2>1, <2>5, <3>1, DatagramsAssumption DEF DatagramsAssumption
  <2>7. /\ Value \subseteq Int /\ NaN \notin Int
        /\ Lowest \in Int /\ Highest \in Int
        /\ \A w \in Value : Lowest <= w /\ w <= Highest
    BY DatagramsAssumption, UDPServerAssumption
       DEF DatagramsAssumption, UDPServerAssumption
  <2>8. \A w \in Values(f) : statsMin[f] <= w /\ w <= statsMax[f]
    BY DEF Extremes, ExtremesEnclose
  <2> HIDE DEF v, last
  <2>9. \A w \in Values(f)' : statsMin'[f] <= w /\ w <= statsMax'[f]
    <3>1. /\ statsMax'[f] \in Int /\ statsMin'[f] \in Int
          /\ statsMin'[f] <= statsMin[f] /\ statsMax[f] <= statsMax'[f]
          /\ v \in Int => statsMin'[f] <= v /\ v <= statsMax'[f]
      BY <2>1, <2>6, <2>7 DEF Larger, Smaller
    <3>2. ASSUME NEW w \in Values(f)
          PROVE  statsMin'[f] <= w /\ w <= statsMax'[f]
      <4>1. w \in Int /\ statsMin[f] <= w /\ w <= statsMax[f]
        BY <2>4, <2>7, <2>8
      <4> QED BY <2>6, <3>1, <4>1
    <3>3. f \in DOMAIN reading => reading[f] = v /\ v \in Int
      BY <2>1, <2>5, <2>7
    <3> QED BY <2>3, <3>1, <3>2, <3>3
  <2>10. ASSUME 1 \in Bringing(f)'
         PROVE  /\ {statsMin'[f], statsMax'[f]} \subseteq Values(f)'
                /\ stats'[f] \in Values(f)'
    <3>1. CASE readings = << >>
      <4>1. Bringing(f) = {} /\ f \in DOMAIN reading
        BY <3>1, <2>2, <2>10 DEF Bringing
      <4>2. Values(f)' = {v} /\ v \in Value
        BY <4>1, <2>1, <2>3, <2>5 DEF Values
      <4>3. statsMax[f] = Lowest /\ statsMin[f] = Highest
        BY <3>1 DEF Extremes
      <4>4. statsMax'[f] = v /\ statsMin'[f] = v
        BY <4>2, <4>3, <2>1, <2>7 DEF Larger, Smaller
      <4> QED BY <4>2, <4>4, <2>1
    <3>2. CASE readings # << >>
      <4>1. 1 \in Bringing(f)
        <5>1. 1 # last
          BY <1>1, <3>2 DEF last
        <5> QED BY <5>1, <2>2, <2>10
      <4>2. stats[f] \in Values(f)
            /\ {statsMin[f], statsMax[f]} \subseteq Values(f)
        BY <4>1 DEF Extremes, ExtremesEnclose
      <4>3. v \in Values(f)'
        BY <4>2, <2>1, <2>3
      <4> QED BY <4>2, <4>3, <2>1, <2>3 DEF Larger, Smaller
    <3> QED BY <3>1, <3>2
  <2> QED BY <2>9, <2>10
<1> QED BY <1>2, <1>3 DEF Extremes, ExtremesEnclose

LEMMA ExtremesNext == IInv /\ Extremes /\ [Next]_vars => Extremes'
<1> SUFFICES ASSUME IInv, Extremes, [Next]_vars PROVE Extremes'
  OBVIOUS
<1>1. CASE Initialize \/ Choose
  <2>1. UNCHANGED statistics /\ readings = << >>
    BY <1>1 DEF Initialize, Choose, Extremes
  <2> QED BY <1>1, <2>1, ExtremesUntouched
          DEF Initialize, Choose, statistics
<1>2. CASE SetUp
  <2>1. UNCHANGED <<readings, statsMax, statsMin>> /\ readings = << >>
    BY <1>2 DEF SetUp, Extremes
  <2> QED BY <1>2, <2>1, ExtremesUntouched DEF SetUp
<1>3. CASE RecvPacket
  <2>1. PICK k \in 1..Len(net) :
          IF mode = 2
          THEN LET new == Parsed(net[k].reading) IN
               /\ stats' = new
               /\ statsMax' = [f \in Field |-> Larger(new[f], f)]
               /\ statsMin' = [f \in Field |-> Smaller(new[f], f)]
               /\ readings' = Append(readings, net[k].reading)
          ELSE UNCHANGED statistics
    BY <1>3 DEF RecvPacket
  <2>2. mode' = mode /\ pc = "recv" /\ pc' = "confirm"
    BY <1>3 DEF RecvPacket
  <2>3. CASE mode = 2
    <3>1. net[k] \in Datagram
      BY DEF IInv, TypeOK, NetTypeOK
    <3>2. net[k].reading \in Reading
      BY <3>1 DEF Datagram
    <3> QED BY <2>1, <2>2, <2>3, <3>2, ExtremesOfReading
  <2>4. CASE mode # 2
    <3>1. UNCHANGED statistics
      BY <2>1, <2>4
    <3> QED BY <2>2, <3>1, ExtremesUntouched DEF statistics
  <2> QED BY <2>3, <2>4
<1>4. CASE RecvFails \/ Confirm(Closed) \/ Report \/ ServerKilled
  <2>1. /\ UNCHANGED statistics /\ UNCHANGED mode
        /\ pc' \in {"recv", "confirm", "report", "done", "killed"}
    BY <1>4 DEF RecvFails, Confirm, Report, ServerKilled, Interrupt
  <2> QED BY <2>1, ExtremesUntouched DEF statistics
<1>5. CASE NetStep \/ (\E s \in Sender : SenderStep(s)) \/ UNCHANGED vars
  <2>1. UNCHANGED statistics /\ UNCHANGED mode /\ UNCHANGED pc
    BY <1>5 DEF NetStep, SenderStep, vars, udpServerVars
  <2> QED BY <2>1, ExtremesUntouched DEF statistics
<1> QED BY <1>1, <1>2, <1>3, <1>4, <1>5 DEF Next, ServerStep

(* However many packets there are, whatever fields they lack and whatever  *)
(* the stack held before, infinities and NaN included: no value received   *)
(* lies outside the extremes kept, and for the fields that the first packet*)
(* brought these are values received.                                      *)
THEOREM ExtremesAreRight == Spec => []ExtremesEnclose
<1>1. Init => Extremes
  <2> SUFFICES ASSUME Init PROVE Extremes
    OBVIOUS
  <2>1. readings = << >> /\ \A f \in Field : statsMax[f] = Lowest
                                            /\ statsMin[f] = Highest
    BY DEF Init, UDPServerInit
  <2>2. \A f \in Field : Bringing(f) = {} /\ Values(f) = {}
    BY <2>1 DEF Bringing, Values
  <2> QED BY <2>1, <2>2 DEF Extremes, ExtremesEnclose
<1>2. Extremes => ExtremesEnclose
  BY DEF Extremes
<1> QED BY <1>1, <1>2, Inductive, ExtremesNext, PTL DEF Spec

-----------------------------------------------------------------------------
(* No step leaves a received packet without its confirmation.              *)
LEMMA OwedNext ==
    IInv /\ EveryPacketConfirmed /\ [Next]_vars => EveryPacketConfirmed'
<1> SUFFICES ASSUME IInv, EveryPacketConfirmed, [Next]_vars
             PROVE  EveryPacketConfirmed'
  OBVIOUS
<1> USE DEF EveryPacketConfirmed
<1>1. owed \in [Sender -> Nat]
  BY DEF IInv, TypeOK, UDPServerTypeOK
<1>2. CASE Initialize \/ Choose \/ SetUp \/ Report
  <2>1. owed' = owed /\ pc \notin {"confirm", "killed"} /\ pc' # "confirm"
    BY <1>2 DEF Initialize, Choose, Exit, SetUp, Report
  <2>2. client_internet_address' = client_internet_address
    BY <1>2 DEF Initialize, Choose, Exit, SetUp, Report
  <2> QED BY <1>1, <2>1, <2>2
<1>3. CASE RecvPacket
  <2>1. PICK k \in 1..Len(net) :
            /\ client_internet_address' = Address(net[k].from)
            /\ owed' = [owed EXCEPT ![net[k].from] = @ + 1]
    BY <1>3 DEF RecvPacket
  <2>2. net[k].from \in Sender
    <3>1. net[k] \in Datagram
      BY DEF IInv, TypeOK, NetTypeOK
    <3> QED BY <3>1 DEF Datagram
  <2>3. \A s \in Sender : owed[s] = 0
    BY <1>1, <1>3 DEF RecvPacket
  <2> QED BY <1>1, <1>3, <2>1, <2>2, <2>3 DEF RecvPacket, Address
<1>4. CASE RecvFails
  BY <1>1, <1>4 DEF RecvFails
<1>5. CASE Confirm(Closed)
  <2>1. pc = "confirm" /\ pc' \notin {"confirm", "killed"}
    BY <1>5 DEF Confirm
  <2>2. CASE client_internet_address = NoSender
    BY <1>1, <1>5, <2>1, <2>2, UDPServerAssumption
       DEF UDPServerAssumption, Confirm
  <2>3. CASE client_internet_address \in Sender
    <3>1. owed' = [owed EXCEPT ![client_internet_address] =
                                  IF @ > 0 THEN @ - 1 ELSE 0]
      BY <1>5, <2>3, UDPServerAssumption DEF UDPServerAssumption, Confirm
    <3> QED BY <1>1, <2>1, <2>3, <3>1
  <2> QED BY <2>2, <2>3 DEF IInv, TypeOK, UDPServerTypeOK
<1>6. CASE NetStep \/ (\E s \in Sender : SenderStep(s)) \/ UNCHANGED vars
  BY <1>6 DEF NetStep, SenderStep, vars, udpServerVars
<1>7. CASE ServerKilled
  BY <1>1, <1>7 DEF ServerKilled, Interrupt
<1> QED BY <1>2, <1>3, <1>4, <1>5, <1>6, <1>7 DEF Next, ServerStep

(* Every packet is confirmed to the one who sent it before the server waits*)
(* for the next, however the packets of many senders alternate.            *)
THEOREM PacketsAreConfirmed == Spec => []EveryPacketConfirmed
<1>1. Init => EveryPacketConfirmed
  BY DEF Init, UDPServerInit, EveryPacketConfirmed
<1> QED BY <1>1, Inductive, OwedNext, PTL DEF Spec

-----------------------------------------------------------------------------
(* The lines of receivedPackets.csv, those in the buffer included.         *)
Lines == csv \o buffered

(* A line saved is the last one, wherever the buffer is cut.               *)
LEMMA LineAppended ==
    ASSUME IInv, SaveLine PROVE Lines' = Append(Lines, LineNumber)
<1>1. csv \in Seq(Nat) /\ buffered \in Seq(Nat) /\ LineNumber \in Nat
  BY DEF LineNumber, IInv, TypeOK, UDPServerTypeOK
<1>2. csv \o Append(buffered, LineNumber) = Append(csv \o buffered, LineNumber)
  BY <1>1, AppendIsConcat, ConcatAssociative, ConcatProperties
<1>3. (csv \o buffered) \o <<LineNumber>> = Append(csv \o buffered, LineNumber)
  BY <1>1, AppendIsConcat, ConcatProperties
<1> QED BY <1>2, <1>3 DEF SaveLine, Lines

(* What mode 2 has written is numbered above the rounds that are left.     *)
RecordInv ==
    /\ PacketsOnRecord
    /\ pc \in {"initialization", "choice", "setup"} => Lines = << >>
    /\ mode = 2 /\ pc = "recv" =>
         \A k \in 1..Len(Lines) : Lines[k] > amountOfPacketsToReceive
    /\ mode = 2 /\ pc = "confirm" =>
         \A k \in 1..Len(Lines) : Lines[k] >= amountOfPacketsToReceive

(* Steps that write no line.                                               *)
LEMMA NoLineWritten ==
    ASSUME IInv, RecordInv, UNCHANGED <<csv, buffered, numberOfPacketsReceived>>,
           pc # "killed" \/ pc' = "killed",
           pc' = "done" => pc = "done"
    PROVE  /\ Lines' = Lines
           /\ mode' = mode => PacketsOnRecord'
<1>1. Lines' = Lines
  BY DEF Lines
<1> QED BY <1>1 DEF RecordInv, PacketsOnRecord, Lines

LEMMA RecordNext == IInv /\ RecordInv /\ [Next]_vars => RecordInv'
<1> SUFFICES ASSUME IInv, RecordInv, [Next]_vars PROVE RecordInv'
  OBVIOUS
<1>0. /\ csv \in Seq(Nat) /\ buffered \in Seq(Nat)
      /\ Lines \in Seq(Nat) /\ Len(Lines) \in Nat
      /\ amountOfPacketsToReceive \in Nat /\ numberOfPacketsReceived \in Nat
  BY DEF Lines, IInv, TypeOK, UDPServerTypeOK
<1>1. CASE Initialize \/ Choose \/ SetUp
  <2>1. /\ UNCHANGED <<csv, buffered, numberOfPacketsReceived>>
        /\ pc \in {"initialization", "choice", "setup"}
        /\ pc' \notin {"killed", "confirm", "done"}
    BY <1>1 DEF Initialize, Choose, SetUp, Exit, counters, file
  <2>2. Lines = << >> /\ Lines' = << >> /\ numberOfPacketsReceived = 0
    BY <2>1 DEF RecordInv, Lines, IInv, Rounds
  <2> QED BY <2>1, <2>2 DEF RecordInv, PacketsOnRecord, Lines
<1>2. CASE RecvPacket
  <2>1. Lines' = Append(Lines, LineNumber)
    BY <1>2, LineAppended DEF RecvPacket
  <2>2. /\ numberOfPacketsReceived' = numberOfPacketsReceived + 1
        /\ amountOfPacketsToReceive' = amountOfPacketsToReceive
        /\ pc = "recv" /\ pc' = "confirm" /\ mode' = mode
    BY <1>2 DEF RecvPacket
  <2>3. Len(Lines) = numberOfPacketsReceived
    BY <2>2 DEF RecordInv, PacketsOnRecord, Lines
  <2>4. /\ Len(Lines') = Len(Lines) + 1
        /\ Lines'[Len(Lines) + 1] = LineNumber
        /\ \A k \in 1..Len(Lines) : Lines'[k] = Lines[k]
    <3>1. LineNumber \in Nat
      BY <1>0 DEF LineNumber
    <3> QED BY <1>0, <2>1, <3>1, AppendProperties
  <2>5. ASSUME mode = 1 PROVE \A k \in 1..Len(Lines') : Lines'[k] = k
    <3>1. LineNumber = Len(Lines) + 1
      BY <2>3, <2>5 DEF LineNumber
    <3>2. \A k \in 1..Len(Lines) : Lines[k] = k
      BY <2>5 DEF RecordInv, PacketsOnRecord, Lines
    <3>3. \A k \in 1..Len(Lines') : k \in 1..Len(Lines) \/ k = Len(Lines) + 1
      BY <1>0, <2>4
    <3> QED BY <2>4, <3>1, <3>2, <3>3
  <2>6. ASSUME mode = 2
        PROVE  /\ \A k \in 1..Len(Lines') : Lines'[k] >= LineNumber
               /\ \A k \in 1..Len(Lines) : Lines'[k] > LineNumber
               /\ LineNumber = amountOfPacketsToReceive
    <3>1. LineNumber = amountOfPacketsToReceive
      BY <2>6 DEF LineNumber
    <3>2. \A k \in 1..Len(Lines) : Lines[k] > LineNumber /\ Lines[k] \in Nat
      BY <1>0, <2>2, <2>6, <3>1 DEF RecordInv
    <3>3. \A k \in 1..Len(Lines') : k \in 1..Len(Lines) \/ k = Len(Lines) + 1
      BY <1>0, <2>4
    <3>4. LineNumber \in Nat
      BY <1>0, <3>1
    <3>5. \A k \in 1..Len(Lines) : Lines'[k] > LineNumber
                                  /\ Lines'[k] >= LineNumber
      BY <2>4, <3>2, <3>4
    <3>6. Lines'[Len(Lines) + 1] >= LineNumber
      BY <2>4, <3>4
    <3> QED BY <3>1, <3>3, <3>5, <3>6
  <2>7. ASSUME mode = 2
        PROVE  \A k \in 1..(Len(Lines') - 1) : Lines'[k] > Lines'[k + 1]
    <3>1. SUFFICES ASSUME NEW k \in 1..Len(Lines)
                   PROVE  Lines'[k] > Lines'[k + 1]
      BY <1>0, <2>4
    <3>2. CASE k = Len(Lines)
      BY <2>4, <2>6, <2>7, <3>2
    <3>3. CASE k # Len(Lines)
      <4>1. k \in 1..(Len(Lines) - 1) /\ k + 1 \in 1..Len(Lines)
        BY <1>0, <3>3
      <4>2. Lines[k] > Lines[k + 1]
        BY <2>7, <4>1 DEF RecordInv, PacketsOnRecord, Lines
      <4> QED BY <2>4, <4>1, <4>2
    <3> QED BY <3>2, <3>3
  <2> QED BY <2>2, <2>3, <2>4, <2>5, <2>6, <2>7
          DEF RecordInv, PacketsOnRecord, Lines
<1>3. CASE RecvFails
  <2>1. /\ UNCHANGED <<csv, buffered, numberOfPacketsReceived>>
        /\ UNCHANGED <<mode, amountOfPacketsToReceive>>
        /\ pc = "recv" /\ pc' = "confirm"
    BY <1>3 DEF RecvFails, file
  <2>2. Lines' = Lines /\ PacketsOnRecord'
    BY <2>1, NoLineWritten
  <2> QED BY <1>0, <2>1, <2>2 DEF RecordInv
<1>4. CASE Confirm(Closed)
  <2>1. /\ UNCHANGED <<csv, buffered, numberOfPacketsReceived, mode>>
        /\ pc = "confirm" /\ pc' \in {"recv", "report"}
        /\ mode = 2 => amountOfPacketsToReceive' = amountOfPacketsToReceive - 1
    BY <1>4 DEF Confirm, file, OneRoundLess
  <2>2. Lines' = Lines /\ PacketsOnRecord'
    BY <2>1, NoLineWritten
  <2> QED BY <1>0, <2>1, <2>2 DEF RecordInv
<1>5. CASE Report
  <2>1. /\ csv' = Lines /\ buffered' = << >>
        /\ UNCHANGED <<numberOfPacketsReceived, mode>>
        /\ pc = "report" /\ pc' = "done"
    BY <1>5 DEF Report, Lines
  <2>2. Lines' = Lines
    BY <1>0, <2>1 DEF Lines
  <2> QED BY <2>1, <2>2 DEF RecordInv, PacketsOnRecord, Lines
<1>6. CASE ServerKilled
  <2>1. /\ csv' = csv /\ buffered' = << >> /\ mode' = mode
        /\ pc \in {"recv", "confirm"} /\ pc' = "killed"
    BY <1>6 DEF ServerKilled, Interrupt
  <2>2. Lines' = csv
    BY <1>0, <2>1 DEF Lines
  <2>3. /\ Len(csv) <= Len(Lines)
        /\ \A k \in 1..Len(csv) : Lines[k] = csv[k]
    BY <1>0 DEF Lines
  <2>4. Len(csv) \in Nat
    BY <1>0
  <2>5. mode = 1 => \A k \in 1..Len(csv) : csv[k] = k
    BY <1>0, <2>3, <2>4 DEF RecordInv, PacketsOnRecord, Lines
  <2>6. ASSUME mode = 2, NEW k \in 1..(Len(csv) - 1)
        PROVE  csv[k] > csv[k + 1]
    <3>1. k \in 1..(Len(Lines) - 1)
      BY <1>0, <2>3, <2>4
    <3>2. Lines[k] > Lines[k + 1]
      BY <2>6, <3>1 DEF RecordInv, PacketsOnRecord, Lines
    <3>3. k \in 1..Len(csv) /\ k + 1 \in 1..Len(csv)
      BY <2>4
    <3> QED BY <2>3, <3>2, <3>3
  <2> QED BY <2>1, <2>2, <2>5, <2>6 DEF RecordInv, PacketsOnRecord, Lines
<1>7. CASE NetStep \/ (\E s \in Sender : SenderStep(s)) \/ UNCHANGED vars
  <2>1. UNCHANGED <<pc, mode, counters, file>>
    BY <1>7 DEF NetStep, SenderStep, vars, udpServerVars
  <2> QED BY <2>1 DEF counters, file, RecordInv, PacketsOnRecord, Lines
<1> QED BY <1>1, <1>2, <1>3, <1>4, <1>5, <1>6, <1>7 DEF Next, ServerStep

(* However many packets, timeouts and full buffers there are, the record   *)
(* has one line for each packet, in order and with a number of its own,    *)
(* and a session that ends by itself leaves all of them in the file.       *)
THEOREM RecordIsRight == Spec => []PacketsOnRecord
<1>1. Init => RecordInv
  BY DEF Init, UDPServerInit, RecordInv, PacketsOnRecord, Lines
<1>2. RecordInv => PacketsOnRecord
  BY DEF RecordInv
<1> QED BY <1>1, <1>2, Inductive, RecordNext, PTL DEF Spec
=============================================================================
