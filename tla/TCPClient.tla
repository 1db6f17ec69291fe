------------------------------ MODULE TCPClient ------------------------------
(***************************************************************************)
(* src/main/TCPclient/TCPclient.c: connect, then two threads that never    *)
(* end, one sending each line the user types, one receiving.               *)
(***************************************************************************)
EXTENDS Sockets

CONSTANTS
    Line,       \* the lines a user may type
    MaxLines    \* BOUND: lines typed by all the clients together

ASSUME ClientAssumption ==
    /\ Line \subseteq Seq(Byte)
    /\ MaxLines \in Nat

VARIABLE
    typed       \* lines typed so far, counted for the bound only

clientVars == <<typed>>

ClientInit == typed = 0

ClientTypeOK == typed \in Nat

(* initialization(): connect succeeds and the kernel queues the connection *)
(* for accept.                                                             *)
Connect(c) ==
    /\ c \notin dialed
    /\ server = "listening"
    /\ Len(backlog) < Backlog
    /\ dialed' = dialed \cup {c}
    /\ backlog' = Append(backlog, c)
    /\ UNCHANGED <<server, hungup, closed, up, stream, seen, typed>>

(* initialization(): connect is refused.  The loop closes the socket but   *)
(* keeps its number, so the "no valid socket" test passes and the client   *)
(* runs on without a connection.                                           *)
ConnectRefused(c) ==
    /\ c \notin dialed
    /\ server # "listening" \/ Len(backlog) = Backlog
    /\ dialed' = dialed \cup {c}
    /\ hungup' = hungup \cup {c}
    /\ UNCHANGED <<server, backlog, closed, up, stream, seen, typed>>

(* sendThread(): one line is read and sent.  The '\r' put over its NUL is  *)
(* not sent: the length was taken before.  A send on a dead connection     *)
(* fails and the line is lost.                                             *)
SendLine(c) ==
    /\ c \in dialed \ hungup
    /\ typed < MaxLines
    /\ typed' = typed + 1
    /\ \E line \in Line :
          up' = IF c \in closed \/ server = "down"
                THEN up ELSE [up EXCEPT ![c] = @ \o line]
    /\ UNCHANGED <<server, backlog, dialed, hungup, closed, stream, seen>>

(* receiveThread(): recv takes what has arrived and prints it.  (Once the  *)
(* server has closed the connection recv returns 0 for ever and the thread *)
(* spins printing empty lines, which changes nothing.)                     *)
Receive(c) ==
    /\ c \in dialed \ hungup
    /\ seen[c] < Len(stream[c])
    /\ seen' = [seen EXCEPT ![c] = Len(stream[c])]
    /\ UNCHANGED <<server, backlog, dialed, hungup, closed, up, stream, typed>>

(* The user ends the client: no path of main() gets past pthread_join, so  *)
(* the process is killed and the kernel ends the connection.               *)
Quit(c) ==
    /\ c \in dialed \ hungup
    /\ hungup' = hungup \cup {c}
    /\ UNCHANGED <<server, backlog, dialed, closed, up, stream, seen, typed>>

ClientNext(c) ==
    Connect(c) \/ ConnectRefused(c) \/ SendLine(c) \/ Receive(c) \/ Quit(c)
=============================================================================
