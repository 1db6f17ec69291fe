------------------------------ MODULE ChatRoom ------------------------------
(***************************************************************************)
(* What the chat server promises, without sockets, fd_sets or the web:     *)
(* a room in which an announcement or a message reaches everybody present  *)
(* at once, in one order for all, and nobody hears what he said himself.   *)
(***************************************************************************)
EXTENDS Naturals, Sequences

CONSTANTS
    Client,     \* who may be in the room
    Byte,       \* the bytes of what is said
    Line,       \* what a client says at a time, a sequence of bytes
    MaxHeard    \* the longest piece of speech passed on at a time, 1 or more

VARIABLES
    open,       \* the room is in service
    arrived,    \* clients that have entered the room
    gone,       \* clients that have left, for good
    unsaid,     \* unsaid[c]: what c said that was not passed on yet
    view        \* view[c]: what c, while present, was told

roomVars == <<open, arrived, gone, unsaid, view>>

Present == arrived \ gone

Init ==
    /\ open = TRUE
    /\ arrived = {}
    /\ gone = {}
    /\ unsaid = [c \in Client |-> << >>]
    /\ view = [c \in Client |-> << >>]

(* Everybody in "who" is told x; nobody else is told anything.             *)
Tell(who, x) ==
    view' = [c \in Client |-> IF c \in who THEN Append(view[c], x) ELSE view[c]]

(* c enters: all others present are told.  The announcement is made also   *)
(* when c has turned on its heel in the door.                              *)
Arrive(c) ==
    /\ open
    /\ c \notin arrived
    /\ arrived' = arrived \cup {c}
    /\ Tell(Present \ {c}, [kind |-> "joined", who |-> c, data |-> << >>])
    /\ UNCHANGED <<open, gone, unsaid>>

(* c says a line; a client may do so before it is let in.                  *)
Say(c) ==
    /\ open
    /\ c \notin gone
    /\ \E line \in Line : unsaid' = [unsaid EXCEPT ![c] = @ \o line]
    /\ UNCHANGED <<open, arrived, gone, view>>

(* A piece of what c said is passed on to all others present.              *)
PassOn(c) ==
    /\ open
    /\ c \in arrived
    /\ \E n \in 1..Len(unsaid[c]) :
          /\ n <= MaxHeard
          /\ Tell(Present \ {c}, [kind |-> "chat", who |-> c,
                                  data |-> SubSeq(unsaid[c], 1, n)])
          /\ unsaid' = [unsaid EXCEPT ![c] = SubSeq(@, n + 1, Len(@))]
    /\ UNCHANGED <<open, arrived, gone>>

(* c leaves, whether it had come in or not.                                *)
Leave(c) ==
    /\ c \notin gone
    /\ gone' = gone \cup {c}
    /\ view' = [view EXCEPT ![c] = << >>]
    /\ UNCHANGED <<open, arrived, unsaid>>

(* What a client that left had not got across may be lost.                 *)
Forget(c) ==
    /\ c \in gone
    /\ unsaid' = [unsaid EXCEPT ![c] = << >>]
    /\ UNCHANGED <<open, arrived, gone, view>>

(* The room closes.  Nothing is passed on to a part of the room only.      *)
Close ==
    /\ open
    /\ open' = FALSE
    /\ unsaid' = [c \in Client |-> << >>]
    /\ UNCHANGED <<arrived, gone, view>>

Next ==
    \/ Close
    \/ \E c \in Client : Arrive(c) \/ Say(c) \/ PassOn(c) \/ Leave(c) \/ Forget(c)

Spec == Init /\ [][Next]_roomVars
=============================================================================
