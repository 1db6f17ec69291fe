--------------------------- MODULE ChatRoomProofs ---------------------------
(***************************************************************************)
(* The chat server implements the chat room (RoomImplemented), for every   *)
(* value of the constants: through the mapping of module Chat, every step  *)
(* of the application is a step of the room or changes nothing in it.      *)
(***************************************************************************)
EXTENDS ChatProofs

(* Who has closed its connection, or was closed: nobody the server has     *)
(* closed has a socket, waits, or is still there.                          *)
Farewell ==
    /\ hungup \subseteq dialed
    /\ closed \subseteq hungup
    /\ \A k \in 1..Len(backlog) : backlog[k] \notin closed
    /\ \A f \in Fd : owner[f] \notin closed

(* Nothing is sent to a client before it is in master, and a message being *)
(* handled is what one recv returns.                                       *)
Sending ==
    /\ \A c \in Client : stream[c] # << >> => c \in LetIn
    /\ pc = "post" => Len(outgoing.data) \in 1..BufSize

RoomInv == SockInv /\ Farewell /\ Sending

-----------------------------------------------------------------------------
(* The room's variables, as module Chat maps them.                         *)
Open == server # "down"
UnsaidNow == [c \in Client |-> Unsaid(c)]
ViewNow == [c \in Client |-> IF c \in LetIn \ hungup THEN Told(c) ELSE << >>]

RoomStep == [Room!Next]_(Room!roomVars)

(* One lemma for each step of the room: what the server has to do to make  *)
(* it.                                                                     *)
LEMMA MakesNothing ==
    ASSUME UNCHANGED <<Open, LetIn, hungup, UnsaidNow, ViewNow>>
    PROVE  RoomStep
BY DEF RoomStep, Room!roomVars, Open, UnsaidNow, ViewNow

(* The room is joined by c, and all others present are told.               *)
LEMMA MakesArrive ==
    ASSUME NEW c \in Client, Open, c \notin LetIn, LetIn' = LetIn \cup {c},
           UNCHANGED <<Open, hungup, UnsaidNow>>,
           \A d \in Client :
              ViewNow'[d] = IF d \in (LetIn \ hungup) \ {c}
                            THEN Append(ViewNow[d], Joined(c)) ELSE ViewNow[d]
    PROVE  RoomStep
<1>1. ViewNow' = [d \in Client |-> IF d \in (LetIn \ hungup) \ {c}
                                   THEN Append(ViewNow[d], Joined(c))
                                   ELSE ViewNow[d]]
  BY DEF ViewNow
<1>2. Room!Arrive(c)
  BY <1>1 DEF Room!Arrive, Room!Tell, Room!Present, Joined, Open, UnsaidNow, ViewNow
<1> QED BY <1>2 DEF RoomStep, Room!Next

(* c says a line.                                                          *)
LEMMA MakesSay ==
    ASSUME NEW c \in Client, NEW line \in Line, Open, c \notin hungup,
           UNCHANGED <<Open, LetIn, hungup, ViewNow>>,
           UnsaidNow' = [UnsaidNow EXCEPT ![c] = @ \o line]
    PROVE  RoomStep
<1>1. Room!Say(c)
  BY DEF Room!Say, Open, UnsaidNow, ViewNow
<1> QED BY <1>1 DEF RoomStep, Room!Next

(* The beginning of what c said is passed on to the others.                *)
LEMMA MakesPassOn ==
    ASSUME NEW c \in Client, NEW n \in 1..Len(UnsaidNow[c]),
           Open, c \in LetIn, n <= BufSize,
           UNCHANGED <<Open, LetIn, hungup>>,
           UnsaidNow' = [UnsaidNow EXCEPT ![c] = SubSeq(@, n + 1, Len(@))],
           outgoing = Chat(c, SubSeq(UnsaidNow[c], 1, n)),
           \A d \in Client :
              ViewNow'[d] = IF d \in (LetIn \ hungup) \ {c}
                            THEN Append(ViewNow[d], outgoing) ELSE ViewNow[d]
    PROVE  RoomStep
<1>1. ViewNow' = [d \in Client |-> IF d \in (LetIn \ hungup) \ {c}
                                   THEN Append(ViewNow[d], outgoing)
                                   ELSE ViewNow[d]]
  BY DEF ViewNow
<1>2. Room!PassOn(c)
  BY <1>1 DEF Room!PassOn, Room!Tell, Room!Present, Chat, Open, UnsaidNow, ViewNow
<1> QED BY <1>2 DEF RoomStep, Room!Next

(* c leaves the room.                                                      *)
LEMMA MakesLeave ==
    ASSUME NEW c \in Client, c \notin hungup, hungup' = hungup \cup {c},
           UNCHANGED <<Open, LetIn, UnsaidNow>>,
           \A d \in Client \ {c} : Told(d)' = Told(d)
    PROVE  RoomStep
<1>1. ViewNow' = [ViewNow EXCEPT ![c] = << >>]
  BY DEF ViewNow
<1>2. Room!Leave(c)
  BY <1>1 DEF Room!Leave, Open, UnsaidNow, ViewNow
<1> QED BY <1>2 DEF RoomStep, Room!Next

(* What c, who left, said is forgotten.                                    *)
LEMMA MakesForget ==
    ASSUME NEW c \in Client, c \in hungup,
           UNCHANGED <<Open, LetIn, hungup, ViewNow>>,
           UnsaidNow' = [UnsaidNow EXCEPT ![c] = << >>]
    PROVE  RoomStep
<1>1. Room!Forget(c)
  BY DEF Room!Forget, Open, UnsaidNow, ViewNow
<1> QED BY <1>1 DEF RoomStep, Room!Next

(* The room closes.                                                        *)
LEMMA MakesClose ==
    ASSUME Open, ~Open', UNCHANGED <<LetIn, hungup, ViewNow>>
    PROVE  RoomStep
<1>1. UnsaidNow' = [c \in Client |-> << >>]
  BY DEF UnsaidNow, Unsaid, Open
<1>2. Room!Close
  BY <1>1 DEF Room!Close, Open, UnsaidNow, ViewNow
<1> QED BY <1>2 DEF RoomStep, Room!Next

(* At first nobody is in the room.                                         *)
LEMMA RoomInitially == Init => Room!Init
BY KeepEmpty DEF Init, SocketsInit, ServerInit, Room!Init, LetIn, Unsaid

-----------------------------------------------------------------------------
(* Whether the broadcast under way has still to reach c, and concerns it.  *)
Hears(c) ==
    /\ pc \in {"announce", "forward"}
    /\ \E f \in Pending : owner[f] = c
    /\ outgoing \in Heard(c)

(* What c has been told: one text more while the broadcast comes to it.    *)
LEMMA ToldIs ==
    ASSUME TypeInv, NEW c \in Client
    PROVE  /\ Keep(stream[c], Heard(c)) \in Seq(Heard(c))
           /\ Told(c) = IF Hears(c) THEN Append(Keep(stream[c], Heard(c)), outgoing)
                        ELSE Keep(stream[c], Heard(c))
<1>1. Keep(stream[c], Heard(c)) \in Seq(Heard(c))
  BY KeepIsSeq DEF TypeInv, TypeOK, SocketsTypeOK
<1>2. \A x : Keep(stream[c], Heard(c)) \o <<x>> = Append(Keep(stream[c], Heard(c)), x)
  BY <1>1
<1>3. Keep(stream[c], Heard(c)) \o << >> = Keep(stream[c], Heard(c))
  BY <1>1
<1> HIDE DEF Heard
<1> QED BY <1>1, <1>2, <1>3 DEF Told, Hears

(* The same in the next state.                                             *)
LEMMA ToldIsNext ==
    ASSUME TypeInv', NEW c \in Client
    PROVE  /\ Keep(stream'[c], Heard(c)) \in Seq(Heard(c))
           /\ Told(c)' = IF Hears(c)'
                         THEN Append(Keep(stream'[c], Heard(c)), outgoing')
                         ELSE Keep(stream'[c], Heard(c))
<1>1. Keep(stream'[c], Heard(c)) \in Seq(Heard(c))
  BY KeepIsSeq DEF TypeInv, TypeOK, SocketsTypeOK
<1>2. \A x : Keep(stream'[c], Heard(c)) \o <<x>> = Append(Keep(stream'[c], Heard(c)), x)
  BY <1>1
<1>3. Keep(stream'[c], Heard(c)) \o << >> = Keep(stream'[c], Heard(c))
  BY <1>1
<1>4. Told(c)' = Keep(stream'[c], Heard(c))
                 \o IF Hears(c)' THEN <<outgoing'>> ELSE << >>
  BY DEF Told, Hears, Heard, Talk
<1> HIDE DEF Heard
<1> QED BY <1>1, <1>2, <1>3, <1>4

(* Nobody is told anything.                                                *)
LEMMA ViewSame ==
    ASSUME UNCHANGED <<LetIn, hungup>>, \A c \in Client : Told(c)' = Told(c)
    PROVE  ViewNow' = ViewNow
BY DEF ViewNow

(* Nobody says anything, and nothing is passed on.                         *)
LEMMA UnsaidSame ==
    ASSUME \A c \in Client : Unsaid(c)' = Unsaid(c)
    PROVE  UnsaidNow' = UnsaidNow
BY DEF UnsaidNow

(* What c said, outside of Post.                                           *)
LEMMA UnsaidIs ==
    ASSUME TypeInv, NEW c \in Client, server # "down", pc # "post"
    PROVE  Unsaid(c) = up[c]
<1>1. up[c] \in Seq(Byte)
  BY Typing
<1> QED BY <1>1 DEF Unsaid

(* The steps that only fetch, look or wait change nothing in the room.     *)
Quiet == pc \notin {"announce", "post", "forward"}

(* Without a broadcast nobody is told anything.                            *)
LEMMA QuietTold ==
    ASSUME Quiet, Quiet', UNCHANGED stream, NEW c \in Client
    PROVE  Told(c)' = Told(c)
BY DEF Quiet, Told

(* So it is when nobody is sent, says or leaves anything.                  *)
LEMMA QuietStep ==
    ASSUME Quiet, Quiet', UNCHANGED <<Open, LetIn, hungup, up, stream>>
    PROVE  RoomStep
<1>1. \A c \in Client : Told(c)' = Told(c)
  BY QuietTold
<1>2. ViewNow' = ViewNow
  BY <1>1, ViewSame
<1>3. \A c \in Client : Unsaid(c)' = Unsaid(c)
  BY DEF Unsaid, Open, Quiet
<1> QED BY <1>2, <1>3, UnsaidSame, MakesNothing

(* Who is let in depends on the sockets only.                              *)
LEMMA LetInSame == UNCHANGED <<closed, master, owner>> => LetIn' = LetIn
BY DEF LetIn

(* The fetch of a history and the end of a scan.                           *)
LEMMA FetchStep == BootFetch \/ FetchHistory \/ EndPass => RoomStep
<1> SUFFICES ASSUME BootFetch \/ FetchHistory \/ EndPass PROVE RoomStep
  OBVIOUS
<1>1. UNCHANGED <<sockVars, owner, master>>
  BY DEF BootFetch, FetchHistory, EndPass, AskHistory, ReadHistory, ReadRest, sockVars
<1>2. Quiet /\ Quiet'
  BY DEF BootFetch, FetchHistory, EndPass, AskHistory, ReadHistory, ReadRest, Quiet
<1> QED BY <1>1, <1>2, LetInSame, QuietStep DEF sockVars, Open

(* Opening the port lets nobody in.                                        *)
LEMMA BindStep == RoomInv /\ Bind => RoomStep
<1> SUFFICES ASSUME RoomInv, Bind PROVE RoomStep
  OBVIOUS
<1>1. /\ pc = "bind" /\ pc' = "select" /\ server' = "listening"
      /\ master' = {Listener}
      /\ UNCHANGED <<closed, hungup, up, stream, owner>>
  BY DEF Bind
<1>2. master = {} /\ server = "starting"
  BY <1>1 DEF RoomInv, SockInv, Phases, Starting
<1>3. LetIn' = LetIn
  BY <1>1, <1>2 DEF LetIn
<1> QED BY <1>1, <1>2, <1>3, QuietStep DEF Quiet, Open

(* select() finds only sockets in master.                                  *)
LEMMA SelectStep == RoomInv /\ Select => RoomStep
<1> SUFFICES ASSUME RoomInv, Select PROVE RoomStep
  OBVIOUS
<1>1. ~ \E f \in master \ {Listener} : owner[f] = NoClient
  BY Typing DEF RoomInv, SockInv, MasterTracksSockets
<1>2. /\ pc = "select" /\ pc' = "scan"
      /\ UNCHANGED <<server, closed, hungup, up, stream, owner, master>>
  BY <1>1 DEF Select
<1> QED BY <1>2, LetInSame, QuietStep DEF Quiet, Open

(* exit() closes the room.                                                 *)
LEMMA ExitStep == RoomInv /\ Exit => RoomStep
<1> SUFFICES ASSUME RoomInv, Exit PROVE RoomStep
  OBVIOUS
<1>1. /\ pc \in {"boot", "bind", "ask", "post"} /\ pc' = "exited"
      /\ server' = "down"
      /\ UNCHANGED <<closed, hungup, stream, owner, master>>
  BY DEF Exit
<1>2. Open /\ ~Open'
  BY <1>1 DEF RoomInv, SockInv, Phases, Starting, Serving, Fetching, Open
<1>3. \A c \in Client : Told(c)' = Told(c)
  BY <1>1 DEF Told
<1>4. ViewNow' = ViewNow
  BY <1>1, <1>3, LetInSame, ViewSame
<1> QED BY <1>1, <1>2, <1>4, LetInSame, MakesClose

(* A newcomer is let in when it is in master; one that cannot be accepted  *)
(* is forgotten.                                                           *)
LEMMA AcceptStep == RoomInv /\ Accept => RoomStep
<1> SUFFICES ASSUME RoomInv, Accept PROVE RoomStep
  OBVIOUS
<1>0. TypeInv /\ Phases /\ MasterTracksSockets
  BY DEF RoomInv, SockInv
<1>1. /\ pc = "scan" /\ pc' = "ask" /\ backlog # << >>
      /\ UNCHANGED <<server, closed, hungup, stream, master>>
  BY DEF Accept, Turn
<1>2. Quiet /\ Quiet' /\ Open /\ Open'
  BY <1>0, <1>1 DEF Quiet, Open, Phases, Serving
<1>3. CASE UNCHANGED up
  <2>1. \A f \in master \ {Listener} : owner'[f] = owner[f]
    <3>1. \/ UNCHANGED owner
          \/ \E f \in Fd \ {Listener} :
                owner[f] = NoClient /\ owner' = [owner EXCEPT ![f] = Head(backlog)]
      BY DEF Accept
    <3>2. \A f \in master \ {Listener} : owner[f] # NoClient
      BY <1>0, Typing DEF MasterTracksSockets
    <3> QED BY <1>0, <3>1, <3>2, Typing
  <2>2. LetIn' = LetIn
    BY <1>1, <2>1 DEF LetIn
  <2> QED BY <1>1, <1>2, <1>3, <2>2, QuietStep DEF Open
<1>4. CASE ~ UNCHANGED up
  <2> DEFINE c == Head(backlog)
  <2>1. c \in Client
    BY <1>0, <1>1, Typing
  <2>2. c \in hungup /\ up' = [up EXCEPT ![c] = << >>] /\ UNCHANGED owner
    BY <1>4 DEF Accept
  <2> HIDE DEF c
  <2>3. UnsaidNow' = [UnsaidNow EXCEPT ![c] = << >>]
    <3>1. \A d \in Client : Unsaid(d) = up[d] /\ Unsaid(d)' = up'[d]
      <4>1. \A d \in Client : up[d] \in Seq(Byte)
        BY <1>0, Typing
      <4>2. \A d \in Client : up'[d] \in Seq(Byte)
        BY <1>0, <2>1, <2>2, Typing, CutType
      <4> QED BY <1>1, <1>2, <4>1, <4>2 DEF Unsaid, Open
    <3>2. \A d \in Client : up'[d] = IF d = c THEN << >> ELSE up[d]
      BY <1>0, <2>1, <2>2, Typing
    <3> QED BY <2>1, <3>1, <3>2 DEF UnsaidNow
  <2>4. ViewNow' = ViewNow
    BY <1>1, <1>2, <2>2, QuietTold, LetInSame, ViewSame
  <2> QED BY <1>1, <1>2, <2>1, <2>2, <2>3, <2>4, LetInSame, MakesForget
<1> QED BY <1>3, <1>4

(* Who is there has a socket in master, within the loop's reach.           *)
LEMMA ThereHasSocket ==
    ASSUME SockInv, Farewell, NEW d \in LetIn, d \notin hungup
    PROVE  \E f \in master : f # Listener /\ f <= fdmax /\ owner[f] = d
BY DEF SockInv, MasterTracksSockets, Farewell, LetIn

(* A newcomer enters the room, and everybody in it is to be told.          *)
LEMMA WelcomeStep == SetsSuffice /\ RoomInv /\ TypeInv' /\ Welcome => RoomStep
<1> SUFFICES ASSUME SetsSuffice, RoomInv, TypeInv', Welcome PROVE RoomStep
  OBVIOUS
<1>0. TypeInv /\ Phases /\ Cursor /\ MasterTracksSockets /\ InHand
  BY DEF RoomInv, SockInv, TypeInv
<1>1. /\ pc = "welcome"
      /\ UNCHANGED <<server, hungup, closed, up, owner>>
  BY DEF Welcome
<1>2. Open /\ Open'
  BY <1>0, <1>1 DEF Open, Phases, Serving, Fetching
<1>3. CASE newfd = -1
  <2>1. pc' = "scan" /\ UNCHANGED <<stream, master>>
    BY <1>3 DEF Welcome
  <2> QED BY <1>1, <1>2, <2>1, LetInSame, QuietStep DEF Quiet
<1>4. CASE newfd # -1
  <2> DEFINE c == owner[newfd]
  <2>1. /\ newfd \in Fd /\ newfd \notin master /\ newfd # Listener
        /\ c \in Client
    BY <1>0, <1>1, <1>4, Typing DEF Cursor, Fetching, InHand
  <2>2. /\ pc' = "announce" /\ i' = i /\ j' = 0
        /\ outgoing' = Joined(c)
        /\ fdmax' = IF newfd > fdmax THEN newfd ELSE fdmax
        /\ master' = FdSet(newfd, master)
        /\ stream' = IF latest16Messages = NoHistory THEN stream
                     ELSE [stream EXCEPT
                             ![c] = Sent(c, History(c, latest16Messages))]
    BY <1>4 DEF Welcome
  <2>3. master' = master \cup {newfd} /\ i = Listener
    BY <1>0, <1>1, <2>1, <2>2, FdSetAdds, Typing DEF Cursor, Fetching
  <2>4. c \notin LetIn
    <3>1. c \notin closed
      BY <2>1 DEF RoomInv, Farewell
    <3>2. \A f \in master : owner[f] # c
      BY <1>0, <2>1, Typing DEF MasterTracksSockets
    <3> QED BY <3>1, <3>2 DEF LetIn
  <2>5. LetIn' = LetIn \cup {c}
    BY <1>1, <2>1, <2>3 DEF LetIn
  <2> HIDE DEF c
  <2>6. stream[c] = << >>
    BY <2>1, <2>4 DEF RoomInv, Sending
  <2>7. \A d \in Client : Keep(stream'[d], Heard(d)) = Keep(stream[d], Heard(d))
    <3>0. stream \in [Client -> Seq(Item)]
      BY <1>0 DEF TypeInv, TypeOK, SocketsTypeOK
    <3>1. ASSUME NEW d \in Client, d # c PROVE stream'[d] = stream[d]
      BY <2>1, <2>2, <3>0, <3>1
    <3>2. stream'[c] = << >> \/ stream'[c] = <<History(c, latest16Messages)>>
      BY <2>1, <2>2, <2>6, <3>0 DEF Sent
    <3>3. History(c, latest16Messages) \notin Heard(c)
      BY DEF History, Heard, Talk
    <3>4. \A x : x \notin Heard(c) => Keep(<<x>>, Heard(c)) = << >>
      <4> SUFFICES ASSUME NEW x, x \notin Heard(c) PROVE Keep(<<x>>, Heard(c)) = << >>
        OBVIOUS
      <4>1. <<x>> \in Seq({x}) /\ {x} \cap Heard(c) = {}
        OBVIOUS
      <4> QED BY <4>1, KeepNone
    <3>5. Keep(stream'[c], Heard(c)) = << >>
      BY <3>2, <3>3, <3>4, KeepEmpty
    <3> QED BY <2>6, <3>1, <3>5, KeepEmpty
  <2>8. \A d \in Client : Told(d) = Keep(stream[d], Heard(d))
    BY <1>0, <1>1, ToldIs DEF Hears
  <2>9. \A d \in (LetIn \ hungup) \ {c} : Hears(d)'
    <3> SUFFICES ASSUME NEW d \in (LetIn \ hungup) \ {c} PROVE Hears(d)'
      OBVIOUS
    <3>1. PICK f \in master : f # Listener /\ f <= fdmax /\ owner[f] = d
      BY ThereHasSocket DEF RoomInv
    <3>2. f \in Nat /\ newfd \in Nat /\ fdmax \in Nat /\ owner[f] # NoClient
      BY <1>0, <2>1, <3>1, Typing DEF MasterTracksSockets
    <3>3. f \in Pending'
      BY <2>2, <2>3, <3>1, <3>2 DEF Pending, InLoop
    <3>4. Joined(c) \in Heard(d)
      BY <2>1 DEF Heard, Talk, Joined
    <3> QED BY <1>1, <2>2, <3>1, <3>3, <3>4 DEF Hears, Heard, Talk
  <2>10. ASSUME NEW d \in Client
         PROVE  ViewNow'[d] = IF d \in (LetIn \ hungup) \ {c}
                              THEN Append(ViewNow[d], Joined(c)) ELSE ViewNow[d]
    <3>1. Told(d)' = IF Hears(d)' THEN Append(Keep(stream'[d], Heard(d)), outgoing')
                     ELSE Keep(stream'[d], Heard(d))
      BY ToldIsNext
    <3>2. /\ ViewNow[d] = IF d \in LetIn \ hungup THEN Told(d) ELSE << >>
          /\ ViewNow'[d] = IF d \in LetIn' \ hungup THEN Told(d)' ELSE << >>
      BY <1>1 DEF ViewNow
    <3>3. CASE d = c
      <4>1. ~ Hears(d)'
        BY <2>2, <3>3 DEF Hears, Heard, Talk
      <4>2. Told(d)' = << >>
        BY <2>6, <2>7, <3>1, <3>3, <4>1, KeepEmpty
      <4> QED BY <2>4, <3>2, <3>3, <4>2
    <3>4. CASE d \in (LetIn \ hungup) \ {c}
      BY <2>2, <2>5, <2>7, <2>8, <2>9, <3>1, <3>2, <3>4
    <3>5. CASE d \notin LetIn \ hungup /\ d # c
      BY <2>5, <3>2, <3>5
    <3> QED BY <3>3, <3>4, <3>5
  <2>11. \A d \in Client : Unsaid(d)' = Unsaid(d)
    BY <1>1, <2>2 DEF Unsaid
  <2>12. UnsaidNow' = UnsaidNow
    BY <2>11, UnsaidSame
  <2> QED BY <1>1, <1>2, <2>1, <2>4, <2>5, <2>10, <2>12, MakesArrive
<1> QED BY <1>3, <1>4

(* A broadcast is made when it starts: what it still sends has been told.  *)
LEMMA BroadcastTold ==
    RoomInv /\ TypeInv' /\ BroadcastStep => RoomStep
<1> SUFFICES ASSUME RoomInv, TypeInv', BroadcastStep PROVE RoomStep
  OBVIOUS
<1>0. TypeInv /\ MasterTracksSockets /\ InHand
  BY DEF RoomInv, SockInv, TypeInv
<1>1. /\ pc \in {"announce", "forward"} /\ pc' = pc
      /\ UNCHANGED <<server, hungup, closed, up, i, fdmax, master, owner, outgoing>>
  BY DEF BroadcastStep
<1>2. PICK f \in Pending :
         /\ \A g \in Pending : f <= g
         /\ stream' = IF owner[f] \in Client
                      THEN [stream EXCEPT ![owner[f]] = Sent(owner[f], outgoing)]
                      ELSE stream
         /\ j' = f + 1
  BY DEF BroadcastStep
<1>3. f \in master /\ f # Listener /\ f \in Nat /\ Pending \subseteq Nat /\ j \in Nat
      /\ j <= f
  BY <1>0, Typing DEF Pending
<1> DEFINE c == owner[f]
<1>4. c \in Client
  BY <1>0, <1>3 DEF MasterTracksSockets
<1>5. stream' = [stream EXCEPT ![c] = Sent(c, outgoing)]
  BY <1>2, <1>4
<1>6. Pending' = Pending \ {f}
  <2>1. ASSUME NEW g \in master, g \in Nat
        PROVE  g \in Pending' <=> g \in Pending \ {f}
    BY <1>1, <1>2, <1>3, <2>1 DEF Pending, InLoop
  <2> QED BY <1>0, <1>1, <2>1, Typing DEF Pending
<1>7. \A g \in Pending : owner[g] = c => g = f
  BY <1>0, <1>2, <1>4, Typing DEF MasterTracksSockets, Pending
<1> HIDE DEF c
<1>9. ASSUME NEW d \in Client \ hungup PROVE Told(d)' = Told(d)
  <2>0. stream \in [Client -> Seq(Item)]
    BY <1>0 DEF TypeInv, TypeOK, SocketsTypeOK
  <2>1. /\ Told(d) = IF Hears(d) THEN Append(Keep(stream[d], Heard(d)), outgoing)
                     ELSE Keep(stream[d], Heard(d))
        /\ Told(d)' = IF Hears(d)' THEN Append(Keep(stream'[d], Heard(d)), outgoing')
                      ELSE Keep(stream'[d], Heard(d))
    BY <1>0, ToldIs, ToldIsNext
  <2>2. CASE d = c
    <3>1. /\ Hears(d) <=> outgoing \in Heard(d)
          /\ ~ Hears(d)'
      BY <1>1, <1>2, <1>6, <1>7, <2>2 DEF Hears, c
    <3>2. stream'[d] = Append(stream[d], outgoing)
      BY <1>4, <1>5, <1>9, <2>0, <2>2 DEF Sent
    <3>3. Keep(stream'[d], Heard(d)) =
             IF outgoing \in Heard(d) THEN Append(Keep(stream[d], Heard(d)), outgoing)
             ELSE Keep(stream[d], Heard(d))
      BY <2>0, <3>2, KeepAppend
    <3> QED BY <2>1, <3>1, <3>3
  <2>3. CASE d # c
    <3>1. Hears(d)' <=> Hears(d)
      BY <1>1, <1>2, <1>6, <2>3 DEF Hears, Heard, Talk, c
    <3>2. stream'[d] = stream[d]
      BY <1>5, <2>0, <2>3
    <3> QED BY <1>1, <2>1, <3>1, <3>2
  <2> QED BY <2>2, <2>3
<1>10. ViewNow' = ViewNow
  BY <1>1, <1>9, LetInSame DEF ViewNow
<1>11. \A d \in Client : Unsaid(d)' = Unsaid(d)
  BY <1>1 DEF Unsaid
<1> QED BY <1>1, <1>10, <1>11, LetInSame, UnsaidSame, MakesNothing DEF Open

(* At the end of a broadcast everybody has been told already.              *)
LEMMA BroadcastDoneStep == RoomInv /\ BroadcastDone => RoomStep
<1> SUFFICES ASSUME RoomInv, BroadcastDone PROVE RoomStep
  OBVIOUS
<1>1. /\ pc \in {"announce", "forward"} /\ pc' = "scan" /\ Pending = {}
      /\ UNCHANGED <<server, hungup, closed, up, stream, master, owner>>
  BY DEF BroadcastDone, sockVars
<1>2. \A c \in Client : Told(c)' = Told(c)
  BY <1>1 DEF Told
<1>3. \A c \in Client : Unsaid(c)' = Unsaid(c)
  BY <1>1 DEF Unsaid
<1> QED BY <1>1, <1>2, <1>3, LetInSame, ViewSame, UnsaidSame, MakesNothing DEF Open

(* What recv took and what it left are what was there.                     *)
LEMMA RecvStep == RoomInv /\ Recv => RoomStep
<1> SUFFICES ASSUME RoomInv, Recv PROVE RoomStep
  OBVIOUS
<1>0. TypeInv /\ Phases
  BY DEF RoomInv, SockInv
<1>1. /\ pc = "scan" /\ pc' = "post"
      /\ UNCHANGED <<server, hungup, closed, stream, master, owner>>
  BY DEF Recv, Turn
<1>2. Open /\ Open'
  BY <1>0, <1>1 DEF Open, Phases, Serving
<1>3. PICK c \in Client, n \in Nat :
         /\ n \in 1..Len(up[c])
         /\ outgoing' = Chat(c, SubSeq(up[c], 1, n))
         /\ up' = [up EXCEPT ![c] = SubSeq(@, n + 1, Len(@))]
  <2>1. PICK f \in Fd \ {Listener} :
           /\ owner[f] \in Client
           /\ \E n \in 1..Len(up[owner[f]]) :
              /\ outgoing' = Chat(owner[f], SubSeq(up[owner[f]], 1, n))
              /\ up' = [up EXCEPT ![owner[f]] = SubSeq(@, n + 1, Len(@))]
    BY DEF Recv
  <2>2. \A n \in 1..Len(up[owner[f]]) : n \in Nat
    OBVIOUS
  <2> QED BY <2>1, <2>2
<1>4. ASSUME NEW d \in Client PROVE Unsaid(d)' = Unsaid(d)
  <2>0. up \in [Client -> Seq(Byte)]
    BY <1>0, Typing
  <2>1. Unsaid(d) = up[d]
    BY <1>0, <1>1, <1>2, UnsaidIs DEF Open
  <2>2. CASE d = c
    <3>1. Unsaid(d)' = SubSeq(up[c], 1, n) \o SubSeq(up[c], n + 1, Len(up[c]))
      BY <1>1, <1>2, <1>3, <2>0, <2>2 DEF Unsaid, Open, Chat
    <3>2. SubSeq(up[c], 1, n) \o SubSeq(up[c], n + 1, Len(up[c])) = up[c]
      <4>1. up[c] \in Seq(Byte)
        BY <2>0
      <4>2. /\ SubSeq(up[c], 1, n) \o SubSeq(up[c], n + 1, Len(up[c]))
               = SubSeq(up[c], 1, Len(up[c]))
            /\ SubSeq(up[c], 1, Len(up[c])) = up[c]
        BY <1>3, <4>1, ConcatAdjacentSubSeq, SubSeqFull
      <4> QED BY <4>2
    <3> QED BY <2>1, <2>2, <3>1, <3>2
  <2>3. CASE d # c
    <3>1. Unsaid(d)' = << >> \o up[d]
      BY <1>1, <1>2, <1>3, <2>0, <2>3 DEF Unsaid, Open, Chat
    <3>2. up[d] \in Seq(Byte)
      BY <2>0
    <3> QED BY <2>1, <3>1, <3>2
  <2> QED BY <2>2, <2>3
<1>5. \A d \in Client : Told(d)' = Told(d)
  BY <1>1 DEF Told
<1> QED BY <1>1, <1>4, <1>5, LetInSame, ViewSame, UnsaidSame, MakesNothing DEF Open

(* Who is found to have left is forgotten, and stays one that had come in. *)
LEMMA RecvEndLetIn ==
    ASSUME SockInv, RecvEnd
    PROVE  \E f \in master \ {Listener} :
              /\ f \in Fd /\ owner[f] \in Client /\ owner[f] \in hungup
              /\ owner' = [owner EXCEPT ![f] = NoClient]
              /\ closed' = closed \cup {owner[f]}
              /\ up' = [up EXCEPT ![owner[f]] = << >>]
              /\ master' = master \ {f}
              /\ LetIn' = LetIn
<1>0. TypeInv /\ MasterTracksSockets
  BY DEF SockInv
<1>1. PICK f \in Fd \ {Listener} :
         /\ pc = "scan"
         /\ owner[f] \in hungup
         /\ owner' = [owner EXCEPT ![f] = NoClient]
         /\ closed' = closed \cup {owner[f]}
         /\ up' = [up EXCEPT ![owner[f]] = << >>]
         /\ master' = master \ {f}
  BY DEF RecvEnd, Turn, Close, FdClr
<1>2. owner[f] \in Client
  BY <1>0, <1>1 DEF TypeInv, TypeOK, SocketsTypeOK
<1>3. f \in master
  BY <1>0, <1>1, <1>2 DEF MasterTracksSockets, Welcoming
<1>4. LetIn' = LetIn
  <2>1. \A g \in master' : owner'[g] = owner[g] /\ g \in master
    BY <1>0, <1>1, Typing
  <2> QED BY <1>1, <1>3, <2>1 DEF LetIn
<1> QED BY <1>1, <1>2, <1>3, <1>4

(* A client that has hung up is closed: what it had not got across is      *)
(* forgotten.                                                              *)
LEMMA RecvEndStep == RoomInv /\ RecvEnd => RoomStep
<1> SUFFICES ASSUME RoomInv, RecvEnd PROVE RoomStep
  OBVIOUS
<1>0. TypeInv /\ Phases
  BY DEF RoomInv, SockInv
<1>1. /\ pc = "scan" /\ pc' = pc
      /\ UNCHANGED <<server, hungup, stream>>
  BY DEF RecvEnd, Turn
<1>2. PICK c \in Client : c \in hungup /\ up' = [up EXCEPT ![c] = << >>]
  BY RecvEndLetIn DEF RoomInv
<1>3. LetIn' = LetIn
  BY RecvEndLetIn DEF RoomInv
<1>4. Open /\ Open' /\ Quiet /\ Quiet'
  BY <1>0, <1>1 DEF Open, Quiet, Phases, Serving
<1>5. UnsaidNow' = [UnsaidNow EXCEPT ![c] = << >>]
  <2>1. up \in [Client -> Seq(Byte)] /\ up' \in [Client -> Seq(Byte)]
    BY <1>0, <1>2, Typing, CutType
  <2>2. \A d \in Client : Unsaid(d) = up[d] /\ Unsaid(d)' = up'[d]
    BY <1>1, <1>4, <2>1 DEF Unsaid, Open
  <2>3. \A d \in Client : up'[d] = IF d = c THEN << >> ELSE up[d]
    BY <1>2, <2>1
  <2> QED BY <2>2, <2>3 DEF UnsaidNow
<1>6. ViewNow' = ViewNow
  BY <1>1, <1>3, <1>4, QuietTold, ViewSame
<1> QED BY <1>1, <1>2, <1>3, <1>4, <1>5, <1>6, MakesForget

(* A message is passed on when its broadcast starts.                       *)
LEMMA PostStep == RoomInv /\ TypeInv' /\ Post => RoomStep
<1> SUFFICES ASSUME RoomInv, TypeInv', Post PROVE RoomStep
  OBVIOUS
<1>0. TypeInv /\ Phases /\ Cursor /\ MasterTracksSockets /\ InHand
  BY DEF RoomInv, SockInv, TypeInv
<1>1. /\ pc = "post" /\ pc' = "forward" /\ j' = 0
      /\ UNCHANGED <<server, hungup, closed, up, stream, i, fdmax, master, owner,
                     outgoing>>
  BY DEF Post, sockVars
<1>2. Open /\ Open' /\ UNCHANGED <<Open, LetIn, hungup>>
  BY <1>0, <1>1, LetInSame DEF Open, Phases, Serving
<1> DEFINE c == outgoing.who
           n == Len(outgoing.data)
<1>3. i \in Fd /\ owner[i] = c /\ c \in Client /\ i \in master /\ i # Listener
  BY <1>0, <1>1, Typing DEF Cursor, MasterTracksSockets, Welcoming
<1>4. c \in LetIn
  BY <1>3 DEF LetIn
<1>5. /\ outgoing.data \in Seq(Byte) /\ up[c] \in Seq(Byte)
      /\ n \in 1..BufSize /\ n \in Nat
  BY <1>0, <1>1, <1>3, Typing DEF InHand, RoomInv, Sending
<1>6. outgoing = Chat(c, outgoing.data)
  BY <1>0, <1>1 DEF InHand, Item, Chat
<1> HIDE DEF c, n
<1>7. UnsaidNow[c] = outgoing.data \o up[c]
  BY <1>1, <1>2, <1>3 DEF UnsaidNow, Unsaid, Open, c
<1>8. /\ Len(UnsaidNow[c]) = n + Len(up[c]) /\ Len(up[c]) \in Nat
      /\ SubSeq(UnsaidNow[c], 1, n) = outgoing.data
      /\ SubSeq(UnsaidNow[c], n + 1, Len(UnsaidNow[c])) = up[c]
  <2>1. /\ Len(outgoing.data \o up[c]) = n + Len(up[c])
        /\ SubSeq(outgoing.data \o up[c], 1, n) = outgoing.data
        /\ SubSeq(outgoing.data \o up[c], n + 1, Len(outgoing.data \o up[c]))
              = up[c]
    BY <1>5, ConcatParts, Zenon DEF n
  <2>2. Len(up[c]) \in Nat
    BY <1>5
  <2> QED BY <1>7, <2>1, <2>2, Zenon
<1>9. UnsaidNow' = [UnsaidNow EXCEPT ![c] = SubSeq(@, n + 1, Len(@))]
  <2>1. ASSUME NEW d \in Client
        PROVE  Unsaid(d)' = IF d = c THEN up[c] ELSE Unsaid(d)
    <3>1. up[d] \in Seq(Byte)
      BY <1>0, Typing
    <3>2. Unsaid(d)' = up[d]
      BY <1>1, <1>2, <3>1 DEF Unsaid, Open
    <3>3. d # c => Unsaid(d) = << >> \o up[d]
      BY <1>1, <1>2, Zenon DEF Unsaid, Open, c
    <3>4. << >> \o up[d] = up[d]
      BY <3>1
    <3> QED BY <3>2, <3>3, <3>4
  <2> QED BY <1>3, <1>8, <2>1 DEF UnsaidNow
<1>10. ASSUME NEW d \in Client
       PROVE  ViewNow'[d] = IF d \in (LetIn \ hungup) \ {c}
                            THEN Append(ViewNow[d], outgoing) ELSE ViewNow[d]
  <2>1. Told(d) = Keep(stream[d], Heard(d))
    BY <1>0, <1>1, ToldIs DEF Hears
  <2>2. Told(d)' = IF Hears(d)' THEN Append(Keep(stream[d], Heard(d)), outgoing)
                   ELSE Keep(stream[d], Heard(d))
    BY <1>1, ToldIsNext
  <2>3. /\ ViewNow[d] = IF d \in LetIn \ hungup THEN Told(d) ELSE << >>
        /\ ViewNow'[d] = IF d \in LetIn \ hungup THEN Told(d)' ELSE << >>
    BY <1>2 DEF ViewNow
  <2>4. d = c => ~ Hears(d)'
    <3>1. \A f \in Pending' : f \in Fd /\ f # i
      BY <1>0, <1>1, Typing DEF Pending
    <3> QED BY <1>0, <1>1, <1>3, <3>1 DEF Hears, MasterTracksSockets
  <2>5. ASSUME d \in (LetIn \ hungup) \ {c} PROVE Hears(d)'
    <3>1. PICK f \in master : f # Listener /\ f <= fdmax /\ owner[f] = d
      BY <2>5, ThereHasSocket DEF RoomInv
    <3>2. f \in Nat /\ f # i
      BY <1>0, <1>3, <2>5, <3>1, Typing
    <3>3. f \in Pending'
      BY <1>1, <3>1, <3>2 DEF Pending, InLoop
    <3>4. outgoing \in Heard(d)
      BY <1>0, <1>1 DEF InHand, Item, Heard, Talk, Joined
    <3> QED BY <1>1, <3>1, <3>3, <3>4 DEF Hears, Heard, Talk
  <2> QED BY <2>1, <2>2, <2>3, <2>4, <2>5
<1>11. n \in 1..Len(UnsaidNow[c]) /\ n <= BufSize
  BY <1>5, <1>8, ServerAssumption
<1>12. outgoing = Chat(c, SubSeq(UnsaidNow[c], 1, n))
  BY <1>6, <1>8
<1> QED BY <1>2, <1>3, <1>4, <1>9, <1>10, <1>11, <1>12, MakesPassOn

(* The clients connect, leave, say something, or read.                     *)
LEMMA ClientRoomStep ==
    ASSUME RoomInv, NEW c \in Client, ClientStep(c)
    PROVE  RoomStep
<1>0. TypeInv
  BY DEF RoomInv, SockInv
<1>1. UNCHANGED <<server, closed, stream, serverVars>>
  BY DEF ClientStep, ClientNext, Connect, ConnectRefused, SendLine, Receive, Quit
<1>2. UNCHANGED <<Open, LetIn>> /\ \A d \in Client : Told(d)' = Told(d)
  BY <1>1, LetInSame DEF serverVars, Open, Told, Pending, InLoop
<1>3. CASE Connect(c) \/ Receive(c)
  <2>1. UNCHANGED <<hungup, up>>
    BY <1>3 DEF Connect, Receive
  <2>2. \A d \in Client : Unsaid(d)' = Unsaid(d)
    BY <1>1, <2>1 DEF serverVars, Unsaid
  <2> QED BY <1>2, <2>1, <2>2, ViewSame, UnsaidSame, MakesNothing
<1>4. CASE ConnectRefused(c) \/ Quit(c)
  <2>1. hungup' = hungup \cup {c} /\ c \notin hungup /\ UNCHANGED up
    BY <1>4 DEF ConnectRefused, Quit, RoomInv, Farewell
  <2>2. \A d \in Client : Unsaid(d)' = Unsaid(d)
    BY <1>1, <2>1 DEF serverVars, Unsaid
  <2> QED BY <1>2, <2>1, <2>2, UnsaidSame, MakesLeave
<1>5. CASE SendLine(c)
  <2>1. c \notin hungup /\ UNCHANGED hungup /\ c \notin closed
    BY <1>5 DEF SendLine, RoomInv, Farewell
  <2>2. ViewNow' = ViewNow
    BY <1>2, <2>1, ViewSame
  <2>3. PICK line \in Line :
          up' = IF server = "down" THEN up ELSE [up EXCEPT ![c] = @ \o line]
    BY <1>5, <2>1 DEF SendLine
  <2>4. CASE server = "down"
    <3>1. \A d \in Client : Unsaid(d)' = Unsaid(d)
      BY <1>1, <2>3, <2>4 DEF serverVars, Unsaid
    <3> QED BY <1>2, <2>1, <2>2, <3>1, UnsaidSame, MakesNothing
  <2>5. CASE server # "down"
    <3>0. up \in [Client -> Seq(Byte)]
      BY <1>0, Typing
    <3>1. \A d \in Client : up'[d] = IF d = c THEN up[d] \o line ELSE up[d]
      BY <2>3, <2>5, <3>0
    <3>2. ASSUME NEW d \in Client
          PROVE  Unsaid(d)' = IF d = c THEN Unsaid(d) \o line ELSE Unsaid(d)
      <4> DEFINE held == IF pc = "post" /\ outgoing.who = d
                         THEN outgoing.data ELSE << >>
      <4>1. Unsaid(d) = held \o up[d] /\ Unsaid(d)' = held \o up'[d]
        BY <1>1, <2>5 DEF serverVars, Unsaid
      <4>2. held \in Seq(Byte) /\ up[d] \in Seq(Byte) /\ line \in Seq(Byte)
        BY <1>0, <3>0, ClientAssumption DEF TypeInv, InHand
      <4> HIDE DEF held
      <4>3. (held \o up[d]) \o line = held \o (up[d] \o line)
        <5>1. \A s, u, v \in Seq(Byte) : (s \o u) \o v = s \o (u \o v)
          BY ConcatAssociative
        <5> QED BY <4>2, <5>1, Zenon
      <4> QED BY <3>1, <4>1, <4>3
    <3>3. UnsaidNow' = [UnsaidNow EXCEPT ![c] = @ \o line]
      BY <3>2 DEF UnsaidNow
    <3>4. Open
      BY <2>5 DEF Open
    <3> QED BY <1>2, <2>1, <2>2, <3>3, <3>4, MakesSay
  <2> QED BY <2>4, <2>5
<1> QED BY <1>3, <1>4, <1>5 DEF ClientStep, ClientNext

(* The web server is not in the room.                                      *)
LEMMA IdleRoomStep == ASSUME UNCHANGED <<sockVars, serverVars>> PROVE RoomStep
<1>1. UNCHANGED <<Open, LetIn, hungup>>
  BY LetInSame DEF sockVars, serverVars, Open
<1>2. \A d \in Client : Told(d)' = Told(d) /\ Unsaid(d)' = Unsaid(d)
  BY DEF sockVars, serverVars, Told, Pending, InLoop, Unsaid
<1> QED BY <1>1, <1>2, ViewSame, UnsaidSame, MakesNothing

(* Every step is one of the room, or none.                                 *)
LEMMA EveryStep ==
    SetsSuffice /\ RoomInv /\ TypeInv' /\ [Next]_vars => RoomStep
<1> SUFFICES ASSUME SetsSuffice, RoomInv, TypeInv', [Next]_vars PROVE RoomStep
  OBVIOUS
<1>1. ASSUME ServerNext PROVE RoomStep
  BY <1>1, ExitStep, FetchStep, BindStep, SelectStep, AcceptStep, WelcomeStep,
     BroadcastTold, BroadcastDoneStep, RecvStep, RecvEndStep, PostStep
     DEF ServerNext
<1>2. CASE ServerStep
  BY <1>1, <1>2 DEF ServerStep
<1>3. CASE WebStep
  BY <1>3, IdleRoomStep DEF WebStep
<1>4. ASSUME NEW c \in Client, ClientStep(c) PROVE RoomStep
  BY <1>4, ClientRoomStep
<1>5. CASE UNCHANGED vars
  BY <1>5, IdleRoomStep DEF vars
<1> QED BY <1>2, <1>3, <1>4, <1>5 DEF Next

-----------------------------------------------------------------------------
(* Farewell and Sending hold at first, and every step keeps them.          *)
LEMMA RoomInvInit == Init => RoomInv
<1> SUFFICES ASSUME Init PROVE RoomInv
  OBVIOUS
<1>1. SockInv
  BY SockInit
<1>2. Farewell
  BY DEF Init, SocketsInit, Farewell
<1>3. Sending
  BY DEF Init, SocketsInit, ServerInit, Sending
<1> QED BY <1>1, <1>2, <1>3 DEF RoomInv

(* The web server's steps keep the invariant.                              *)
LEMMA RoomInvWeb == ASSUME RoomInv, SockInv', UNCHANGED <<sockVars, serverVars>>
                    PROVE  RoomInv'
<1>1. LetIn' = LetIn
  BY LetInSame DEF sockVars, serverVars
<1>2. Farewell'
  BY DEF sockVars, serverVars, RoomInv, Farewell
<1>3. Sending'
  BY <1>1 DEF sockVars, serverVars, RoomInv, Sending
<1> QED BY <1>2, <1>3 DEF RoomInv

(* The clients' steps keep it.                                             *)
LEMMA RoomInvClient ==
    ASSUME RoomInv, SockInv', NEW c \in Client, ClientStep(c) PROVE RoomInv'
<1>1. UNCHANGED <<closed, stream, serverVars>>
  BY DEF ClientStep, ClientNext, Connect, ConnectRefused, SendLine, Receive, Quit
<1>2. Sending'
  <2>1. LetIn' = LetIn
    BY <1>1, LetInSame DEF serverVars
  <2> QED BY <1>1, <2>1 DEF serverVars, RoomInv, Sending
<1>3. Farewell'
  <2>1. CASE Connect(c)
    <3>1. /\ c \notin dialed /\ dialed' = dialed \cup {c}
          /\ backlog' = Append(backlog, c) /\ UNCHANGED hungup
      BY <2>1 DEF Connect
    <3>2. c \notin closed
      BY <3>1 DEF RoomInv, Farewell
    <3>3. \A k \in 1..Len(backlog') :
             backlog'[k] = c \/ (k \in 1..Len(backlog) /\ backlog'[k] = backlog[k])
      <4>1. backlog \in Seq(Client)
        BY Typing DEF RoomInv, SockInv
      <4> QED BY <3>1, <4>1
    <3> QED BY <1>1, <3>1, <3>2, <3>3 DEF serverVars, RoomInv, Farewell
  <2>2. CASE ~Connect(c)
    <3>1. dialed \subseteq dialed' /\ hungup' \subseteq hungup \cup {c} /\ c \in dialed'
          /\ hungup \subseteq hungup' /\ UNCHANGED backlog
      BY <2>2 DEF ClientStep, ClientNext, ConnectRefused, SendLine, Receive, Quit,
                  RoomInv, Farewell
    <3> QED BY <1>1, <3>1 DEF serverVars, RoomInv, Farewell
  <2> QED BY <2>1, <2>2
<1> QED BY <1>2, <1>3 DEF RoomInv

(* A step of the server that ends no connection and accepts none, ...      *)
LEMMA FarewellKept ==
    ASSUME Farewell, UNCHANGED <<dialed, hungup, closed, owner>>,
           backlog' = backlog \/ backlog' = << >>
    PROVE  Farewell'
BY DEF Farewell

(* ... that sends nothing, and handles no new item.                        *)
LEMMA SendingKept ==
    ASSUME Sending, UNCHANGED stream, LetIn \subseteq LetIn',
           pc' = "post" => UNCHANGED <<pc, outgoing>>
    PROVE  Sending'
BY DEF Sending

(* The server's steps keep it.                                             *)
LEMMA RoomInvServer ==
    ASSUME SetsSuffice, RoomInv, SockInv', ServerNext PROVE RoomInv'
<1>0. SockInv /\ TypeInv /\ Farewell /\ Sending /\ MasterTracksSockets /\ Cursor /\ Queue
  BY DEF RoomInv, SockInv
<1> SUFFICES Farewell' /\ Sending'
  BY DEF RoomInv
<1>1. CASE Exit
  BY <1>0, <1>1, LetInSame, FarewellKept, SendingKept DEF Exit
<1>2. CASE BootFetch \/ FetchHistory \/ EndPass
  <2>1. /\ UNCHANGED <<sockVars, owner, master>>
        /\ pc' \notin {"announce", "post"}
    BY <1>2 DEF BootFetch, FetchHistory, EndPass, AskHistory, ReadHistory,
                ReadRest, sockVars
  <2> QED BY <1>0, <2>1, LetInSame, FarewellKept, SendingKept DEF sockVars
<1>3. CASE Bind
  <2>1. /\ UNCHANGED <<backlog, dialed, hungup, closed, stream, owner>>
        /\ pc' = "select" /\ pc = "bind"
    BY <1>3 DEF Bind
  <2>2. master = {}
    BY <2>1 DEF RoomInv, SockInv, Phases, Starting
  <2>3. LetIn \subseteq LetIn'
    BY <2>1, <2>2 DEF LetIn
  <2> QED BY <1>0, <2>1, <2>3, FarewellKept, SendingKept
<1>4. CASE Select
  <2>1. /\ UNCHANGED <<dialed, hungup, closed, stream, owner, master>>
        /\ backlog' = backlog \/ backlog' = << >>
        /\ pc' \notin {"announce", "post"}
    BY <1>4 DEF Select
  <2> QED BY <1>0, <2>1, LetInSame, FarewellKept, SendingKept
<1>5. CASE Accept
  <2>1. /\ UNCHANGED <<dialed, hungup, closed, stream, master>>
        /\ pc' = "ask" /\ backlog # << >>
        /\ backlog' = Tail(backlog) \/ UNCHANGED <<backlog, owner>>
        /\ \/ UNCHANGED owner
           \/ \E f \in Fd \ {Listener} :
                 owner[f] = NoClient /\ owner' = [owner EXCEPT ![f] = Head(backlog)]
    BY <1>5 DEF Accept
  <2>2. \A f \in Fd : owner'[f] = owner[f] \/ owner'[f] = Head(backlog)
    BY <1>0, <2>1, Typing
  <2>3. /\ Head(backlog) = backlog[1] /\ 1 \in 1..Len(backlog)
        /\ \A k \in 1..Len(backlog') :
              \E m \in 1..Len(backlog) : backlog'[k] = backlog[m]
    <3>1. backlog \in Seq(Client)
      BY <1>0, Typing
    <3>2. CASE backlog' = Tail(backlog)
      <4>1. \A k \in 1..Len(backlog') :
               k + 1 \in 1..Len(backlog) /\ backlog'[k] = backlog[k + 1]
        BY <2>1, <3>1, <3>2
      <4> QED BY <2>1, <3>1, <4>1
    <3>3. CASE UNCHANGED backlog
      BY <2>1, <3>1, <3>3
    <3> QED BY <2>1, <3>2, <3>3
  <2>4. Farewell'
    BY <1>0, <2>1, <2>2, <2>3 DEF Farewell
  <2>5. \A f \in master \ {Listener} : owner'[f] = owner[f]
    <3>1. \A f \in master \ {Listener} : owner[f] # NoClient
      BY <1>0, Typing DEF MasterTracksSockets
    <3> QED BY <1>0, <2>1, <3>1, Typing
  <2>6. LetIn' = LetIn
    BY <2>1, <2>5 DEF LetIn
  <2> QED BY <1>0, <2>1, <2>4, <2>6, SendingKept
<1>6. CASE Welcome
  <2>1. UNCHANGED <<backlog, dialed, hungup, closed, owner>> /\ pc = "welcome"
    BY <1>6 DEF Welcome
  <2>2. Farewell'
    BY <1>0, <2>1, FarewellKept
  <2>3. CASE newfd = -1
    <3>1. UNCHANGED <<stream, master>> /\ pc' = "scan"
      BY <1>6, <2>3 DEF Welcome
    <3> QED BY <1>0, <2>1, <2>2, <3>1, LetInSame, SendingKept
  <2>4. CASE newfd # -1
    <3>1. /\ newfd \in Fd /\ newfd \notin master /\ newfd # Listener
          /\ owner[newfd] \in Client
      BY <1>0, <2>1, <2>4, Typing DEF Cursor, Fetching, TypeInv, InHand
    <3>2. master' = master \cup {newfd}
      BY <1>0, <1>6, <2>4, <3>1, FdSetAdds, Typing DEF Welcome
    <3>3. LetIn \subseteq LetIn' /\ owner[newfd] \in LetIn'
      BY <2>1, <3>1, <3>2 DEF LetIn
    <3>4. \A c \in Client : c # owner[newfd] => stream'[c] = stream[c]
      <4>1. stream \in [Client -> Seq(Item)]
        BY <1>0 DEF TypeInv, TypeOK, SocketsTypeOK
      <4> QED BY <1>6, <2>4, <4>1 DEF Welcome
    <3>5. pc' = "announce"
      BY <1>6, <2>4 DEF Welcome
    <3> QED BY <1>0, <2>2, <3>3, <3>4, <3>5 DEF Sending
  <2> QED BY <2>3, <2>4
<1>7. CASE BroadcastStep
  <2>1. /\ UNCHANGED <<backlog, dialed, hungup, closed, owner, master, outgoing>>
        /\ pc' = pc
    BY <1>7 DEF BroadcastStep
  <2>2. PICK f \in Pending :
           stream' = IF owner[f] \in Client
                     THEN [stream EXCEPT ![owner[f]] = Sent(owner[f], outgoing)]
                     ELSE stream
    BY <1>7 DEF BroadcastStep
  <2>3. LetIn' = LetIn /\ owner[f] \in LetIn
    BY <2>1, LetInSame DEF LetIn, Pending
  <2>4. \A c \in Client : c # owner[f] => stream'[c] = stream[c]
    <3>1. stream \in [Client -> Seq(Item)]
      BY <1>0 DEF TypeInv, TypeOK, SocketsTypeOK
    <3> QED BY <2>2, <3>1
  <2> QED BY <1>0, <2>1, <2>3, <2>4, FarewellKept DEF Sending
<1>8. CASE BroadcastDone
  BY <1>0, <1>8, LetInSame, FarewellKept, SendingKept DEF BroadcastDone, sockVars
<1>9. CASE Recv
  <2>1. /\ UNCHANGED <<backlog, dialed, hungup, closed, stream, owner, master>>
        /\ pc' = "post"
        /\ \E f \in Fd \ {Listener} :
              /\ owner[f] \in Client
              /\ \E n \in 1..Len(up[owner[f]]) :
                    /\ n <= BufSize
                    /\ outgoing' = Chat(owner[f], SubSeq(up[owner[f]], 1, n))
    BY <1>9 DEF Recv
  <2>2. Len(outgoing'.data) \in 1..BufSize
    <3>1. PICK c \in Client :
             \E n \in 1..Len(up[c]) :
                n <= BufSize /\ outgoing' = Chat(c, SubSeq(up[c], 1, n))
      BY <2>1
    <3>4. PICK n \in 1..Len(up[c]) :
             n <= BufSize /\ outgoing' = Chat(c, SubSeq(up[c], 1, n))
      BY <3>1
    <3>2. up[c] \in Seq(Byte)
      BY <1>0, Typing
    <3>3. Len(SubSeq(up[c], 1, n)) = n
      BY <3>2
    <3> QED BY <3>4, <3>3, ServerAssumption DEF Chat
  <2> QED BY <1>0, <2>1, <2>2, LetInSame, FarewellKept DEF Sending
<1>10. CASE RecvEnd
  <2>1. PICK f \in master \ {Listener} :
           /\ f \in Fd /\ owner[f] \in Client /\ owner[f] \in hungup
           /\ owner' = [owner EXCEPT ![f] = NoClient]
           /\ closed' = closed \cup {owner[f]}
           /\ LetIn' = LetIn
    BY <1>0, <1>10, RecvEndLetIn
  <2>2. /\ UNCHANGED <<backlog, dialed, hungup, stream, outgoing>>
        /\ pc = "scan" /\ pc' = pc
    BY <1>10 DEF RecvEnd, Turn
  <2>3. ASSUME NEW g \in Fd PROVE owner'[g] \notin closed'
    <3>1. owner \in [Fd -> Client \cup {NoClient}] /\ closed' \subseteq Client
      BY <1>0, <2>1, Typing DEF TypeInv, TypeOK, SocketsTypeOK
    <3>2. CASE g = f
      BY <2>1, <3>1, <3>2, ServerAssumption
    <3>3. CASE g # f
      BY <1>0, <2>1, <3>1, <3>3, ServerAssumption DEF MasterTracksSockets, Farewell
    <3> QED BY <3>2, <3>3
  <2>4. \A k \in 1..Len(backlog') : backlog'[k] \notin closed'
    BY <1>0, <2>1, <2>2 DEF Queue, Farewell
  <2>5. Farewell'
    BY <1>0, <2>1, <2>2, <2>3, <2>4 DEF Farewell
  <2> QED BY <1>0, <2>1, <2>2, <2>5, SendingKept
<1>11. CASE Post
  BY <1>0, <1>11, LetInSame, FarewellKept, SendingKept DEF Post, sockVars
<1> QED BY <1>1, <1>2, <1>3, <1>4, <1>5, <1>6, <1>7, <1>8, <1>9, <1>10, <1>11
        DEF ServerNext

(* Every step keeps it.                                                    *)
LEMMA RoomInvStep == SetsSuffice /\ RoomInv /\ [Next]_vars => RoomInv'
<1> SUFFICES ASSUME SetsSuffice, RoomInv, [Next]_vars PROVE RoomInv'
  OBVIOUS
<1>1. SockInv'
  BY SockStep DEF RoomInv
<1>2. CASE ServerStep
  BY <1>1, <1>2, RoomInvServer DEF ServerStep
<1>3. CASE WebStep
  BY <1>1, <1>3, RoomInvWeb DEF WebStep
<1>4. ASSUME NEW c \in Client, ClientStep(c) PROVE RoomInv'
  BY <1>1, <1>4, RoomInvClient
<1>5. CASE UNCHANGED vars
  BY <1>1, <1>5, RoomInvWeb DEF vars
<1> QED BY <1>2, <1>3, <1>4, <1>5 DEF Next

(* "Server application forwards received message to all other              *)
(* participants" (README.md:52), and all of them hear the same, in one     *)
(* order: main()'s loops of sends, interrupted by closes, newcomers and    *)
(* minutes of HTTP, implement a room in which everything said is heard at  *)
(* once.                                                                   *)
THEOREM RoomImplemented ==
    ASSUME SetsSuffice
    PROVE  Spec => ImplementsChatRoom
<1>1. Init => RoomInv /\ Room!Init
  BY RoomInvInit, RoomInitially
<1>2. RoomInv /\ [Next]_vars => RoomInv'
  BY RoomInvStep
<1>3. RoomInv /\ RoomInv' /\ [Next]_vars => [Room!Next]_(Room!roomVars)
  <2>1. RoomInv' => TypeInv'
    BY DEF RoomInv, SockInv
  <2> QED BY <2>1, EveryStep DEF RoomStep
<1> QED BY <1>1, <1>2, <1>3, PTL DEF Spec, ImplementsChatRoom, Room!Spec
=============================================================================
