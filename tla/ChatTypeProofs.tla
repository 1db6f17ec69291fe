--------------------------- MODULE ChatTypeProofs ---------------------------
(***************************************************************************)
(* Module Chat keeps its types, for every value of its constants.          *)
(***************************************************************************)
EXTENDS Chat, KeepingProofs

(* What executionMsg()'s filter leaves of a text is a text.                *)
LEMMA LettersType ==
    ASSUME NEW text \in Seq(Byte)
    PROVE  Letters(text) \in Seq(Byte)
BY KeepIsSeq DEF Letters

-----------------------------------------------------------------------------
(* What the thread holds at the call it is about to make: the accepted     *)
(* socket while the history is fetched, an item while it broadcasts.       *)
InHand ==
    /\ pc \in {"ask", "recv1", "recv2", "welcome"} /\ newfd # -1 =>
          owner[newfd] \in Client
    /\ pc = "announce" => outgoing \in Item /\ outgoing.kind = "joined"
    /\ pc \in {"post", "forward"} =>
          /\ outgoing \in Item
          /\ outgoing.kind = "chat"
          /\ outgoing.data \in Seq(Byte)

TypeInv == TypeOK /\ InHand

(* The three kinds of items are items, and sending one keeps streams typed.*)
LEMMA ItemTypes ==
    ASSUME NEW c \in Client
    PROVE  /\ \A msgs \in Seq(Seq(Byte)) : History(c, msgs) \in Item
           /\ Joined(c) \in Item /\ Joined(c).kind = "joined"
           /\ \A bytes \in Seq(Byte) :
                 /\ Chat(c, bytes) \in Item
                 /\ Chat(c, bytes).kind = "chat"
                 /\ Chat(c, bytes).data = bytes
BY DEF History, Joined, Chat, Item

LEMMA SentType ==
    ASSUME TypeOK, NEW c \in Client, NEW item \in Item
    PROVE  [stream EXCEPT ![c] = Sent(c, item)] \in [Client -> Seq(Item)]
BY DEF TypeOK, SocketsTypeOK, Sent

(* A client's unread bytes dropped are still typed; so is a list of posts. *)
LEMMA CutType ==
    ASSUME NEW g \in [Client -> Seq(Byte)], NEW c \in Client
    PROVE  [g EXCEPT ![c] = << >>] \in [Client -> Seq(Byte)]
OBVIOUS

LEMMA AppendType ==
    ASSUME NEW S, NEW s \in Seq(S), NEW x \in S
    PROVE  Append(s, x) \in Seq(S)
OBVIOUS

(* The initial state satisfies the type invariant.                         *)
LEMMA TypeInit == Init => TypeInv
<1> SUFFICES ASSUME Init PROVE TypeInv
  OBVIOUS
<1> USE DEF Init
<1>1. SocketsTypeOK
  BY DEF SocketsInit, SocketsTypeOK
<1>2. ServerTypeOK
  BY DEF ServerInit, ServerTypeOK, PCs
<1>3. ClientTypeOK
  BY DEF ClientInit, ClientTypeOK
<1>4. store \in Seq(Seq(Byte)) /\ posts \in Seq(Seq(Byte))
      /\ get \in GetState /\ reply \in Seq(Seq(Byte)) /\ storedBefore \in Nat
  BY DEF WebInit, GetState
<1>5. InHand
  BY DEF ServerInit, InHand
<1> QED BY <1>1, <1>2, <1>3, <1>4, <1>5 DEF TypeInv, TypeOK

(* A step of the web server preserves it.                                  *)
LEMMA TypeWeb == TypeInv /\ WebStep => TypeInv'
<1> SUFFICES ASSUME TypeInv, WebStep PROVE TypeInv'
  OBVIOUS
<1> USE DEF TypeInv, TypeOK
<1>1. SocketsTypeOK' /\ ServerTypeOK' /\ ClientTypeOK' /\ InHand'
  BY DEF WebStep, sockVars, serverVars, clientVars, SocketsTypeOK,
         ServerTypeOK, ClientTypeOK, InHand
<1>2. ASSUME WebNext
      PROVE  /\ store' \in Seq(Seq(Byte)) /\ posts' \in Seq(Seq(Byte))
             /\ get' \in GetState /\ reply' \in Seq(Seq(Byte))
             /\ storedBefore' \in Nat
  <2>1. CASE WebStore
    BY <2>1 DEF WebStore
  <2>2. CASE WebAnswer
    BY <2>2, WebAssumption DEF WebAnswer, Latest, GetState
  <2>3. CASE WebClose
    BY <2>3 DEF WebClose, GetState
  <2>4. CASE WebReset
    BY <2>4 DEF WebReset, GetState
  <2> QED BY <1>2, <2>1, <2>2, <2>3, <2>4 DEF WebNext
<1> QED BY <1>1, <1>2 DEF WebStep

(* A step of a client preserves it.                                        *)
LEMMA TypeClient ==
    ASSUME NEW c \in Client PROVE TypeInv /\ ClientStep(c) => TypeInv'
<1> SUFFICES ASSUME TypeInv, ClientStep(c) PROVE TypeInv'
  OBVIOUS
<1> USE DEF TypeInv, TypeOK
<1>1. /\ ServerTypeOK' /\ InHand'
      /\ store' \in Seq(Seq(Byte)) /\ posts' \in Seq(Seq(Byte))
      /\ get' \in GetState /\ reply' \in Seq(Seq(Byte)) /\ storedBefore' \in Nat
  BY DEF ClientStep, webVars, serverVars, ServerTypeOK, InHand
<1>2. SocketsTypeOK' /\ ClientTypeOK'
  <2> USE DEF SocketsTypeOK, ClientTypeOK
  <2>1. CASE Connect(c)
    BY <2>1 DEF Connect
  <2>2. CASE ConnectRefused(c)
    BY <2>2 DEF ConnectRefused
  <2>3. CASE SendLine(c)
    BY <2>3, ClientAssumption DEF SendLine
  <2>4. CASE Receive(c)
    BY <2>4 DEF Receive
  <2>5. CASE Quit(c)
    BY <2>5 DEF Quit
  <2> QED BY <2>1, <2>2, <2>3, <2>4, <2>5 DEF ClientStep, ClientNext
<1> QED BY <1>1, <1>2

(* What is left of a step of the server when clientVars stays.             *)
WebTypeOK ==
    /\ store \in Seq(Seq(Byte))
    /\ posts \in Seq(Seq(Byte))
    /\ get \in GetState
    /\ reply \in Seq(Seq(Byte))
    /\ storedBefore \in Nat

(* The steps of the server that fetch the history.                         *)
LEMMA TypeFetch ==
    ASSUME TypeInv,
           NEW here \in PCs, NEW there \in {"bootRecv1", "bootRecv2", "bind",
                                            "recv1", "recv2", "welcome"},
           NEW keep,
           there \in {"recv1", "recv2", "welcome"} =>
               here \in {"ask", "recv1", "recv2"},
           \/ AskHistory(here, there)
           \/ ReadHistory(here, there, keep)
           \/ ReadRest(here, there)
    PROVE  SocketsTypeOK' /\ ServerTypeOK' /\ WebTypeOK' /\ InHand'
<1> USE DEF TypeInv, TypeOK
<1>1. UNCHANGED <<sockVars, store, posts, i, j, fdmax, newfd, master, read_fds,
                  owner, outgoing, log, since>> /\ pc = here /\ pc' = there
  BY DEF AskHistory, ReadHistory, ReadRest
<1>2. SocketsTypeOK' /\ InHand'
  BY <1>1 DEF sockVars, SocketsTypeOK, InHand
<1>3. /\ get' \in GetState
      /\ reply' \in Seq(Seq(Byte))
      /\ storedBefore' \in Nat
      /\ latest16Messages' \in Seq(Seq(Byte)) \cup {NoHistory}
  <2>1. CASE AskHistory(here, there)
    BY <2>1 DEF AskHistory, GetState, ServerTypeOK
  <2>2. CASE ReadHistory(here, there, keep)
    BY <2>2 DEF ReadHistory, ServerTypeOK
  <2>3. CASE ReadRest(here, there)
    BY <2>3 DEF ReadRest, GetState, ServerTypeOK
  <2> QED BY <2>1, <2>2, <2>3
<1>4. ServerTypeOK' /\ WebTypeOK'
  BY <1>1, <1>3 DEF ServerTypeOK, WebTypeOK, PCs
<1> QED BY <1>2, <1>4

(* A step of the server preserves it.                                      *)
LEMMA TypeServer == TypeInv /\ ServerStep => TypeInv'
<1> SUFFICES ASSUME TypeInv, ServerStep PROVE TypeInv'
  OBVIOUS
<1> USE DEF TypeInv, TypeOK
<1>1. ClientTypeOK'
  BY DEF ServerStep, clientVars, ClientTypeOK
<1> DEFINE Good == SocketsTypeOK' /\ ServerTypeOK' /\ WebTypeOK' /\ InHand'
<1>2. ASSUME ServerNext PROVE Good
  <2>1. CASE Exit
    BY <2>1 DEF Exit, webVars, SocketsTypeOK, ServerTypeOK, WebTypeOK, InHand, PCs
  <2>2. CASE BootFetch
    <3>1. /\ "boot" \in PCs /\ "bootRecv1" \in PCs /\ "bootRecv2" \in PCs
      BY DEF PCs
    <3> QED BY <2>2, <3>1, TypeFetch DEF BootFetch
  <2>3. CASE Bind
    BY <2>3, ServerAssumption DEF Bind, webVars, SocketsTypeOK, ServerTypeOK, WebTypeOK, InHand, PCs
  <2>4. CASE Select
    <3>1. SocketsTypeOK'
      <4>1. /\ server' \in {server, "down"}
            /\ backlog' = backlog \/ backlog' = << >>
            /\ UNCHANGED <<dialed, hungup, closed, up, stream, seen>>
        BY <2>4 DEF Select
      <4>2. backlog \in Seq(Client) /\ << >> \in Seq(Client)
        BY DEF SocketsTypeOK
      <4>3. backlog' \in Seq(Client)
        BY <4>1, <4>2, Zenon
      <4> QED BY <4>1, <4>3 DEF SocketsTypeOK
    <3>2. ServerTypeOK' /\ InHand'
      BY <2>4 DEF Select, ReadyFds, ServerTypeOK, InHand, PCs
    <3>3. WebTypeOK'
      BY <2>4 DEF Select, webVars, WebTypeOK
    <3> QED BY <3>1, <3>2, <3>3
  <2>5. CASE EndPass
    BY <2>5 DEF EndPass, sockVars, webVars, SocketsTypeOK, ServerTypeOK,
                WebTypeOK, InHand, PCs
  <2>6. CASE Accept
    <3>1. Head(backlog) \in Client /\ Tail(backlog) \in Seq(Client)
      BY <2>6 DEF Accept, SocketsTypeOK
    <3>2. SocketsTypeOK'
      <4>1. up' \in [Client -> Seq(Byte)]
        <5>1. \/ up' = up
              \/ up' = [up EXCEPT ![Head(backlog)] = << >>]
          BY <2>6 DEF Accept
        <5>2. up \in [Client -> Seq(Byte)]
          BY DEF SocketsTypeOK
        <5>3. [up EXCEPT ![Head(backlog)] = << >>] \in [Client -> Seq(Byte)]
          BY <5>2, <3>1, CutType
        <5> QED BY <5>1, <5>2, <5>3, Zenon
      <4> QED BY <2>6, <3>1, <4>1 DEF Accept, SocketsTypeOK
    <3>3. ServerTypeOK'
      BY <2>6, <3>1, ServerAssumption DEF Accept, ServerTypeOK, PCs
    <3>4. WebTypeOK'
      BY <2>6 DEF Accept, webVars, WebTypeOK
    <3>5. InHand'
      BY <2>6, <3>1 DEF Accept, InHand, ServerTypeOK
    <3> QED BY <3>2, <3>3, <3>4, <3>5
  <2>7. CASE FetchHistory
    <3>1. "ask" \in PCs /\ "recv1" \in PCs /\ "recv2" \in PCs
      BY DEF PCs
    <3> QED BY <2>7, <3>1, TypeFetch DEF FetchHistory
  <2>8. CASE Welcome
    <3>1. CASE newfd = -1
      <4>1. SocketsTypeOK'
        BY <2>8, <3>1 DEF Welcome, SocketsTypeOK
      <4>2. ServerTypeOK' /\ InHand'
        <5>1. /\ pc' = "scan"
              /\ i' = i + 1
              /\ UNCHANGED <<master, fdmax, outgoing, j, newfd, read_fds, owner,
                             latest16Messages, log, since>>
          BY <2>8, <3>1 DEF Welcome
        <5> QED BY <5>1 DEF ServerTypeOK, InHand, PCs
      <4>3. WebTypeOK'
        BY <2>8 DEF Welcome, webVars, WebTypeOK
      <4> QED BY <4>1, <4>2, <4>3
    <3>2. CASE newfd # -1
      <4>1. owner[newfd] \in Client /\ newfd \in Fd
        BY <2>8, <3>2 DEF Welcome, InHand, ServerTypeOK
      <4>2. \/ stream' = stream
            \/ /\ latest16Messages \in Seq(Seq(Byte))
               /\ stream' = [stream EXCEPT ![owner[newfd]] =
                      Sent(owner[newfd], History(owner[newfd], latest16Messages))]
        BY <2>8, <3>2 DEF Welcome, ServerTypeOK
      <4>3. stream' \in [Client -> Seq(Item)]
        <5>1. CASE stream' = stream
          BY <5>1 DEF SocketsTypeOK
        <5>2. CASE stream' # stream
          <6>1. History(owner[newfd], latest16Messages) \in Item
            BY <5>2, <4>1, <4>2, ItemTypes
          <6> QED BY <5>2, <4>1, <4>2, <6>1, SentType
        <5> QED BY <5>1, <5>2
      <4>4. Joined(owner[newfd]) \in Item /\ Joined(owner[newfd]).kind = "joined"
        BY <4>1, ItemTypes
      <4>5. SocketsTypeOK'
        BY <2>8, <4>3 DEF Welcome, SocketsTypeOK
      <4>6. ServerTypeOK' /\ InHand'
        <5>1. /\ outgoing' = Joined(owner[newfd])
              /\ pc' = "announce"
              /\ j' = 0
              /\ master' = FdSet(newfd, master)
              /\ fdmax' = IF newfd > fdmax THEN newfd ELSE fdmax
              /\ since' = [since EXCEPT ![owner[newfd]] = Len(log)]
              /\ UNCHANGED <<i, newfd, read_fds, owner, latest16Messages, log>>
          BY <2>8, <3>2 DEF Welcome
        <5>3. since' \in [Client -> Nat \cup {-1}]
          <6>1. Len(log) \in Nat /\ since \in [Client -> Nat \cup {-1}]
            BY DEF ServerTypeOK
          <6> QED BY <5>1, <6>1
        <5>2. master' \subseteq Fd /\ fdmax' \in Nat
          BY <5>1, <4>1, ServerAssumption DEF FdSet, ServerTypeOK
        <5> QED BY <5>1, <5>2, <5>3, <4>4 DEF ServerTypeOK, InHand, PCs
      <4>7. WebTypeOK'
        BY <2>8 DEF Welcome, webVars, WebTypeOK
      <4> QED BY <4>5, <4>6, <4>7
    <3> QED BY <3>1, <3>2
  <2>9. CASE BroadcastStep
    <3>1. PICK f \in Pending :
            /\ stream' = IF owner[f] \in Client
                         THEN [stream EXCEPT ![owner[f]] = Sent(owner[f], outgoing)]
                         ELSE stream
            /\ j' = f + 1
      BY <2>9 DEF BroadcastStep
    <3>2. f \in Nat
      BY ServerAssumption DEF Pending, ServerTypeOK
    <3>3. outgoing \in Item
      BY <2>9 DEF BroadcastStep, InHand
    <3>4. stream' \in [Client -> Seq(Item)]
      BY <3>1, <3>3, SentType DEF SocketsTypeOK
    <3>5. UNCHANGED <<server, backlog, dialed, hungup, closed, up, seen, webVars,
                      pc, i, fdmax, newfd, master, read_fds, owner, outgoing,
                      latest16Messages, log, since>>
      BY <2>9 DEF BroadcastStep
    <3>6. SocketsTypeOK'
      BY <3>4, <3>5 DEF SocketsTypeOK
    <3>7. ServerTypeOK' /\ InHand'
      BY <3>1, <3>2, <3>5 DEF ServerTypeOK, InHand
    <3>8. WebTypeOK'
      BY <3>5 DEF webVars, WebTypeOK
    <3> QED BY <3>6, <3>7, <3>8
  <2>10. CASE BroadcastDone
    BY <2>10 DEF BroadcastDone, sockVars, webVars, SocketsTypeOK, ServerTypeOK,
                 WebTypeOK, InHand, PCs
  <2>11. CASE Recv
    <3>1. PICK f \in Fd \ {Listener} :
            /\ owner[f] \in Client
            /\ \E n \in 1..Len(up[owner[f]]) :
                  /\ outgoing' = Chat(owner[f], SubSeq(up[owner[f]], 1, n))
                  /\ up' = [up EXCEPT ![owner[f]] =
                                 SubSeq(@, n + 1, Len(@))]
            /\ log' = Append(log, outgoing')
            /\ i' = f
            /\ pc' = "post"
            /\ UNCHANGED <<server, backlog, dialed, hungup, closed, stream,
                           seen, webVars, j, fdmax, newfd, master, read_fds,
                           owner, latest16Messages, since>>
      BY <2>11, Zenon DEF Recv
    <3> DEFINE c == owner[f]
    <3>2. PICK n \in 1..Len(up[c]) :
            /\ outgoing' = Chat(c, SubSeq(up[c], 1, n))
            /\ up' = [up EXCEPT ![c] = SubSeq(@, n + 1, Len(@))]
      BY <3>1
    <3>3. up[c] \in Seq(Byte)
      BY <3>1 DEF SocketsTypeOK
    <3>4. SubSeq(up[c], 1, n) \in Seq(Byte) /\ SubSeq(up[c], n + 1, Len(up[c])) \in Seq(Byte)
      BY <3>3
    <3>5. /\ outgoing' \in Item
          /\ outgoing'.kind = "chat"
          /\ outgoing'.data \in Seq(Byte)
      BY <3>1, <3>2, <3>4, ItemTypes
    <3>6. SocketsTypeOK'
      BY <3>1, <3>2, <3>4 DEF SocketsTypeOK
    <3>7. ServerTypeOK' /\ WebTypeOK' /\ InHand'
      BY <3>1, <3>5, ServerAssumption DEF webVars, ServerTypeOK, WebTypeOK, InHand, PCs
    <3> QED BY <3>6, <3>7
  <2>12. CASE RecvEnd
    <3>1. SocketsTypeOK'
      BY <2>12 DEF RecvEnd, SocketsTypeOK
    <3>2. ServerTypeOK' /\ WebTypeOK' /\ InHand'
      BY <2>12, ServerAssumption DEF RecvEnd, Turn, Close, FdClr, webVars, ServerTypeOK,
                   WebTypeOK, InHand
    <3> QED BY <3>1, <3>2
  <2>13. CASE Post
    <3>1. Letters(outgoing.data) \in Seq(Byte)
      BY <2>13, LettersType DEF Post, InHand
    <3>2. posts' \in Seq(Seq(Byte))
      <4>1. \/ posts' = posts
            \/ posts' = Append(posts, Letters(outgoing.data))
        BY <2>13 DEF Post
      <4>2. posts \in Seq(Seq(Byte))
        OBVIOUS
      <4>3. Append(posts, Letters(outgoing.data)) \in Seq(Seq(Byte))
        BY <4>2, <3>1, AppendType
      <4> QED BY <4>1, <4>2, <4>3
    <3> QED BY <2>13, <3>2 DEF Post, sockVars, SocketsTypeOK, ServerTypeOK,
               WebTypeOK, InHand, PCs
  <2> QED BY <1>2, <2>1, <2>2, <2>3, <2>4, <2>5, <2>6, <2>7, <2>8, <2>9,
             <2>10, <2>11, <2>12, <2>13 DEF ServerNext
<1> QED BY <1>1, <1>2 DEF ServerStep, WebTypeOK

(* Every step preserves the type invariant.                                *)
LEMMA TypeStep == TypeInv /\ [Next]_vars => TypeInv'
<1> SUFFICES ASSUME TypeInv, [Next]_vars PROVE TypeInv'
  OBVIOUS
<1>1. CASE ServerStep
  BY <1>1, TypeServer
<1>2. CASE WebStep
  BY <1>2, TypeWeb
<1>3. ASSUME NEW c \in Client, ClientStep(c) PROVE TypeInv'
  BY <1>3, TypeClient
<1>4. CASE UNCHANGED vars
  BY <1>4 DEF vars, sockVars, webVars, serverVars, clientVars, TypeInv, TypeOK,
              SocketsTypeOK, ServerTypeOK, ClientTypeOK, InHand
<1> QED BY <1>1, <1>2, <1>3, <1>4 DEF Next

(* Every variable keeps its type: what the composition is built on.        *)
THEOREM TypeCorrect == Spec => []TypeOK
<1>1. Init => TypeInv
  BY TypeInit
<1>2. TypeInv /\ [Next]_vars => TypeInv'
  BY TypeStep
<1>3. TypeInv => TypeOK
  BY DEF TypeInv
<1> QED BY <1>1, <1>2, <1>3, PTL DEF Spec
=============================================================================
