------------------------- MODULE ChatHistoryProofs -------------------------
(***************************************************************************)
(* What the web server holds and what newcomers get of it, for every value *)
(* of the constants and whatever fails, is split or overtaken: no message  *)
(* is stored more often than it was received (NothingStoredTwice); the     *)
(* history kept is one answer's, no older than the fetch that has just     *)
(* succeeded (WelcomeStaysFresh); and a newcomer hears every message after *)
(* its welcome, and in its history are messages before it (HistoryJoins).  *)
(***************************************************************************)
EXTENDS ChatProofs

(* The messages that sendMsgToHttp() has dealt with: all that were         *)
(* received, but for the one at hand.                                      *)
Handled == IF pc = "post" THEN SubSeq(log, 1, Len(log) - 1) ELSE log

(* The log is one of messages, and ends with the one at hand.              *)
LogHolds ==
    /\ log \in Seq(ChatsOf(Client))
    /\ Handled \in Seq(ChatsOf(Client))
    /\ pc = "post" => log = Append(Handled, outgoing)

(* StoredOnce, for every text and not for those only that are stored.      *)
StoredEach ==
    \A x \in Seq(Byte) :
        Times(x, store) + Times(x, posts) <= Times(x, Stored(Handled))

StoreInv == TypeInv /\ LogHolds /\ StoredEach

-----------------------------------------------------------------------------
(* Stored, for no message and for one more.                                *)
LEMMA StoredType ==
    ASSUME NEW s \in Seq(ChatsOf(Client))
    PROVE  /\ Stored(s) \in Seq(Seq(Byte)) /\ Len(Stored(s)) = Len(s)
           /\ \A k \in 1..Len(s) : Stored(s)[k] = Letters(s[k].data)
<1>1. Len(s) \in Nat /\ \A k \in 1..Len(s) : s[k].data \in Seq(Byte)
  <2>1. \A k \in 1..Len(s) : s[k] \in ChatsOf(Client)
    OBVIOUS
  <2> QED BY <2>1 DEF ChatsOf
<1>2. \A k \in 1..Len(s) : Letters(s[k].data) \in Seq(Byte)
  BY <1>1, LettersType
<1> QED BY <1>1, <1>2 DEF Stored

(* Of no messages nothing is stored.                                       *)
LEMMA StoredEmpty == Stored(<< >>) = << >>
<1>1. << >> \in Seq(ChatsOf(Client))
  OBVIOUS
<1>2. Stored(<< >>) \in Seq(Seq(Byte)) /\ Len(Stored(<< >>)) = 0
  BY <1>1, StoredType
<1> QED BY <1>2

(* The letters of one more message are stored behind the others.           *)
LEMMA StoredAppend ==
    ASSUME NEW s \in Seq(ChatsOf(Client)), NEW e \in ChatsOf(Client)
    PROVE  /\ Stored(Append(s, e)) = Append(Stored(s), Letters(e.data))
           /\ Letters(e.data) \in Seq(Byte)
<1> DEFINE t == Append(s, e)
           u == Append(Stored(s), Letters(e.data))
<1>1. /\ t \in Seq(ChatsOf(Client)) /\ Len(t) = Len(s) + 1 /\ Len(s) \in Nat
      /\ \A k \in 1..Len(s) : t[k] = s[k]
      /\ t[Len(s) + 1] = e
  OBVIOUS
<1>2. Letters(e.data) \in Seq(Byte)
  BY LettersType DEF ChatsOf
<1>3. /\ u \in Seq(Seq(Byte)) /\ Len(u) = Len(s) + 1
      /\ \A k \in 1..Len(s) : u[k] = Letters(s[k].data)
      /\ u[Len(s) + 1] = Letters(e.data)
  BY <1>2, StoredType
<1> HIDE DEF t, u
<1>4. /\ Stored(t) \in Seq(Seq(Byte)) /\ Len(Stored(t)) = Len(t)
      /\ \A k \in 1..Len(t) : Stored(t)[k] = Letters(t[k].data)
  BY <1>1, StoredType
<1>5. ASSUME NEW k \in 1..Len(t)
      PROVE  Stored(t)[k] = u[k]
  <2>1. Stored(t)[k] = Letters(t[k].data)
    BY <1>4
  <2>2. k \in 1..Len(s) \/ k = Len(s) + 1
    BY <1>1
  <2> QED BY <1>1, <1>3, <2>1, <2>2
<1>6. Stored(t) = u
  BY <1>1, <1>3, <1>4, <1>5, SeqEqual
<1> QED BY <1>2, <1>6 DEF t, u

-----------------------------------------------------------------------------
(* chat.php: what is stored was on its way.                                *)
LEMMA StoreKeepsCount ==
    ASSUME TypeInv, WebStore, NEW x
    PROVE  Times(x, store') + Times(x, posts') = Times(x, store) + Times(x, posts)
<1>1. store \in Seq(Seq(Byte)) /\ posts \in Seq(Seq(Byte))
  BY DEF TypeInv, TypeOK
<1>2. PICK k \in 1..Len(posts) :
         /\ store' = Append(store, posts[k])
         /\ posts' = SubSeq(posts, 1, k - 1) \o SubSeq(posts, k + 1, Len(posts))
  BY DEF WebStore
<1>3. posts[k] \in Seq(Byte)
  BY <1>1
<1>4. Times(x, store') = Times(x, store) + (IF posts[k] = x THEN 1 ELSE 0)
  BY <1>1, <1>2, <1>3, TimesAppend
<1>5. Times(x, posts) = Times(x, posts') + (IF posts[k] = x THEN 1 ELSE 0)
  BY <1>1, <1>2, TimesTaken DEF Without
<1>6. posts' \in Seq(Seq(Byte))
  BY <1>1, <1>2
<1>7. Times(x, store) \in Nat /\ Times(x, posts) \in Nat /\ Times(x, posts') \in Nat
  BY <1>1, <1>6, TimesType
<1> QED BY <1>4, <1>5, <1>7

(* A step that moves nothing: the thread is not at "post", before or after.*)
LEMMA StoreQuiet ==
    ASSUME StoreInv, UNCHANGED <<store, posts, log>>,
           pc = "post" => pc' = "post" /\ outgoing' = outgoing,
           pc' = "post" => pc = "post"
    PROVE  LogHolds' /\ StoredEach'
<1>1. Handled' = Handled
  BY DEF Handled, StoreInv
<1> QED BY <1>1 DEF StoreInv, LogHolds, StoredEach, Handled

(* The message at hand is dealt with: it may be stored now, or lost.       *)
LEMMA StoreHandled ==
    ASSUME StoreInv, pc = "post", pc' # "post", UNCHANGED <<store, log>>,
           posts' = posts \/ posts' = Append(posts, Letters(outgoing.data))
    PROVE  LogHolds' /\ StoredEach'
<1>0. /\ posts \in Seq(Seq(Byte)) /\ store \in Seq(Seq(Byte))
      /\ Handled \in Seq(ChatsOf(Client)) /\ log \in Seq(ChatsOf(Client))
      /\ log = Append(Handled, outgoing)
  BY DEF StoreInv, TypeInv, TypeOK, LogHolds
<1>1. Handled' = log /\ log' = log
  BY DEF Handled
<1>2. outgoing \in ChatsOf(Client)
  BY DEF StoreInv, TypeInv, InHand, Item, ChatsOf
<1>3. /\ Stored(log) = Append(Stored(Handled), Letters(outgoing.data))
      /\ Letters(outgoing.data) \in Seq(Byte)
      /\ Stored(Handled) \in Seq(Seq(Byte))
  BY <1>0, <1>2, StoredAppend, StoredType
<1>4. ASSUME NEW x \in Seq(Byte)
      PROVE  Times(x, store') + Times(x, posts') <= Times(x, Stored(log))
  <2>1. Times(x, Stored(log)) = Times(x, Stored(Handled))
                                + (IF Letters(outgoing.data) = x THEN 1 ELSE 0)
    BY <1>3, TimesAppend
  <2>2. Times(x, posts') <= Times(x, posts)
                            + (IF Letters(outgoing.data) = x THEN 1 ELSE 0)
    <3>1. Times(x, Append(posts, Letters(outgoing.data))) = Times(x, posts)
                            + (IF Letters(outgoing.data) = x THEN 1 ELSE 0)
      BY <1>0, <1>3, TimesAppend
    <3>2. Times(x, posts) \in Nat
      BY <1>0, TimesType
    <3>3. CASE posts' = posts
      <4>1. Times(x, posts') = Times(x, posts)
        BY <3>3
      <4> QED BY <3>2, <4>1
    <3>4. CASE posts' = Append(posts, Letters(outgoing.data))
      <4>1. Times(x, posts') = Times(x, posts)
                               + (IF Letters(outgoing.data) = x THEN 1 ELSE 0)
        BY <3>1, <3>4
      <4> QED BY <3>2, <4>1
    <3> QED BY <3>3, <3>4
  <2>3. Times(x, store) + Times(x, posts) <= Times(x, Stored(Handled))
    BY DEF StoreInv, StoredEach
  <2>4. /\ Times(x, store) \in Nat /\ Times(x, posts) \in Nat
        /\ Times(x, Stored(Handled)) \in Nat
    BY <1>0, <1>3, TimesType
  <2>5. posts' \in Seq(Seq(Byte))
    <3>1. Append(posts, Letters(outgoing.data)) \in Seq(Seq(Byte))
      BY <1>0, <1>3
    <3> QED BY <1>0, <3>1
  <2>6. Times(x, posts') \in Nat
    BY <2>5, TimesType
  <2> QED BY <2>1, <2>2, <2>3, <2>4, <2>6
<1>5. LogHolds'
  BY <1>0, <1>1 DEF LogHolds
<1>6. Stored(Handled)' = Stored(log)
  BY <1>1 DEF Stored
<1> QED BY <1>4, <1>5, <1>6 DEF StoredEach

(* A message is received: it is the one at hand.                           *)
LEMMA StoreReceives ==
    ASSUME StoreInv, Recv
    PROVE  LogHolds' /\ StoredEach'
<1>1. /\ pc = "scan" /\ pc' = "post" /\ UNCHANGED <<store, posts>>
      /\ log' = Append(log, outgoing')
  BY DEF Recv, Turn, webVars
<1>2. outgoing' \in ChatsOf(Client)
  <2>1. PICK f \in Fd \ {Listener} :
           /\ owner[f] \in Client
           /\ \E n \in 1..Len(up[owner[f]]) :
                 outgoing' = Chat(owner[f], SubSeq(up[owner[f]], 1, n))
    BY DEF Recv
  <2>2. PICK n \in 1..Len(up[owner[f]]) :
                 outgoing' = Chat(owner[f], SubSeq(up[owner[f]], 1, n))
    BY <2>1
  <2>3. up[owner[f]] \in Seq(Byte)
    BY <2>1 DEF StoreInv, TypeInv, TypeOK, SocketsTypeOK
  <2>4. SubSeq(up[owner[f]], 1, n) \in Seq(Byte)
    BY <2>2, <2>3
  <2> QED BY <2>1, <2>2, <2>4 DEF Chat, ChatsOf
<1>3. Handled = log /\ log \in Seq(ChatsOf(Client))
  BY <1>1 DEF Handled, StoreInv, LogHolds
<1>4. log' \in Seq(ChatsOf(Client)) /\ SubSeq(log', 1, Len(log') - 1) = log
  <2>1. ASSUME NEW e \in ChatsOf(Client)
        PROVE  /\ Append(log, e) \in Seq(ChatsOf(Client))
               /\ SubSeq(Append(log, e), 1, Len(Append(log, e)) - 1) = log
    BY <1>3, FrontAppend
  <2> QED BY <1>1, <1>2, <2>1
<1>5. Handled' = log
  BY <1>1, <1>4 DEF Handled
<1>6. LogHolds'
  BY <1>1, <1>3, <1>4, <1>5 DEF LogHolds
<1>7. Stored(Handled)' = Stored(Handled)
  BY <1>3, <1>5 DEF Stored
<1> QED BY <1>1, <1>6, <1>7 DEF StoreInv, StoredEach

-----------------------------------------------------------------------------
(* At first nothing is stored, on its way or received.                     *)
LEMMA StoreInit == Init => StoreInv
<1> SUFFICES ASSUME Init PROVE StoreInv
  OBVIOUS
<1>1. /\ pc = "boot" /\ log = << >> /\ store = << >> /\ posts = << >>
      /\ Handled = << >>
  BY DEF Init, ServerInit, WebInit, Handled
<1>2. LogHolds
  BY <1>1 DEF LogHolds
<1>3. StoredEach
  BY <1>1, StoredEmpty, TimesEmpty DEF StoredEach
<1> QED BY <1>2, <1>3, TypeInit DEF StoreInv

(* Every step keeps what is stored within what was received: only          *)
(* chat.php, a recv and the end of sendMsgToHttp() touch it.               *)
LEMMA StoreStep == StoreInv /\ [Next]_vars => StoreInv'
<1> SUFFICES ASSUME StoreInv, [Next]_vars PROVE LogHolds' /\ StoredEach'
  BY TypeStep DEF StoreInv
<1>0. TypeInv
  BY DEF StoreInv
<1>1. CASE UNCHANGED serverVars /\ UNCHANGED <<store, posts>>
  BY <1>1, StoreQuiet DEF serverVars
<1>2. CASE WebStep
  <2>1. CASE WebStore
    <3>1. UNCHANGED <<pc, log, outgoing>>
      BY <1>2 DEF WebStep, serverVars
    <3>2. Handled' = Handled
      BY <3>1 DEF Handled
    <3>3. LogHolds'
      BY <3>1, <3>2 DEF StoreInv, LogHolds
    <3>4. Stored(Handled)' = Stored(Handled)
      BY <3>2 DEF Stored
    <3>5. ASSUME NEW x \in Seq(Byte)
          PROVE  Times(x, store') + Times(x, posts') <= Times(x, Stored(Handled))
      BY <1>0, <2>1, StoreKeepsCount DEF StoreInv, StoredEach
    <3> QED BY <3>3, <3>4, <3>5 DEF StoredEach
  <2>2. CASE WebAnswer \/ WebClose \/ WebReset
    BY <1>1, <1>2, <2>2 DEF WebStep, WebAnswer, WebClose, WebReset
  <2> QED BY <1>2, <2>1, <2>2 DEF WebStep, WebNext
<1>3. CASE ServerStep
  <2> USE DEF webVars, sockVars
  <2>1. CASE Exit
    <3>1. UNCHANGED <<store, posts, log>> /\ pc' # "post"
      BY <2>1 DEF Exit
    <3> QED BY <3>1, StoreQuiet, StoreHandled
  <2>2. CASE Recv
    BY <2>2, StoreReceives
  <2>3. CASE Post
    BY <2>3, StoreHandled DEF Post
  <2>4. CASE BootFetch \/ Bind \/ Select \/ EndPass \/ Accept \/ FetchHistory
             \/ Welcome \/ BroadcastStep \/ BroadcastDone \/ RecvEnd
    <3>1. UNCHANGED <<store, posts, log>> /\ pc # "post" /\ pc' # "post"
      BY <2>4 DEF BootFetch, Bind, Select, EndPass, Accept, FetchHistory, Welcome,
             BroadcastStep, BroadcastDone, RecvEnd, Turn, AskHistory, ReadHistory,
             ReadRest
    <3> QED BY <3>1, StoreQuiet
  <2> QED BY <1>3, <2>1, <2>2, <2>3, <2>4 DEF ServerStep, ServerNext
<1>4. CASE UNCHANGED vars
  BY <1>1, <1>4 DEF vars, webVars
<1>5. ASSUME NEW c \in Client, ClientStep(c) PROVE LogHolds' /\ StoredEach'
  BY <1>1, <1>5 DEF ClientStep, webVars
<1> QED BY <1>2, <1>3, <1>4, <1>5 DEF Next

(* sendMsgToHttp() never stores a message twice: a request that failed,    *)
(* was lost or overtaken is not sent again, so nothing is on its way or    *)
(* stored more often than it was received.                                 *)
THEOREM NothingStoredTwice == Spec => []StoredOnce
<1>1. StoreInv => StoredOnce
  <2> SUFFICES ASSUME StoreInv,
                      NEW k \in 1..Len(store \o posts)
               PROVE  Times((store \o posts)[k], store \o posts)
                         <= Times((store \o posts)[k], Stored(Handled))
    BY DEF StoredOnce, Handled
  <2>1. store \in Seq(Seq(Byte)) /\ posts \in Seq(Seq(Byte))
    BY DEF StoreInv, TypeInv, TypeOK
  <2>2. (store \o posts)[k] \in Seq(Byte)
    <3>1. store \o posts \in Seq(Seq(Byte))
      BY <2>1
    <3> QED BY <3>1, ElementOfSeq
  <2>3. \A x : Times(x, store \o posts) = Times(x, store) + Times(x, posts)
    BY <2>1, TimesConcat
  <2> QED BY <2>2, <2>3 DEF StoreInv, StoredEach
<1> QED BY <1>1, StoreInit, StoreStep, PTL DEF Spec

-----------------------------------------------------------------------------
(* r is what history.php answers when some number of the messages, n or    *)
(* more, are stored.                                                       *)
AnswerSince(r, n) ==
    \E m \in n..Len(store) : r = Latest(HistoryLen, SubSeq(store, 1, m))

(* r is a beginning of such an answer, or all of it.                       *)
Received(r, n) ==
    \E m \in n..Len(store) :
        LET answer == Latest(HistoryLen, SubSeq(store, 1, m)) IN
        \E k \in 0..Len(answer) :
            r = SubSeq(answer, 1, k) /\ (SplitReply \/ k = Len(answer))

(* While its connection is open, the history is being fetched.             *)
Awaits ==
    /\ get # "idle" => pc \in {"bootRecv1", "bootRecv2", "recv1", "recv2"}
    /\ get = "asked" => pc \in {"bootRecv1", "recv1"}

(* What was stored when it was asked for is stored when it is answered: in *)
(* order also the requests sent before, of which none is sent meanwhile.   *)
Asked ==
    get = "asked" =>
        storedBefore <= IF InOrder THEN Len(store) + Len(posts) ELSE Len(store)

(* The answer that has not been read yet is whole.                         *)
Answered ==
    get \in {"answered", "done"} /\ pc \in {"bootRecv1", "recv1"} =>
        AnswerSince(reply, storedBefore)

(* WelcomeIsFresh.                                                         *)
Kept ==
    latest16Messages # NoHistory =>
        Received(latest16Messages,
                 IF pc = "recv2" /\ get # "reset" THEN storedBefore ELSE 0)

FreshInv == TypeInv /\ Awaits /\ Asked /\ Answered /\ Kept

(* The types that are needed of the web server.                            *)
LEMMA WebTypes ==
    ASSUME TypeInv
    PROVE  /\ store \in Seq(Seq(Byte)) /\ posts \in Seq(Seq(Byte))
           /\ reply \in Seq(Seq(Byte)) /\ storedBefore \in Nat
           /\ Len(store) \in Nat /\ Len(posts) \in Nat
BY DEF TypeInv, TypeOK

(* What is asked for less is received as well.                             *)
LEMMA ReceivedLess ==
    ASSUME NEW r, NEW n \in Nat, NEW k \in Nat, k <= n, Len(store) \in Nat,
           Received(r, n)
    PROVE  Received(r, k)
<1>1. n..Len(store) \subseteq k..Len(store)
  OBVIOUS
<1> QED BY <1>1 DEF Received

(* An answer stays one when more is stored.                                *)
LEMMA StillThere ==
    ASSUME store \in Seq(Seq(Byte)), NEW x \in Seq(Byte), store' = Append(store, x),
           NEW n \in Nat, NEW m \in n..Len(store)
    PROVE  m \in n..Len(store') /\ SubSeq(store', 1, m) = SubSeq(store, 1, m)
<1>1. /\ store' \in Seq(Seq(Byte)) /\ Len(store') = Len(store) + 1
      /\ Len(store) \in Nat
      /\ \A k \in 1..Len(store) : store'[k] = store[k]
  OBVIOUS
<1>2. m \in 0..Len(store) /\ m \in 0..Len(store')
  BY <1>1
<1>3. /\ SubSeq(store, 1, m) \in Seq(Seq(Byte)) /\ Len(SubSeq(store, 1, m)) = m
      /\ \A k \in 1..m : SubSeq(store, 1, m)[k] = store[k]
  BY <1>2, CutAt
<1>4. /\ SubSeq(store', 1, m) \in Seq(Seq(Byte)) /\ Len(SubSeq(store', 1, m)) = m
      /\ \A k \in 1..m : SubSeq(store', 1, m)[k] = store'[k]
  BY <1>1, <1>2, CutAt
<1>5. \A k \in 1..m : SubSeq(store', 1, m)[k] = SubSeq(store, 1, m)[k]
  BY <1>1, <1>2, <1>3, <1>4
<1>6. SubSeq(store', 1, m) = SubSeq(store, 1, m)
  BY <1>3, <1>4, <1>5, SeqEqual
<1> QED BY <1>1, <1>6

(* chat.php stores one message more.                                       *)
LEMMA FreshStored ==
    ASSUME FreshInv, WebStore, UNCHANGED <<pc, latest16Messages>>
    PROVE  Awaits' /\ Asked' /\ Answered' /\ Kept'
<1>0. FreshInv /\ TypeInv
  BY DEF FreshInv
<1>1. PICK k \in 1..Len(posts) :
         /\ store' = Append(store, posts[k])
         /\ posts' = SubSeq(posts, 1, k - 1) \o SubSeq(posts, k + 1, Len(posts))
         /\ UNCHANGED <<get, reply, storedBefore>>
  BY DEF WebStore
<1>2. /\ posts[k] \in Seq(Byte) /\ store \in Seq(Seq(Byte))
      /\ Len(store') = Len(store) + 1 /\ Len(posts') = Len(posts) - 1
      /\ Len(store) \in Nat /\ Len(posts) \in Nat /\ storedBefore \in Nat
  <2>1. posts \in Seq(Seq(Byte)) /\ store \in Seq(Seq(Byte)) /\ storedBefore \in Nat
    BY <1>0, WebTypes
  <2>2. posts[k] \in Seq(Byte) /\ Len(posts) \in Nat /\ Len(store) \in Nat
    BY <2>1
  <2>3. Len(store') = Len(store) + 1
    BY <1>1, <2>1
  <2>4. k - 1 \in 0..Len(posts) /\ k \in 0..Len(posts)
    BY <2>2
  <2>5. /\ SubSeq(posts, 1, k - 1) \in Seq(Seq(Byte))
        /\ Len(SubSeq(posts, 1, k - 1)) = k - 1
        /\ SubSeq(posts, k + 1, Len(posts)) \in Seq(Seq(Byte))
        /\ Len(SubSeq(posts, k + 1, Len(posts))) = Len(posts) - k
    BY <2>1, <2>4, CutAt
  <2>6. Len(posts') = (k - 1) + (Len(posts) - k)
    <3>1. \A p, q \in Seq(Seq(Byte)) : Len(p \o q) = Len(p) + Len(q)
      BY ConcatAt
    <3> QED BY <1>1, <2>5, <3>1
  <2>7. Len(posts') = Len(posts) - 1
    BY <2>2, <2>4, <2>6
  <2> QED BY <2>1, <2>2, <2>3, <2>7
<1>3. \A n \in Nat : \A m \in n..Len(store) :
         m \in n..Len(store') /\ SubSeq(store', 1, m) = SubSeq(store, 1, m)
  BY <1>1, <1>2, StillThere
<1>4. ASSUME NEW n \in Nat, NEW r, AnswerSince(r, n)
      PROVE  AnswerSince(r, n)'
  BY <1>3, <1>4 DEF AnswerSince
<1>5. ASSUME NEW n \in Nat, NEW r, Received(r, n)
      PROVE  \E m \in n..Len(store') :
                LET answer == Latest(HistoryLen, SubSeq(store', 1, m)) IN
                \E h \in 0..Len(answer) :
                   r = SubSeq(answer, 1, h) /\ (SplitReply \/ h = Len(answer))
  BY <1>3, <1>5 DEF Received
<1>6. Awaits' /\ Asked'
  <2>1. Awaits'
    BY <1>0, <1>1 DEF FreshInv, Awaits
  <2>2. /\ Len(store') + Len(posts') = Len(store) + Len(posts)
        /\ \A n \in Nat : n <= Len(store) => n <= Len(store')
    BY <1>2
  <2>3. Asked'
    BY <1>0, <1>1, <1>2, <2>2 DEF FreshInv, Asked
  <2> QED BY <2>1, <2>3
<1>7. Answered'
  BY <1>1, <1>2, <1>3 DEF FreshInv, Answered, AnswerSince
<1>8. Kept'
  <2> DEFINE from == IF pc = "recv2" /\ get # "reset" THEN storedBefore ELSE 0
  <2>1. from \in Nat /\ from' = from
    BY <1>1, <1>2
  <2>2. latest16Messages # NoHistory => Received(latest16Messages, from)
    BY DEF FreshInv, Kept
  <2> HIDE DEF from
  <2>3. Kept' <=> (latest16Messages # NoHistory =>
           \E m \in from..Len(store') :
                LET answer == Latest(HistoryLen, SubSeq(store', 1, m)) IN
                \E h \in 0..Len(answer) :
                   /\ latest16Messages = SubSeq(answer, 1, h)
                   /\ SplitReply \/ h = Len(answer))
    BY <2>1 DEF Kept, Received, from
  <2> QED BY <1>5, <2>1, <2>2, <2>3
<1> QED BY <1>6, <1>7, <1>8

(* history.php answers with the latest of what is stored.                  *)
LEMMA FreshAnswered ==
    ASSUME FreshInv, WebAnswer, UNCHANGED <<pc, latest16Messages>>
    PROVE  Awaits' /\ Asked' /\ Answered' /\ Kept'
<1>0. /\ store \in Seq(Seq(Byte)) /\ Len(store) \in Nat /\ storedBefore \in Nat
      /\ Len(posts) \in Nat
  BY WebTypes DEF FreshInv
<1>1. /\ get = "asked" /\ get' = "answered" /\ (InOrder => posts = << >>)
      /\ reply' = Latest(HistoryLen, store)
      /\ UNCHANGED <<store, posts, storedBefore>>
  BY DEF WebAnswer
<1>2. pc \in {"bootRecv1", "recv1"}
  BY <1>1 DEF FreshInv, Awaits
<1>3. storedBefore <= Len(store)
  BY <1>0, <1>1 DEF FreshInv, Asked
<1>4. SubSeq(store, 1, Len(store)) = store /\ Len(store) \in storedBefore..Len(store)
  BY <1>0, <1>3, SubSeqFull
<1>5. Answered'
  BY <1>1, <1>4 DEF Answered, AnswerSince
<1>6. Awaits' /\ Asked' /\ Kept'
  BY <1>1, <1>2 DEF FreshInv, Awaits, Asked, Kept, Received
<1> QED BY <1>5, <1>6

(* The connection is closed after the answer, or reset before it.          *)
LEMMA FreshEnded ==
    ASSUME FreshInv, WebClose \/ WebReset, UNCHANGED <<pc, latest16Messages>>
    PROVE  Awaits' /\ Asked' /\ Answered' /\ Kept'
<1>1. /\ UNCHANGED <<store, posts, reply, storedBefore>>
      /\ \/ get = "answered" /\ get' = "done"
         \/ get = "asked" /\ get' = "reset"
  BY DEF WebClose, WebReset
<1>2. get = "asked" => pc \in {"bootRecv1", "recv1"}
  BY DEF FreshInv, Awaits
<1> QED BY <1>1, <1>2 DEF FreshInv, Awaits, Asked, Answered, AnswerSince, Kept, Received

(* The thread does something else than fetch.                              *)
LEMMA FreshElse ==
    ASSUME FreshInv, UNCHANGED <<store, get, reply, storedBefore, latest16Messages>>,
           \/ pc' = pc /\ UNCHANGED posts
           \/ {pc, pc'} \cap {"bootRecv1", "bootRecv2", "recv1", "recv2"} = {}
    PROVE  Awaits' /\ Asked' /\ Answered' /\ Kept'
<1>1. CASE pc' = pc /\ UNCHANGED posts
  BY <1>1 DEF FreshInv, Awaits, Asked, Answered, AnswerSince, Kept, Received
<1>2. CASE {pc, pc'} \cap {"bootRecv1", "bootRecv2", "recv1", "recv2"} = {}
  <2>1. get = "idle" /\ pc # "recv2" /\ pc' # "recv2"
    BY <1>2 DEF FreshInv, Awaits
  <2> QED BY <2>1 DEF FreshInv, Awaits, Asked, Answered, Kept, Received
<1> QED BY <1>1, <1>2

(* The history is asked for.                                               *)
LEMMA FreshAsk ==
    ASSUME FreshInv, NEW here, NEW there \in {"bootRecv1", "recv1"},
           here # "recv2", AskHistory(here, there)
    PROVE  Awaits' /\ Asked' /\ Answered' /\ Kept'
<1>0. Len(store) \in Nat /\ Len(posts) \in Nat
  BY WebTypes DEF FreshInv
<1>1. /\ pc = here /\ pc' = there /\ get' \in {"asked", "reset"}
      /\ storedBefore' = IF InOrder THEN Len(store) + Len(posts) ELSE Len(store)
      /\ UNCHANGED <<store, posts, latest16Messages>>
  BY DEF AskHistory
<1>2. Awaits' /\ Asked' /\ Answered'
  BY <1>0, <1>1 DEF Awaits, Asked, Answered
<1>3. Kept'
  BY <1>1 DEF FreshInv, Kept, Received
<1> QED BY <1>2, <1>3

(* A part of the answer is read, or all of it, and kept for the newcomer.  *)
LEMMA FreshRead ==
    ASSUME FreshInv, NEW here, NEW there, NEW keep,
           \/ here = "bootRecv1" /\ there = "bootRecv2" /\ keep = FALSE
           \/ here = "recv1" /\ there = "recv2" /\ keep = TRUE,
           ReadHistory(here, there, keep)
    PROVE  Awaits' /\ Asked' /\ Answered' /\ Kept'
<1>0. /\ reply \in Seq(Seq(Byte)) /\ storedBefore \in Nat /\ Len(store) \in Nat
  BY WebTypes DEF FreshInv
<1>1. /\ pc = here /\ pc' = there /\ get \in {"answered", "done", "reset"}
      /\ UNCHANGED <<store, posts, get, storedBefore>>
  BY DEF ReadHistory
<1>2. PICK n \in 0..Len(reply) :
         /\ SplitReply \/ n = Len(reply)
         /\ latest16Messages' = IF keep /\ get # "reset"
                                THEN SubSeq(reply, 1, n)
                                ELSE latest16Messages
  BY DEF ReadHistory
<1>3. Awaits' /\ Asked' /\ Answered'
  BY <1>1 DEF Awaits, Asked, Answered
<1>4. CASE keep /\ get # "reset"
  <2>1. AnswerSince(reply, storedBefore)
    BY <1>1, <1>4 DEF FreshInv, Answered
  <2>2. Received(latest16Messages', storedBefore)
    BY <1>2, <1>4, <2>1 DEF AnswerSince, Received
  <2> QED BY <1>1, <1>3, <1>4, <2>2 DEF Kept, Received
<1>5. CASE ~ (keep /\ get # "reset")
  BY <1>1, <1>2, <1>3, <1>5 DEF FreshInv, Kept, Received
<1> QED BY <1>4, <1>5

(* The fetch ends.                                                         *)
LEMMA FreshRest ==
    ASSUME FreshInv, NEW here, NEW there, there \in {"bind", "welcome"},
           ReadRest(here, there)
    PROVE  Awaits' /\ Asked' /\ Answered' /\ Kept'
<1>0. storedBefore \in Nat /\ Len(store) \in Nat
  BY WebTypes DEF FreshInv
<1>1. /\ pc' = there /\ get' = "idle"
      /\ UNCHANGED <<store, latest16Messages>>
  BY DEF ReadRest
<1>2. Awaits' /\ Asked' /\ Answered'
  BY <1>1 DEF Awaits, Asked, Answered
<1>3. latest16Messages # NoHistory => Received(latest16Messages, 0)
  BY <1>0, ReceivedLess DEF FreshInv, Kept
<1>4. Kept'
  BY <1>1, <1>3 DEF Kept, Received
<1> QED BY <1>2, <1>4

(* At first no history was fetched.                                        *)
LEMMA FreshInit == Init => FreshInv
<1> SUFFICES ASSUME Init PROVE FreshInv
  OBVIOUS
<1>1. get = "idle" /\ latest16Messages = NoHistory
  BY DEF Init, WebInit, ServerInit
<1> QED BY <1>1, TypeInit DEF FreshInv, Awaits, Asked, Answered, Kept

(* Every step keeps the history one that history.php could have answered.  *)
LEMMA FreshStep == FreshInv /\ [Next]_vars => FreshInv'
<1> SUFFICES ASSUME FreshInv, [Next]_vars PROVE Awaits' /\ Asked' /\ Answered' /\ Kept'
  BY TypeStep DEF FreshInv
<1>1. CASE WebStep
  BY <1>1, FreshStored, FreshAnswered, FreshEnded DEF WebStep, WebNext, serverVars
<1>2. CASE ServerStep
  <2>1. CASE BootFetch
    BY <2>1, FreshAsk, FreshRead, FreshRest DEF BootFetch
  <2>2. CASE FetchHistory
    BY <2>2, FreshAsk, FreshRead, FreshRest DEF FetchHistory
  <2>3. CASE \/ Exit \/ Bind \/ Select \/ EndPass \/ Accept \/ Welcome
             \/ BroadcastStep \/ BroadcastDone \/ Recv \/ RecvEnd \/ Post
    <3>1. /\ UNCHANGED <<store, get, reply, storedBefore, latest16Messages>>
          /\ pc \notin {"bootRecv1", "bootRecv2", "recv1", "recv2"}
          /\ pc' \notin {"bootRecv1", "bootRecv2", "recv1", "recv2"}
      BY <2>3 DEF Exit, Bind, Select, EndPass, Accept, Welcome, BroadcastStep,
             BroadcastDone, Recv, RecvEnd, Post, Turn, webVars, sockVars
    <3> QED BY <3>1, FreshElse
  <2> QED BY <1>2, <2>1, <2>2, <2>3 DEF ServerStep, ServerNext
<1>3. CASE UNCHANGED vars
  BY <1>3, FreshElse DEF vars, webVars, serverVars
<1>4. ASSUME NEW c \in Client, ClientStep(c)
      PROVE  Awaits' /\ Asked' /\ Answered' /\ Kept'
  BY <1>4, FreshElse DEF ClientStep, webVars, serverVars
<1> QED BY <1>1, <1>2, <1>3, <1>4 DEF Next

(* "Server sends the last 16 chat messages to the client on new            *)
(* connection" (README.md:58), whatever the web and the network do:        *)
(* requests that fail, overtake each other or are answered in pieces never *)
(* make getHttpReqNoP() keep anything but one answer or its beginning, and *)
(* never one older than the fetch that has just succeeded.                 *)
THEOREM WelcomeStaysFresh == Spec => []WelcomeIsFresh
<1>1. FreshInv => WelcomeIsFresh
  <2> SUFFICES ASSUME FreshInv, latest16Messages # NoHistory
               PROVE  \E m \in 0..Len(store) :
                         LET answer == Latest(HistoryLen, SubSeq(store, 1, m)) IN
                         /\ \E n \in 0..Len(answer) :
                               /\ latest16Messages = SubSeq(answer, 1, n)
                               /\ SplitReply \/ n = Len(answer)
                         /\ pc = "recv2" /\ get # "reset" => storedBefore <= m
    BY DEF WelcomeIsFresh
  <2> DEFINE from == IF pc = "recv2" /\ get # "reset" THEN storedBefore ELSE 0
  <2>1. from \in Nat /\ Len(store) \in Nat
    BY WebTypes DEF FreshInv
  <2>2. \A m \in from..Len(store) :
           /\ m \in 0..Len(store)
           /\ pc = "recv2" /\ get # "reset" => storedBefore <= m
    BY <2>1
  <2>3. Received(latest16Messages, from)
    BY DEF FreshInv, Kept
  <2> HIDE DEF from
  <2> QED BY <2>2, <2>3 DEF Received
<1> QED BY <1>1, FreshInit, FreshStep, PTL DEF Spec

-----------------------------------------------------------------------------
(* The message being handled, when it is still to be forwarded to c.       *)
Due(c) ==
    IF \/ pc = "post" /\ outgoing.who # c
       \/ pc = "forward" /\ \E f \in Pending : owner[f] = c
    THEN <<outgoing>> ELSE << >>

(* c has been, or is about to be, forwarded what the others said in later; *)
(* but for the last of it, when exit() came first.                         *)
CaughtUp(c, later) ==
    \/ Chats(c) \o Due(c) = NotBy(c, later)
    \/ /\ pc = "exited"
       /\ \E e \in ChatsOf(Client) : NotBy(c, later) = Append(Chats(c), e)

(* Its history, if it got one, has nothing more often than past.           *)
RepeatsNone(c, past) ==
    stream[c] # << >> /\ stream[c][1].kind = "history" =>
        LET history == stream[c][1].data IN
        \A k \in 1..Len(history) :
            Times(history[k], history) <= Times(history[k], Stored(past))

(* The conversation is in two parts: before and after c's welcome.         *)
Joins(c) ==
    \E past, later \in Seq(ChatsOf(Client)) :
        /\ log = past \o later
        /\ Len(past) = since[c]
        /\ RepeatsNone(c, past)
        /\ CaughtUp(c, later)

(* So it is for whoever is in the room; nobody else was sent anything.     *)
Joining ==
    \A c \in Client \ hungup :
        /\ InRoom(c) <=> since[c] # -1
        /\ InRoom(c) => Joins(c)
        /\ ~InRoom(c) => stream[c] = << >>

JoinInv == SockInv /\ StoreInv /\ FreshInv /\ Joining

-----------------------------------------------------------------------------
(* A part of a sequence has nothing more often than the sequence has it.   *)
LEMMA TimesPart ==
    ASSUME NEW T, NEW s \in Seq(T), NEW n \in 0..Len(s), NEW x
    PROVE  /\ Times(x, SubSeq(s, 1, n)) <= Times(x, s)
           /\ Times(x, SubSeq(s, n + 1, Len(s))) <= Times(x, s)
<1> DEFINE p == SubSeq(s, 1, n)
           q == SubSeq(s, n + 1, Len(s))
<1>1. p \in Seq(T) /\ q \in Seq(T) /\ p \o q = s
  BY CutAt, Halves
<1> HIDE DEF p, q
<1>2. Times(x, s) = Times(x, p) + Times(x, q)
  <2>1. \A t \in Seq(T) : Times(x, p \o t) = Times(x, p) + Times(x, t)
    BY <1>1, TimesConcat
  <2> QED BY <1>1, <2>1
<1>3. Times(x, p) \in Nat /\ Times(x, q) \in Nat
  BY <1>1, TimesType
<1>4. Times(x, p) <= Times(x, s) /\ Times(x, q) <= Times(x, s)
  BY <1>2, <1>3
<1> QED BY <1>4 DEF p, q

(* The latest messages are a part of them.                                 *)
LEMMA TimesLatest ==
    ASSUME NEW s \in Seq(Seq(Byte)), NEW x
    PROVE  /\ Latest(HistoryLen, s) \in Seq(Seq(Byte))
           /\ Times(x, Latest(HistoryLen, s)) <= Times(x, s)
<1>0. Len(s) \in Nat /\ HistoryLen \in Nat /\ HistoryLen # 0 /\ Times(x, s) \in Nat
  <2>1. Len(s) \in Nat
    OBVIOUS
  <2>2. Times(x, s) \in Nat
    BY TimesType
  <2> QED BY <2>1, <2>2, WebAssumption
<1>1. CASE Len(s) <= HistoryLen
  BY <1>0, <1>1 DEF Latest
<1>2. CASE ~ (Len(s) <= HistoryLen)
  <2>1. Len(s) - HistoryLen \in 0..Len(s)
    BY <1>0, <1>2
  <2>2. Latest(HistoryLen, s) = SubSeq(s, (Len(s) - HistoryLen) + 1, Len(s))
    BY <1>2 DEF Latest
  <2> QED BY <2>1, <2>2, CutAt, TimesPart
<1> QED BY <1>1, <1>2

(* What a recv adds to the log is at hand.                                 *)
LEMMA RecvHandled ==
    ASSUME StoreInv, StoreInv', Recv
    PROVE  /\ pc = "scan" /\ pc' = "post" /\ UNCHANGED <<store, posts, stream, hungup>>
           /\ UNCHANGED <<master, owner, since>>
           /\ Handled = log /\ Handled' = log /\ log' = Append(log, outgoing')
           /\ outgoing' \in ChatsOf(Client)
<1>1. /\ pc = "scan" /\ pc' = "post" /\ UNCHANGED <<store, posts, stream, hungup>>
      /\ UNCHANGED <<master, owner, since>>
      /\ log' = Append(log, outgoing')
  BY DEF Recv, Turn, webVars
<1>2. Handled = log /\ log \in Seq(ChatsOf(Client))
  BY <1>1 DEF Handled, StoreInv, LogHolds
<1>3. SubSeq(log', 1, Len(log') - 1) = log
  <2>1. \A e : SubSeq(Append(log, e), 1, Len(Append(log, e)) - 1) = log
    BY <1>2, FrontAppend
  <2> QED BY <1>1, <2>1
<1>4. Handled' = log
  BY <1>1, <1>3 DEF Handled
<1>5. outgoing' \in ChatsOf(Client)
  BY <1>1 DEF StoreInv, TypeInv, InHand, Item, ChatsOf
<1> QED BY <1>1, <1>2, <1>4, <1>5

(* Whoever is in the room, and what is due to him, at the thread's calls.  *)
LEMMA DueNone ==
    ASSUME NEW c \in Client, pc \notin {"post", "forward"}
    PROVE  Due(c) = << >>
BY DEF Due

(* Whose messages due are the same has caught up as before.                *)
LEMMA CaughtUpKept ==
    ASSUME NEW c \in Client, stream'[c] = stream[c], Due(c)' = Due(c),
           pc = "exited" => pc' = "exited", NEW later, CaughtUp(c, later)
    PROVE  CaughtUp(c, later)'
BY DEF CaughtUp, Chats, NotBy

(* Whoever is sent nothing, and has caught up, still joins.                *)
LEMMA JoinsKept ==
    ASSUME NEW c \in Client, Joins(c), stream'[c] = stream[c], log' = log,
           since'[c] = since[c],
           \A later : CaughtUp(c, later) => CaughtUp(c, later)'
    PROVE  Joins(c)'
<1>1. PICK past \in Seq(ChatsOf(Client)), later \in Seq(ChatsOf(Client)) :
         /\ log = past \o later
         /\ Len(past) = since[c]
         /\ RepeatsNone(c, past)
         /\ CaughtUp(c, later)
  BY DEF Joins
<1>2. RepeatsNone(c, past)'
  BY <1>1 DEF RepeatsNone, Stored
<1>3. CaughtUp(c, later)'
  BY <1>1
<1> QED BY <1>1, <1>2, <1>3 DEF Joins

(* Nothing is sent, nothing is received, nobody enters.                    *)
LEMMA JoiningQuiet ==
    ASSUME Joining, hungup \subseteq hungup', UNCHANGED <<stream, log, since>>,
           pc = "exited" => pc' = "exited",
           \A c \in Client \ hungup' : /\ InRoom(c)' <=> InRoom(c)
                                       /\ InRoom(c) => Due(c)' = Due(c)
    PROVE  Joining'
<1> SUFFICES ASSUME NEW c \in Client \ hungup'
             PROVE  /\ InRoom(c)' <=> since'[c] # -1
                    /\ InRoom(c)' => Joins(c)'
                    /\ ~InRoom(c)' => stream'[c] = << >>
  BY DEF Joining
<1>1. /\ InRoom(c) <=> since[c] # -1
      /\ InRoom(c) => Joins(c)
      /\ ~InRoom(c) => stream[c] = << >>
  BY DEF Joining
<1>2. ASSUME InRoom(c) PROVE Joins(c)'
  <2>1. \A later : CaughtUp(c, later) => CaughtUp(c, later)'
    BY <1>2, CaughtUpKept
  <2> QED BY <1>1, <1>2, <2>1, JoinsKept
<1> QED BY <1>1, <1>2

(* exit() comes before the loop of sends: the message at hand is lost.     *)
LEMMA JoiningExit ==
    ASSUME TypeInv, Joining, Exit PROVE Joining'
<1>1. /\ UNCHANGED <<stream, log, since, hungup, master, owner>>
      /\ pc' = "exited" /\ pc \in {"boot", "bind", "ask", "post"}
  BY DEF Exit
<1> SUFFICES ASSUME NEW c \in Client \ hungup'
             PROVE  /\ InRoom(c)' <=> since'[c] # -1
                    /\ InRoom(c)' => Joins(c)'
                    /\ ~InRoom(c)' => stream'[c] = << >>
  BY DEF Joining
<1>2. /\ InRoom(c) <=> since[c] # -1
      /\ InRoom(c) => Joins(c)
      /\ ~InRoom(c) => stream[c] = << >>
  BY <1>1 DEF Joining
<1>3. InRoom(c)' <=> InRoom(c)
  BY <1>1 DEF InRoom
<1>4. ASSUME NEW later, CaughtUp(c, later) PROVE CaughtUp(c, later)'
  <2>1. Chats(c)' = Chats(c) /\ Due(c)' = << >> /\ Chats(c) \in Seq(Item)
    <3>1. stream[c] \in Seq(Item)
      BY DEF TypeInv, TypeOK, SocketsTypeOK
    <3> QED BY <1>1, <3>1, KeepIsSeq DEF Due, Chats
  <2>2. Chats(c) \o Due(c) = NotBy(c, later)
    BY <1>1, <1>4 DEF CaughtUp
  <2>3. CASE Due(c) = << >>
    BY <2>1, <2>2, <2>3 DEF CaughtUp, NotBy
  <2>4. CASE Due(c) # << >>
    <3>1. Due(c) = <<outgoing>> /\ pc = "post"
      BY <1>1, <2>4 DEF Due
    <3>2. outgoing \in ChatsOf(Client) /\ outgoing \in Item
      BY <3>1 DEF TypeInv, InHand, Item, ChatsOf
    <3>3. \A s \in Seq(Item), x \in Item : s \o <<x>> = Append(s, x)
      OBVIOUS
    <3>4. NotBy(c, later) = Append(Chats(c), outgoing)
      BY <2>1, <2>2, <3>1, <3>2, <3>3
    <3> QED BY <1>1, <2>1, <3>2, <3>4 DEF CaughtUp, NotBy
  <2> QED BY <2>3, <2>4
<1>5. Joins(c) => Joins(c)'
  BY <1>1, <1>4, JoinsKept
<1> QED BY <1>1, <1>2, <1>3, <1>5

(* The web server and the clients change nothing of it.                    *)
LEMMA JoiningElse ==
    ASSUME Joining, hungup \subseteq hungup', UNCHANGED <<stream, serverVars>>
    PROVE  Joining'
<1>1. \A c \in Client : (InRoom(c)' <=> InRoom(c)) /\ Due(c)' = Due(c)
  BY DEF serverVars, InRoom, Due, Pending, InLoop
<1> QED BY <1>1, JoiningQuiet DEF serverVars

(* A message is received: it is due to the others.                         *)
LEMMA JoiningRecv ==
    ASSUME SockInv, StoreInv, StoreInv', Joining, Recv
    PROVE  Joining'
<1> SUFFICES ASSUME NEW c \in Client \ hungup'
             PROVE  /\ InRoom(c)' <=> since'[c] # -1
                    /\ InRoom(c)' => Joins(c)'
                    /\ ~InRoom(c)' => stream'[c] = << >>
  BY DEF Joining
<1>1. /\ pc = "scan" /\ pc' = "post"
      /\ UNCHANGED <<stream, hungup, master, owner, since>>
      /\ log' = Append(log, outgoing') /\ outgoing' \in ChatsOf(Client)
  BY RecvHandled
<1>2. InRoom(c)' <=> InRoom(c)
  BY <1>1 DEF InRoom
<1>3. /\ InRoom(c) <=> since[c] # -1
      /\ InRoom(c) => Joins(c)
      /\ ~InRoom(c) => stream[c] = << >>
  BY <1>1 DEF Joining
<1>4. ASSUME Joins(c) PROVE Joins(c)'
  <2>1. PICK past \in Seq(ChatsOf(Client)), later \in Seq(ChatsOf(Client)) :
           /\ log = past \o later
           /\ Len(past) = since[c]
           /\ RepeatsNone(c, past)
           /\ CaughtUp(c, later)
    BY <1>4 DEF Joins
  <2> PICK e, more : e = outgoing' /\ more = Append(later, e)
    OBVIOUS
  <2>2. more \in Seq(ChatsOf(Client)) /\ log' = past \o more
    <3>1. \A x \in ChatsOf(Client) :
             /\ past \o Append(later, x) = Append(past \o later, x)
             /\ Append(later, x) \in Seq(ChatsOf(Client))
      BY AppendConcat
    <3>2. past \o more = Append(log, e) /\ more \in Seq(ChatsOf(Client))
      BY <1>1, <2>1, <3>1
    <3> QED BY <1>1, <3>2
  <2>3. Chats(c) \in Seq(Item) /\ Chats(c)' = Chats(c)
    <3>1. stream[c] \in Seq(Item)
      BY DEF SockInv, TypeInv, TypeOK, SocketsTypeOK
    <3> QED BY <1>1, <3>1, KeepIsSeq DEF Chats
  <2>4. Due(c) = << >>
    BY <1>1, DueNone
  <2>5. Chats(c) = NotBy(c, later)
    <3>1. Chats(c) \o << >> = Chats(c)
      BY <2>3, ConcatEmptySeq
    <3> QED BY <1>1, <2>1, <2>4, <3>1 DEF CaughtUp
  <2>6. NotBy(c, more) = IF e \in ChatsOf(Client \ {c})
                         THEN Append(NotBy(c, later), e) ELSE NotBy(c, later)
    BY KeepAppend DEF NotBy
  <2>7. e \in ChatsOf(Client \ {c}) <=> e.who # c
    BY <1>1 DEF ChatsOf
  <2>8. Due(c)' = IF e.who # c THEN <<e>> ELSE << >>
    BY <1>1 DEF Due
  <2>9. Chats(c) \o Due(c)' = NotBy(c, more)
    <3>1. CASE e.who # c
      <4>1. Due(c)' = Append(<< >>, e)
        BY <2>8, <3>1
      <4>2. \A s \in Seq(Item), x \in Item : s \o Append(<< >>, x) = Append(s, x)
        OBVIOUS
      <4>3. e \in Item
        BY <1>1 DEF ChatsOf, Item
      <4>4. Chats(c) \o Append(<< >>, e) = Append(Chats(c), e)
        BY <2>3, <4>2, <4>3
      <4> QED BY <2>5, <2>6, <2>7, <3>1, <4>1, <4>4
    <3>2. CASE e.who = c
      <4>1. Chats(c) \o << >> = Chats(c)
        BY <2>3, ConcatEmptySeq
      <4> QED BY <2>5, <2>6, <2>7, <2>8, <3>2, <4>1
    <3> QED BY <3>1, <3>2
  <2>10. RepeatsNone(c, past)'
    BY <1>1, <2>1 DEF RepeatsNone, Stored
  <2>11. CaughtUp(c, more)'
    BY <2>3, <2>9 DEF CaughtUp, NotBy
  <2> QED BY <1>1, <2>1, <2>2, <2>10, <2>11 DEF Joins
<1> QED BY <1>1, <1>2, <1>3, <1>4

(* sendMsgToHttp() has returned: those the message is due to are those the *)
(* loop over the sockets is going to reach.                                *)
LEMMA JoiningPost ==
    ASSUME SockInv, Joining, Post
    PROVE  Joining'
<1>0. TypeInv /\ Cursor /\ MasterTracksSockets
  BY DEF SockInv
<1>1. /\ pc = "post" /\ pc' = "forward" /\ j' = 0
      /\ UNCHANGED <<stream, hungup, log, since, master, owner, outgoing, i, fdmax>>
  BY DEF Post, sockVars
<1>2. /\ Fd \subseteq Nat /\ master \subseteq Fd
      /\ i \in Fd /\ owner[i] \in Client /\ owner[i] = outgoing.who
      /\ \A f \in master : f <= fdmax
      /\ \A f, g \in Fd : owner[f] = owner[g] /\ owner[f] \in Client => f = g
  BY <1>0, <1>1, Typing DEF Cursor, MasterTracksSockets
<1>3. Pending' = {f \in master : f # Listener /\ f # i}
  <2>1. ASSUME NEW f \in master PROVE 0 <= f /\ f <= fdmax
    <3>1. f \in Nat /\ f <= fdmax
      BY <1>2
    <3> QED BY <3>1
  <2> QED BY <1>1, <2>1 DEF Pending, InLoop
<1>4. ASSUME NEW c \in Client, InRoom(c)
      PROVE  Due(c)' = Due(c)
  <2>1. PICK f \in master : f # Listener /\ owner[f] = c
    BY <1>4 DEF InRoom
  <2>2. (\E g \in Pending' : owner[g] = c) <=> outgoing.who # c
    <3>1. CASE outgoing.who = c
      <4>1. \A g \in master : owner[g] = c => g = i
        BY <1>2, <3>1
      <4> QED BY <1>3, <3>1, <4>1
    <3>2. CASE outgoing.who # c
      <4>1. f # i
        BY <1>2, <2>1, <3>2
      <4>2. f \in Pending'
        BY <1>3, <2>1, <4>1
      <4> QED BY <2>1, <3>2, <4>2
    <3> QED BY <3>1, <3>2
  <2>3. Due(c)' = IF \E g \in Pending' : owner[g] = c THEN <<outgoing>> ELSE << >>
    BY <1>1 DEF Due
  <2>4. Due(c) = IF outgoing.who # c THEN <<outgoing>> ELSE << >>
    BY <1>1 DEF Due
  <2> QED BY <2>2, <2>3, <2>4
<1>5. \A c \in Client : InRoom(c)' <=> InRoom(c)
  BY <1>1 DEF InRoom
<1> QED BY <1>1, <1>4, <1>5, JoiningQuiet

(* An item more that keeps the account.                                    *)
LEMMA JoinsMore ==
    ASSUME TypeInv, NEW c \in Client, Joins(c), outgoing \in Item,
           outgoing.kind # "history", pc # "exited",
           stream'[c] = Append(stream[c], outgoing), UNCHANGED <<log, since>>,
           Chats(c)' \o Due(c)' = Chats(c) \o Due(c)
    PROVE  Joins(c)'
<1>1. PICK past \in Seq(ChatsOf(Client)), later \in Seq(ChatsOf(Client)) :
         /\ log = past \o later
         /\ Len(past) = since[c]
         /\ RepeatsNone(c, past)
         /\ CaughtUp(c, later)
  BY DEF Joins
<1>2. stream[c] \in Seq(Item)
  BY DEF TypeInv, TypeOK, SocketsTypeOK
<1>3. RepeatsNone(c, past)'
  <2>1. CASE stream[c] = << >>
    <3>1. stream'[c][1] = outgoing
      BY <1>2, <2>1
    <3> QED BY <3>1 DEF RepeatsNone
  <2>2. CASE stream[c] # << >>
    <3>1. stream'[c][1] = stream[c][1]
      BY <1>2, <2>2
    <3> QED BY <1>1, <2>2, <3>1 DEF RepeatsNone, Stored
  <2> QED BY <2>1, <2>2
<1>4. CaughtUp(c, later)'
  BY <1>1 DEF CaughtUp, NotBy
<1> QED BY <1>1, <1>3, <1>4 DEF Joins

(* The send of the broadcast loop.                                         *)
LEMMA JoiningBroadcast ==
    ASSUME SockInv, Joining, BroadcastStep
    PROVE  Joining'
<1>0. TypeInv /\ Cursor /\ MasterTracksSockets
  BY DEF SockInv
<1>1. /\ pc \in {"announce", "forward"} /\ pc' = pc
      /\ UNCHANGED <<hungup, log, since, master, owner, outgoing, i, fdmax>>
  BY DEF BroadcastStep
<1>2. PICK f \in Pending :
         /\ \A g \in Pending : f <= g
         /\ stream' = IF owner[f] \in Client
                      THEN [stream EXCEPT ![owner[f]] = Sent(owner[f], outgoing)]
                      ELSE stream
         /\ j' = f + 1
  BY DEF BroadcastStep
<1>3. /\ Fd \subseteq Nat /\ master \subseteq Fd /\ f \in Fd /\ f \in master
      /\ f # Listener /\ j \in Nat /\ fdmax \in Nat
      /\ owner[f] \in Client
      /\ \A g, h \in Fd : owner[g] = owner[h] /\ owner[g] \in Client => g = h
  BY <1>0, <1>2, Typing DEF MasterTracksSockets, Pending
<1>4. stream \in [Client -> Seq(Item)] /\ outgoing \in Item
  BY <1>0, <1>1 DEF TypeInv, TypeOK, SocketsTypeOK, InHand
<1>5. Pending' = Pending \ {f}
  <2>1. Pending' = {g \in master : g # Listener /\ g # i /\ f + 1 <= g /\ g <= fdmax}
    BY <1>1, <1>2 DEF Pending, InLoop
  <2>2. Pending = {g \in master : g # Listener /\ g # i /\ j <= g /\ g <= fdmax}
    BY DEF Pending, InLoop
  <2>3. \A g \in Pending : f <= g
    BY <1>2
  <2>4. f \in Nat /\ j <= f /\ \A g \in master : g \in Nat
    BY <1>2, <1>3, <2>2
  <2>5. \A g \in Pending' : g \in Pending /\ g # f
    BY <1>3, <2>1, <2>2, <2>4
  <2>6. \A g \in Pending \ {f} : g \in Pending'
    <3> TAKE g \in Pending \ {f}
    <3>1. g \in Nat /\ f <= g /\ g # f
      BY <2>2, <2>3, <2>4
    <3>2. f + 1 <= g
      BY <2>4, <3>1
    <3> QED BY <2>1, <2>2, <3>2
  <2> QED BY <2>5, <2>6
<1>6. \A c \in Client : InRoom(c)' <=> InRoom(c)
  BY <1>1 DEF InRoom
<1>7. InRoom(owner[f])
  BY <1>3 DEF InRoom
<1> SUFFICES ASSUME NEW c \in Client \ hungup'
             PROVE  /\ InRoom(c)' <=> since'[c] # -1
                    /\ InRoom(c)' => Joins(c)'
                    /\ ~InRoom(c)' => stream'[c] = << >>
  BY DEF Joining
<1>8. /\ InRoom(c) <=> since[c] # -1
      /\ InRoom(c) => Joins(c)
      /\ ~InRoom(c) => stream[c] = << >>
      /\ c \notin hungup
  BY <1>1 DEF Joining
<1>9. CASE c # owner[f]
  <2>1. stream'[c] = stream[c]
    BY <1>2, <1>3, <1>4, <1>9
  <2>2. (\E g \in Pending' : owner'[g] = c) <=> (\E g \in Pending : owner[g] = c)
    BY <1>1, <1>5, <1>9
  <2>3. Due(c)' = Due(c)
    BY <1>1, <2>2 DEF Due
  <2>4. \A later : CaughtUp(c, later) => CaughtUp(c, later)'
    BY <1>1, <2>1, <2>3, CaughtUpKept
  <2> QED BY <1>1, <1>6, <1>8, <2>1, <2>4, JoinsKept
<1>10. CASE c = owner[f]
  <2>1. stream'[c] = Append(stream[c], outgoing) /\ stream[c] \in Seq(Item)
    BY <1>2, <1>3, <1>4, <1>8, <1>10 DEF Sent
  <2>2. Chats(c) \in Seq(Item)
    BY <2>1, KeepIsSeq DEF Chats
  <2>3. Chats(c)' = IF outgoing \in ChatsOf(Client)
                    THEN Append(Chats(c), outgoing) ELSE Chats(c)
    <3>1. ASSUME NEW s \in Seq(Item), NEW x
          PROVE  Keep(Append(s, x), ChatsOf(Client))
                   = IF x \in ChatsOf(Client)
                     THEN Append(Keep(s, ChatsOf(Client)), x)
                     ELSE Keep(s, ChatsOf(Client))
      BY KeepAppend
    <3>2. Chats(c)' = Keep(stream'[c], ChatsOf(Client))
      BY DEF Chats
    <3> QED BY <2>1, <3>1, <3>2, Zenon DEF Chats
  <2>4. Due(c)' = << >>
    <3>1. ~ \E g \in Pending' : owner'[g] = c
      <4>1. Pending \subseteq Fd
        BY <1>3 DEF Pending
      <4> QED BY <1>1, <1>3, <1>5, <1>10, <4>1
    <3> QED BY <1>1, <3>1 DEF Due
  <2>5. Chats(c)' \o Due(c)' = Chats(c) \o Due(c)
    <3>1. CASE pc = "announce"
      <4>1. outgoing \notin ChatsOf(Client)
        BY <1>0, <3>1 DEF TypeInv, InHand, ChatsOf
      <4>2. Due(c) = << >>
        BY <3>1, DueNone
      <4> QED BY <2>3, <2>4, <4>1, <4>2
    <3>2. CASE pc = "forward"
      <4>1. outgoing \in ChatsOf(Client)
        BY <1>0, <3>2 DEF TypeInv, InHand, ChatsOf, Item
      <4>2. Due(c) = <<outgoing>>
        BY <1>2, <1>10, <3>2 DEF Due
      <4>3. \A s \in Seq(Item), x \in Item : Append(s, x) \o << >> = s \o <<x>>
        OBVIOUS
      <4>4. Append(Chats(c), outgoing) \o << >> = Chats(c) \o <<outgoing>>
        BY <1>4, <2>2, <4>3
      <4> QED BY <2>3, <2>4, <4>1, <4>2, <4>4
    <3> QED BY <1>1, <3>1, <3>2
  <2>6. Joins(c)
    BY <1>7, <1>8, <1>10
  <2>7. Joins(c)'
    <3>1. outgoing.kind # "history"
      BY <1>0, <1>1 DEF TypeInv, InHand
    <3> QED BY <1>0, <1>1, <1>4, <2>1, <2>5, <2>6, <3>1, JoinsMore
  <2> QED BY <1>1, <1>6, <1>7, <1>8, <1>10, <2>7
<1> QED BY <1>9, <1>10

(* The history about to be sent has no text more often than it was         *)
(* received.                                                               *)
LEMMA HistoryRepeatsNone ==
    ASSUME StoreInv, FreshInv, pc = "welcome", latest16Messages # NoHistory,
           NEW k \in 1..Len(latest16Messages)
    PROVE  Times(latest16Messages[k], latest16Messages)
              <= Times(latest16Messages[k], Stored(log))
<1> DEFINE x == latest16Messages[k]
<1>0. /\ store \in Seq(Seq(Byte)) /\ posts \in Seq(Seq(Byte))
      /\ latest16Messages \in Seq(Seq(Byte)) /\ x \in Seq(Byte)
      /\ Len(store) \in Nat
  <2>1. latest16Messages \in Seq(Seq(Byte))
    BY DEF FreshInv, TypeInv, TypeOK, ServerTypeOK
  <2>2. x \in Seq(Byte)
    BY <2>1, ElementOfSeq
  <2> QED BY <2>1, <2>2, WebTypes DEF FreshInv
<1> HIDE DEF x
<1>1. PICK m \in 0..Len(store), n \in Nat :
         LET answer == Latest(HistoryLen, SubSeq(store, 1, m)) IN
         n \in 0..Len(answer) /\ latest16Messages = SubSeq(answer, 1, n)
  <2>1. Received(latest16Messages, 0)
    BY DEF FreshInv, Kept
  <2>2. \A s, n : n \in 0..Len(s) => n \in Nat
    OBVIOUS
  <2> QED BY <2>1, <2>2 DEF Received
<1> DEFINE first == SubSeq(store, 1, m)
           answer == Latest(HistoryLen, first)
<1>2. first \in Seq(Seq(Byte)) /\ Times(x, first) <= Times(x, store)
  BY <1>0, CutAt, TimesPart
<1> HIDE DEF first
<1>3. answer \in Seq(Seq(Byte)) /\ Times(x, answer) <= Times(x, first)
  BY <1>2, TimesLatest
<1> HIDE DEF answer
<1>4. Times(x, latest16Messages) <= Times(x, answer)
  BY <1>1, <1>3, TimesPart DEF answer, first
<1>5. Times(x, store) + Times(x, posts) <= Times(x, Stored(log))
  BY <1>0 DEF StoreInv, StoredEach, Handled
<1>6. /\ Times(x, store) \in Nat /\ Times(x, posts) \in Nat
      /\ Times(x, first) \in Nat /\ Times(x, answer) \in Nat
      /\ Times(x, latest16Messages) \in Nat /\ Times(x, Stored(log)) \in Nat
  <2>1. log \in Seq(ChatsOf(Client))
    BY DEF StoreInv, LogHolds
  <2>2. Stored(log) \in Seq(Seq(Byte))
    BY <2>1, StoredType
  <2> QED BY <1>0, <1>2, <1>3, <2>2, TimesType
<1>7. Times(x, latest16Messages) <= Times(x, Stored(log))
  BY <1>2, <1>3, <1>4, <1>5, <1>6
<1> QED BY <1>7 DEF x

(* The newcomer is in the room; what follows is forwarded to it.           *)
LEMMA JoiningWelcome ==
    ASSUME SetsSuffice, SockInv, StoreInv, FreshInv, Joining, Welcome
    PROVE  Joining'
<1>0. TypeInv /\ Cursor /\ MasterTracksSockets
  BY DEF SockInv
<1>1. /\ pc = "welcome" /\ UNCHANGED <<hungup, log, owner, newfd, latest16Messages>>
  BY DEF Welcome
<1>2. CASE newfd = -1
  <2>1. UNCHANGED <<stream, master, since>> /\ pc' = "scan"
    BY <1>2 DEF Welcome
  <2>2. \A c \in Client : (InRoom(c)' <=> InRoom(c)) /\ Due(c)' = Due(c)
    BY <1>1, <2>1 DEF InRoom, Due
  <2> QED BY <1>1, <2>1, <2>2, JoiningQuiet
<1>3. CASE newfd # -1
  <2> DEFINE n == owner[newfd]
             h == History(n, latest16Messages)
  <2>1. /\ newfd \in Fd /\ newfd \notin master /\ newfd # Listener
        /\ n \in Client /\ master \subseteq Fd
    BY <1>0, <1>1, <1>3, Typing DEF Cursor, Fetching, TypeInv, InHand
  <2>2. master' = master \cup {newfd} /\ pc' = "announce"
    BY <1>3, <2>1, FdSetAdds DEF Welcome
  <2>3. log \in Seq(ChatsOf(Client))
    BY DEF StoreInv, LogHolds
  <2>4. /\ stream \in [Client -> Seq(Item)] /\ log \in Seq(Item) /\ Len(log) \in Nat
        /\ since \in [Client -> Nat \cup {-1}]
        /\ latest16Messages \in Seq(Seq(Byte)) \cup {NoHistory}
    BY <1>0 DEF TypeInv, TypeOK, SocketsTypeOK, ServerTypeOK
  <2>5. latest16Messages # NoHistory => h \in Item
    BY <2>1, <2>4, ItemTypes
  <2>6. stream' = IF latest16Messages = NoHistory THEN stream
                  ELSE [stream EXCEPT ![n] = Sent(n, h)]
    BY <1>3 DEF Welcome
  <2>7. since' = [since EXCEPT ![n] = Len(log)]
    BY <1>3 DEF Welcome
  <2>8. \A c \in Client : InRoom(c)' <=> InRoom(c) \/ c = n
    BY <1>1, <2>1, <2>2 DEF InRoom
  <2>9. ~InRoom(n)
    <3>1. \A f, g \in Fd : owner[f] = owner[g] /\ owner[f] \in Client => f = g
      BY <1>0 DEF MasterTracksSockets
    <3> QED BY <2>1, <3>1 DEF InRoom
  <2>10. \A c \in Client : Due(c)' = << >> /\ Due(c) = << >>
    BY <1>1, <2>2 DEF Due
  <2> HIDE DEF h, n
  <2> SUFFICES ASSUME NEW c \in Client \ hungup'
               PROVE  /\ InRoom(c)' <=> since'[c] # -1
                      /\ InRoom(c)' => Joins(c)'
                      /\ ~InRoom(c)' => stream'[c] = << >>
    BY DEF Joining
  <2>11. /\ InRoom(c) <=> since[c] # -1
         /\ InRoom(c) => Joins(c)
         /\ ~InRoom(c) => stream[c] = << >>
         /\ c \notin hungup
    BY <1>1 DEF Joining
  <2>12. CASE c # n
    <3>1. stream'[c] = stream[c] /\ since'[c] = since[c]
      BY <2>1, <2>4, <2>6, <2>7, <2>12
    <3>2. Due(c)' = Due(c)
      BY <2>10
    <3>3. \A later : CaughtUp(c, later) => CaughtUp(c, later)'
      BY <1>1, <3>1, <3>2, CaughtUpKept
    <3> QED BY <1>1, <2>8, <2>11, <2>12, <3>1, <3>3, JoinsKept
  <2>13. CASE c = n
    <3>1. /\ stream[c] = << >>
          /\ stream'[c] = IF latest16Messages = NoHistory THEN << >>
                          ELSE Append(<< >>, h)
      BY <1>1, <2>1, <2>4, <2>6, <2>9, <2>11, <2>13 DEF Sent
    <3>2. since'[c] = Len(log) /\ since'[c] # -1
      BY <2>1, <2>4, <2>7, <2>13
    <3>3. h.kind = "history" /\ h.data = latest16Messages
      BY DEF h, History
    <3>4. Chats(c)' = << >>
      <4>1. h \notin ChatsOf(Client)
        BY <3>3 DEF ChatsOf
      <4>2. << >> \in Seq(Item)
        OBVIOUS
      <4>4. ASSUME NEW s \in Seq(Item), NEW x, x \notin ChatsOf(Client)
            PROVE  Keep(Append(s, x), ChatsOf(Client)) = Keep(s, ChatsOf(Client))
        BY <4>4, KeepAppend
      <4>3. Keep(Append(<< >>, h), ChatsOf(Client)) = Keep(<< >>, ChatsOf(Client))
        BY <4>1, <4>2, <4>4, Zenon
      <4> QED BY <3>1, <4>3, KeepEmpty DEF Chats
    <3>5. NotBy(c, << >>) = << >>
      BY KeepEmpty DEF NotBy
    <3>6. CaughtUp(c, << >>)'
      <4>1. Chats(c)' \o Due(c)' = NotBy(c, << >>)
        BY <2>10, <3>4, <3>5
      <4> QED BY <4>1 DEF CaughtUp, NotBy
    <3>7. RepeatsNone(c, log)'
      <4>1. CASE latest16Messages = NoHistory
        BY <3>1, <4>1 DEF RepeatsNone
      <4>2. CASE latest16Messages # NoHistory
        <5>1. stream'[c][1] = h
          BY <3>1, <4>2
        <5>2. \A k \in 1..Len(latest16Messages) :
                 Times(latest16Messages[k], latest16Messages)
                    <= Times(latest16Messages[k], Stored(log))
          BY <1>1, <4>2, HistoryRepeatsNone
        <5> QED BY <1>1, <3>3, <5>1, <5>2 DEF RepeatsNone, Stored
      <4> QED BY <4>1, <4>2
    <3>8. log = log \o << >> /\ << >> \in Seq(ChatsOf(Client))
      BY <2>3, ConcatEmptySeq
    <3>9. Joins(c)'
      BY <1>1, <2>3, <3>2, <3>6, <3>7, <3>8 DEF Joins
    <3> QED BY <2>8, <2>13, <3>2, <3>9
  <2> QED BY <2>12, <2>13
<1> QED BY <1>2, <1>3

(* The calls that concern nobody in the room who is still there.           *)
LEMMA JoiningAside ==
    ASSUME SockInv, SockInv', Joining,
           BootFetch \/ Bind \/ Select \/ EndPass \/ Accept \/ FetchHistory
             \/ BroadcastDone \/ RecvEnd
    PROVE  Joining'
<1>0. TypeInv /\ Phases /\ MasterTracksSockets
  BY DEF SockInv
<1>1. /\ UNCHANGED <<stream, log, since, hungup>>
      /\ pc' \notin {"post", "forward"} /\ pc \notin {"post", "exited"}
  BY DEF BootFetch, Bind, Select, EndPass, Accept, FetchHistory, BroadcastDone,
         RecvEnd, Turn, AskHistory, ReadHistory, ReadRest, sockVars
<1>2. ASSUME NEW c \in Client PROVE Due(c)' = Due(c)
  <2>1. Due(c)' = << >>
    BY <1>1 DEF Due
  <2>2. CASE pc # "forward"
    BY <1>1, <2>1, <2>2, DueNone
  <2>3. CASE pc = "forward"
    <3>1. Pending = {}
      BY <2>3 DEF BootFetch, Bind, Select, EndPass, Accept, FetchHistory,
             BroadcastDone, RecvEnd, Turn, AskHistory, ReadHistory, ReadRest
    <3> QED BY <2>1, <2>3, <3>1 DEF Due
  <2> QED BY <2>2, <2>3
<1>3. ASSUME NEW c \in Client \ hungup' PROVE InRoom(c)' <=> InRoom(c)
  <2>1. CASE UNCHANGED <<master, owner>>
    BY <2>1 DEF InRoom
  <2>2. CASE Bind
    <3>1. master = {} /\ master' = {Listener}
      BY <1>0, <2>2 DEF Bind, Phases, Starting
    <3> QED BY <3>1 DEF InRoom
  <2>3. CASE Accept
    <3>1. master' = master /\ UNCHANGED hungup
      BY <2>3 DEF Accept
    <3>2. \A f \in master \ {Listener} : owner'[f] = owner[f]
      <4>1. CASE UNCHANGED owner
        BY <4>1
      <4>2. CASE \E f \in Fd \ {Listener} :
                    /\ owner[f] = NoClient
                    /\ owner' = [owner EXCEPT ![f] = Head(backlog)]
        <5>1. PICK f \in Fd \ {Listener} :
                    /\ owner[f] = NoClient
                    /\ owner' = [owner EXCEPT ![f] = Head(backlog)]
          BY <4>2
        <5>2. owner \in [Fd -> Client \cup {NoClient}] /\ master \subseteq Fd
              /\ NoClient \notin Client
          BY <1>0, Typing
        <5>3. f \notin master
          BY <1>0, <5>1, <5>2 DEF MasterTracksSockets
        <5> QED BY <5>1, <5>2, <5>3
      <4> QED BY <2>3, <4>1, <4>2 DEF Accept
    <3> QED BY <3>1, <3>2 DEF InRoom
  <2>4. CASE RecvEnd
    <3>1. PICK f \in Fd \ {Listener} :
             /\ owner[f] \in hungup
             /\ owner' = [owner EXCEPT ![f] = NoClient]
             /\ master' = master \ {f}
      BY <2>4 DEF RecvEnd, Close, FdClr
    <3>2. owner \in [Fd -> Client \cup {NoClient}] /\ master \subseteq Fd
      BY <1>0, Typing
    <3>3. \A g \in Fd : g # f => owner'[g] = owner[g]
      BY <3>1, <3>2
    <3>4. owner[f] # c
      BY <1>1, <3>1
    <3> QED BY <3>1, <3>2, <3>3, <3>4 DEF InRoom
  <2>5. CASE BootFetch \/ Select \/ EndPass \/ FetchHistory \/ BroadcastDone
    <3>1. UNCHANGED <<master, owner>>
      BY <2>5 DEF BootFetch, Select, EndPass, FetchHistory, BroadcastDone,
             AskHistory, ReadHistory, ReadRest
    <3> QED BY <2>1, <3>1
  <2> QED BY <2>2, <2>3, <2>4, <2>5
<1> QED BY <1>1, <1>2, <1>3, JoiningQuiet

(* Every step keeps history and conversation joined, for everybody.        *)
LEMMA JoiningStep ==
    ASSUME SetsSuffice, SockInv, SockInv', StoreInv, StoreInv', FreshInv,
           Joining, [Next]_vars
    PROVE  Joining'
<1>0. TypeInv
  BY DEF SockInv
<1>1. CASE WebStep \/ UNCHANGED vars
  <2>1. UNCHANGED <<hungup, stream, serverVars>>
    BY <1>1 DEF WebStep, vars, sockVars, serverVars
  <2> QED BY <2>1, JoiningElse
<1>2. ASSUME NEW c \in Client, ClientStep(c) PROVE Joining'
  <2>1. UNCHANGED <<stream, serverVars>> /\ hungup \subseteq hungup'
    BY <1>2 DEF ClientStep, ClientNext, Connect, ConnectRefused, SendLine,
           Receive, Quit
  <2> QED BY <2>1, JoiningElse
<1>3. CASE ServerStep
  BY <1>0, <1>3, JoiningExit, JoiningAside, JoiningRecv, JoiningPost,
     JoiningBroadcast, JoiningWelcome DEF ServerStep, ServerNext
<1> QED BY <1>1, <1>2, <1>3 DEF Next

-----------------------------------------------------------------------------
(* It holds at first: nobody was sent anything.                            *)
LEMMA JoinInit == Init => JoinInv
<1> SUFFICES ASSUME Init PROVE JoinInv
  OBVIOUS
<1>1. /\ master = {} /\ \A c \in Client : stream[c] = << >> /\ since[c] = -1
  BY DEF Init, ServerInit, SocketsInit
<1>2. Joining
  BY <1>1 DEF Joining, InRoom
<1> QED BY <1>2, SockInit, StoreInit, FreshInit DEF JoinInv

(* Every step keeps the invariant.                                         *)
LEMMA JoinStep == SetsSuffice /\ JoinInv /\ [Next]_vars => JoinInv'
<1> SUFFICES ASSUME SetsSuffice, JoinInv, [Next]_vars PROVE JoinInv'
  OBVIOUS
<1>1. SockInv /\ StoreInv /\ FreshInv /\ Joining
  BY DEF JoinInv
<1>2. SockInv' /\ StoreInv' /\ FreshInv'
  BY <1>1, SockStep, StoreStep, FreshStep
<1> QED BY <1>1, <1>2, JoiningStep DEF JoinInv

(* The two parts of the conversation show that history and chat join.      *)
LEMMA JoiningIsEnough == JoinInv => HistoryJoinsChat
<1> SUFFICES ASSUME JoinInv, NEW c \in Client \ hungup, since[c] # -1
             PROVE  LET before == Stored(SubSeq(log, 1, since[c]))
                        later  == NotBy(c, SubSeq(log, since[c] + 1, Len(log)))
                    IN  /\ stream[c] # << >> /\ stream[c][1].kind = "history" =>
                              LET history == stream[c][1].data IN
                              \A k \in 1..Len(history) :
                                  Times(history[k], history)
                                     <= Times(history[k], before)
                        /\ \/ Chats(c) = later
                           \/ /\ pc \in {"post", "forward", "exited"}
                              /\ later # << >>
                              /\ Chats(c) = SubSeq(later, 1, Len(later) - 1)
  BY DEF HistoryJoinsChat
<1>1. PICK past \in Seq(ChatsOf(Client)), later \in Seq(ChatsOf(Client)) :
         /\ log = past \o later
         /\ Len(past) = since[c]
         /\ RepeatsNone(c, past)
         /\ CaughtUp(c, later)
  BY DEF JoinInv, Joining, Joins
<1>2. SubSeq(log, 1, since[c]) = past /\ SubSeq(log, since[c] + 1, Len(log)) = later
  BY <1>1, ConcatParts
<1>3. Chats(c) \in Seq(Item)
  <2>1. stream[c] \in Seq(Item)
    BY DEF JoinInv, SockInv, TypeInv, TypeOK, SocketsTypeOK
  <2> QED BY <2>1, KeepIsSeq DEF Chats
<1>4. ASSUME NEW x, NotBy(c, later) = Append(Chats(c), x)
      PROVE  /\ NotBy(c, later) # << >>
             /\ Chats(c) = SubSeq(NotBy(c, later), 1, Len(NotBy(c, later)) - 1)
  <2>1. Append(Chats(c), x) # << >>
    BY <1>3
  <2>2. SubSeq(Append(Chats(c), x), 1, Len(Append(Chats(c), x)) - 1) = Chats(c)
    BY <1>3, FrontAppend
  <2> QED BY <1>4, <2>1, <2>2
<1>5. \/ Chats(c) = NotBy(c, later)
      \/ /\ pc \in {"post", "forward", "exited"}
         /\ NotBy(c, later) # << >>
         /\ Chats(c) = SubSeq(NotBy(c, later), 1, Len(NotBy(c, later)) - 1)
  <2>1. CASE pc = "exited" /\ \E e : NotBy(c, later) = Append(Chats(c), e)
    BY <1>4, <2>1
  <2>2. CASE Chats(c) \o Due(c) = NotBy(c, later)
    <3>1. CASE Due(c) = << >>
      <4>1. Chats(c) \o << >> = Chats(c)
        BY <1>3, ConcatEmptySeq
      <4> QED BY <2>2, <3>1, <4>1
    <3>2. CASE Due(c) # << >>
      <4>1. Due(c) = <<outgoing>> /\ pc \in {"post", "forward"}
        BY <3>2 DEF Due
      <4>2. \A s \in Seq(Item) : \A x : s \o <<x>> = Append(s, x)
        OBVIOUS
      <4> QED BY <1>3, <1>4, <2>2, <4>1, <4>2
    <3> QED BY <3>1, <3>2
  <2> QED BY <1>1, <2>1, <2>2 DEF CaughtUp
<1> QED BY <1>1, <1>2, <1>5 DEF RepeatsNone

(* Whatever the web and the network do, a newcomer misses nothing that is  *)
(* said after its welcome and hears nothing twice: getHttpReqNoP() returns *)
(* and main() puts the socket into master without a recv in between, and   *)
(* the history it was sent repeats nothing more often than it was received *)
(* until then.                                                             *)
THEOREM HistoryJoins ==
    ASSUME SetsSuffice
    PROVE  Spec => []HistoryJoinsChat
<1>1. JoinInv /\ [Next]_vars => JoinInv'
  BY JoinStep
<1> QED BY <1>1, JoinInit, JoiningIsEnough, PTL DEF Spec
=============================================================================
