------------------------------ MODULE WebServer ------------------------------
(***************************************************************************)
(* EXTERNAL.  The web server student.pxl-ea-ict.be as the chat server uses *)
(* it: chat.php stores one message for each request, history.php answers   *)
(* with the latest messages.  Each request travels on a connection of its  *)
(* own, so a request that the chat server finished sending may be          *)
(* processed after one it sent later; InOrder says it never is.            *)
(***************************************************************************)
EXTENDS Naturals, Sequences

CONSTANTS
    HistoryLen,     \* messages that history.php returns (16)
    InOrder,        \* TRUE: requests are processed in the order of sending
    Faults          \* TRUE: name lookup, connect, bind and recv may fail

ASSUME WebAssumption ==
    /\ HistoryLen \in Nat \ {0}
    /\ InOrder \in BOOLEAN
    /\ Faults \in BOOLEAN

VARIABLES
    store,          \* every message stored, oldest first
    posts,          \* chat.php requests sent and not processed yet
    get,            \* the connection of the history.php request
    reply,          \* messages of its answer the chat server has not read
    storedBefore    \* history variable: the messages stored, or sure to be
                    \* stored first, when history.php was asked

webVars == <<store, posts, get, reply, storedBefore>>

(* The last n elements of a sequence, or all of it when it is shorter.     *)
Latest(n, s) == IF Len(s) <= n THEN s ELSE SubSeq(s, Len(s) - n + 1, Len(s))

WebInit ==
    /\ store = << >>
    /\ posts = << >>
    /\ get = "idle"
    /\ reply = << >>
    /\ storedBefore = 0

GetState == {"idle", "asked", "answered", "done", "reset"}

(* chat.php: one pending request is processed.                             *)
WebStore ==
    \E k \in 1..Len(posts) :
        /\ InOrder => k = 1
        /\ store' = Append(store, posts[k])
        /\ posts' = SubSeq(posts, 1, k - 1) \o SubSeq(posts, k + 1, Len(posts))
        /\ UNCHANGED <<get, reply, storedBefore>>

(* history.php: the answer is computed and sent.                           *)
WebAnswer ==
    /\ get = "asked"
    /\ InOrder => posts = << >>
    /\ get' = "answered"
    /\ reply' = Latest(HistoryLen, store)
    /\ UNCHANGED <<store, posts, storedBefore>>

(* HTTP/1.0: the web server closes the connection after its answer.        *)
WebClose ==
    /\ get = "answered"
    /\ get' = "done"
    /\ UNCHANGED <<store, posts, reply, storedBefore>>

(* The connection is reset before the answer.                              *)
WebReset ==
    /\ Faults
    /\ get = "asked"
    /\ get' = "reset"
    /\ UNCHANGED <<store, posts, reply, storedBefore>>

WebNext == WebStore \/ WebAnswer \/ WebClose \/ WebReset
=============================================================================
