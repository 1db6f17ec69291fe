----------------------------- MODULE MCPrograms -----------------------------
(* The plays that TLC checks: who runs which of the short programs.        *)
EXTENDS Programs, TLC

CONSTANTS
    p1, p2, p3,     \* processes
    a, b, d         \* two letters and a digit

Procs == {p1, p2, p3}
Play(x, y, z) == (p1 :> x) @@ (p2 :> y) @@ (p3 :> z)

(* A server and two clients, two servers and a client; clients of the web. *)
Plays == {
    Play(TCPServer, TCPClient, TCPClient),
    Play(TCPServer, TCPServer, TCPClient),
    Play(UDPServer, UDPClient, MenuClient),
    Play(UDPServer, UDPServer, UDPClient),
    Play(UDPServer, MenuClient, HttpClient),
    Play(ChatPost, Absent, Absent) }

Bytes   == {a, b, d}
Letters == {a, b}

(* All messages of up to four bytes.                                       *)
Messages == UNION {[1..n -> Bytes] : n \in 0..4}

Numbers == {3, 4, 5}
=============================================================================
