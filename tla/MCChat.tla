------------------------------- MODULE MCChat -------------------------------
(* Small instances of Chat for TLC.                                        *)
EXTENDS Chat, TLC

CONSTANTS
    c1, c2, c3,     \* three clients
    a, b, d         \* two letters and a digit

TwoClients   == {c1, c2}
ThreeClients == {c1, c2, c3}

(* Socket numbers around the listening one: newcomers get smaller and      *)
(* larger numbers than it.                                                 *)
ThreeFds == {2, 3, 4}
FourFds  == {2, 3, 4, 5}

Letters1 == {a}
Letters2 == {a, b}
Bytes2   == {a, d}
Bytes3   == {a, b, d}

OneByte == {<<a>>}
TwoBytes == {<<a>>, <<d>>}
Lines   == {<<a>>, <<b, d, a>>}

ClientSymmetry2 == Permutations(TwoClients)
ClientSymmetry3 == Permutations(ThreeClients)
=============================================================================
