----------------------------- MODULE MCThreaded -----------------------------
(* The instance of ThreadedServer that TLC checks.                         *)
EXTENDS ThreadedServer

CONSTANTS c1, c2

MCClient == {c1, c2}
MCFd == 0..2
MCLineLengths == {0, 1}
=============================================================================
