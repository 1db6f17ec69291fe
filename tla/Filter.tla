------------------------------- MODULE Filter -------------------------------
(***************************************************************************)
(* executionMsg() of src/main/TCPserver/TCPserver.c: the loop that takes   *)
(* everything but letters out of a message, in place.  The index i runs    *)
(* over the message as it was, buf, while the copy gets shorter under it.  *)
(* (Indices count from 0 in the code: cell k of the code is k + 1 here.)   *)
(***************************************************************************)
EXTENDS Naturals, Sequences, Keeping

CONSTANTS
    Byte,       \* the bytes of a message, but for the terminator
    Letter,     \* a-z and A-Z
    NUL         \* the terminator

ASSUME FilterAssumption ==
    /\ Letter \subseteq Byte
    /\ NUL \notin Byte

VARIABLES
    buf,                    \* the message, up to its terminator
    contentPacketToSend,    \* its copy, with the terminator
    i                       \* the outer loop's index

filterVars == <<buf, contentPacketToSend, i>>

(* buf[nbytes] = '\0', strcpy().                                           *)
FilterInit(text) ==
    /\ buf = text
    /\ contentPacketToSend = Append(text, NUL)
    /\ i = 0

FilterTypeOK ==
    /\ buf \in Seq(Byte)
    /\ contentPacketToSend \in Seq(Byte \cup {NUL})
    /\ i \in Nat

Current == contentPacketToSend[i + 1]

(* One run of the innermost loop: all cells after the i-th move down by    *)
(* one, and NULs fill up from behind.                                      *)
Shifted ==
    [k \in 1..Len(contentPacketToSend) |->
        IF k <= i THEN contentPacketToSend[k]
        ELSE IF k < Len(contentPacketToSend) THEN contentPacketToSend[k + 1]
        ELSE NUL]

(* The condition of the while.                                             *)
Unwanted == Current \notin Letter /\ Current # NUL

(* Mutant: "if" instead of "while": the cell moved to i is not looked at.  *)
ShiftOnce ==
    /\ i < Len(buf)
    /\ Unwanted
    /\ contentPacketToSend' = Shifted
    /\ i' = i + 1
    /\ UNCHANGED buf

Shift ==
    /\ i < Len(buf)
    /\ Unwanted
    /\ contentPacketToSend' = Shifted
    /\ UNCHANGED <<buf, i>>

(* ++i of the outer loop.                                                  *)
Advance ==
    /\ i < Len(buf)
    /\ ~Unwanted
    /\ i' = i + 1
    /\ UNCHANGED <<buf, contentPacketToSend>>

FilterStep == Shift \/ Advance

(* buf[i] is the terminator: the outer loop ends.                          *)
Filtered == i >= Len(buf)

-----------------------------------------------------------------------------
(* The letters of the message are never touched, whatever stands between   *)
(* them; what the index has passed is letters, then NULs; so when the loop *)
(* ends, what precedes the first NUL is the letters of the message, in     *)
(* their order, also when unwanted bytes come in a row or at the end.      *)
FilterKeepsLetters ==
    /\ Keep(contentPacketToSend, Letter) = Keep(buf, Letter)
    /\ \A k \in 1..i : contentPacketToSend[k] \in Letter \cup {NUL}
    /\ Filtered =>
          \E n \in 0..Len(buf) :
              /\ SubSeq(contentPacketToSend, 1, n) = Keep(buf, Letter)
              /\ contentPacketToSend[n + 1] = NUL
=============================================================================
