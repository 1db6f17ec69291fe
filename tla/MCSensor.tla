------------------------------ MODULE MCSensor ------------------------------
(* The instances of Sensor that TLC checks.                                *)
EXTENDS Sensor

CONSTANTS s1, s2

MCSender == {s1, s2}
OneSender == {s1}
OneField == {1}
MCValue  == {1, 2}
MCAmounts == {0, 1, 2}
MCTimeouts == {0, 1}
MCGarbage == {0, 3, 20, NaN}
OneGarbage == {NaN}
MCLowest == -9
=============================================================================
