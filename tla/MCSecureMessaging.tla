------------------------- MODULE MCSecureMessaging -------------------------
(* Small instance of SecureMessaging for TLC: two keys, two commands, two  *)
(* SW2 values, and a 2-bit counter that the fourth command wraps to 0.   *)
EXTENDS SecureMessaging

CONSTANTS k1, k2, insA, insB

MCKeys == {k1, k2}
MCCmds == {insA, insB}
MCSw2s == {"00", "AE"}
=============================================================================
