----------------------------- MODULE MCTMQFanOut -----------------------------
(* Values for checking TMQFanOut with TLC: an error code and the "no     *)
(* offset" value of the native library beside two ordinary offsets.      *)
EXTENDS TMQFanOut

MCOffsetInvalid == -2147467247
MCResults == {0, 7, -1, MCOffsetInvalid}
====
