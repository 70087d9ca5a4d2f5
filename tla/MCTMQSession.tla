----------------------------- MODULE MCTMQSession -----------------------------
(***************************************************************************)
(* Model values and bounds for checking TMQSession with TLC.               *)
(***************************************************************************)
EXTENDS TMQSession, TLC


MCSymmetry == Permutations(Obj)
=============================================================================
