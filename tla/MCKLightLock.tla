---------------------------- MODULE MCKLightLock ----------------------------
(***************************************************************************)
(* Instances of KLightLock: two threads of the highest priority, one of a  *)
(* lower one.                                                              *)
(***************************************************************************)
EXTENDS KLightLock, TLC

CONSTANTS t1, t2, t3

\* Two equal priorities (the order of arrival decides) and a lower one.
MCPrio == (t1 :> 44) @@ (t2 :> 44) @@ (t3 :> 59)
=============================================================================
