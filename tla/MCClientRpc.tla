----------------------------- MODULE MCClientRpc -----------------------------
(* Instances of ClientRpc for TLC: op1 and op2 are copies of one sender,   *)
(* the only operations that share any state besides the context.           *)
EXTENDS ClientRpc, TLC

CONSTANTS op1, op2, snd1

MCOps == {op1, op2}
MCSenders == {snd1}
MCCopyOf == op1 :> snd1 @@ op2 :> snd1
MCAllStatuses == GrpcCodes
MCFewStatuses == {"OK", "NOT_FOUND"}
=============================================================================
