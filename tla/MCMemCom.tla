------------------------------ MODULE MCMemCom ------------------------------
(* Instances of MemCom for TLC. *)
EXTENDS MemCom, TLC

MCByte == {0, 1}
MCSends == 0 :> {0, 1} @@ 1 :> {1}
OneByte == {1}
TwoBytes == {2}
=============================================================================
