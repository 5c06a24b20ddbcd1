------------------------------ MODULE BytePipe ------------------------------
(***************************************************************************)
(* What one direction of a serial port promises: bytes leave in the order  *)
(* they entered, none is lost, none appears, and no more than Capacity are *)
(* under way.  pipe holds the bytes under way, got what the read call in   *)
(* progress has collected.                                                 *)
(***************************************************************************)
EXTENDS Naturals, Sequences

CONSTANTS Byte, Capacity

VARIABLES pipe, got

Init == pipe = <<>> /\ got = <<>>

Put(byte) == /\ Len(pipe) < Capacity
             /\ pipe' = Append(pipe, byte) /\ UNCHANGED got

Take == /\ pipe # <<>>
        /\ pipe' = Tail(pipe) /\ got' = Append(got, Head(pipe))

\* A new read call begins with nothing collected.
Begin == got' = <<>> /\ UNCHANGED pipe

\* The receiving port is opened again.
Reset == pipe' = <<>> /\ UNCHANGED got

Next == (\E byte \in Byte : Put(byte)) \/ Take \/ Begin \/ Reset

Spec == Init /\ [][Next]_<<pipe, got>>
=============================================================================
