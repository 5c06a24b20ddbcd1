---------------------------- MODULE MCTkNetwork -----------------------------
(***************************************************************************)
(* A small instance of TkNetwork for TLC.                                  *)
(***************************************************************************)
EXTENDS TkNetwork, TLC

\* Node 1 has the whole network in its table, itself too; node 2 its peer.
MCMixed == 1 :> <<1, 2>> @@ 2 :> <<1>>

\* START and ONCE, a STOP that waits, and a bare WAIT, which a slave obeys too.
MCSync == {{"START"}, {"STOP", "WAIT"}, {"ONCE", "WAIT"}, {"WAIT"}}

\* For the run that tells both nodes to sync continuously.
MCStart == {{"START"}}
=============================================================================
