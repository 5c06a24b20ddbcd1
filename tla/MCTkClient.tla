----------------------------- MODULE MCTkClient -----------------------------
(* Instances of TkClient for TLC. *)
EXTENDS TkClient, TLC

CONSTANTS c1, c2

Plain(op)   == [op |-> op, flags |-> {}]
Sync(flags) == [op |-> "sync", flags |-> flags]

\* At one console a status alone, a command without status or wait and a combination
\* that is turned down; at the other a pass to wait for with the status after it.
\* The two time commands are at either side.
MCOrders ==
    (c1 :> {Plain("set"), Sync({"STATUS"}), Sync({"START"}), Sync({"START", "STOP"})}) @@
    (c2 :> {Plain("get"), Sync({"STATUS", "ONCE", "WAIT"})})

MCOne == c1 :> {Plain("set"), Plain("get"), Sync({"STATUS"}), Sync({"STATUS", "ONCE", "WAIT"})}
=============================================================================
