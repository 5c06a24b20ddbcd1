---------------------------- MODULE MCTimekeeper ----------------------------
(***************************************************************************)
(* Small instances of Timekeeper for TLC.                                  *)
(***************************************************************************)
EXTENDS Timekeeper, TLC

MCAddr       == {0, 1, 2}
MCRoutes     == <<1, 2>>   \* 1 is Self: a routing table may list the node itself
MCRoutesPeer == <<2>>

\* The seven things a command of the console can be to a node, to which STATUS
\* beside a mode says nothing; and one that only another client sends.
MCConsole == {{"STATUS"}, {"START"}, {"STOP"}, {"START", "WAIT"}, {"ONCE"},
              {"ONCE", "WAIT"}, {"STATUS", "STOP", "WAIT"}}
             \cup {{"WAIT"}}
\* Enough for the roles and the waits of several callbacks.
MCRoles   == {{"ONCE", "WAIT"}}
\* Each mode can be entered and kept.
MCModes   == {{"START"}, {"STOP"}, {"ONCE", "WAIT"}}

MCFreqs     == {-1, 9}            \* no frequency, and one that a long truncates
MCFreqsNone == {-1}

\* The callbacks are the same code; the two-callback run checks safety only.
MCSymmetry == Permutations(Handlers)
=============================================================================
