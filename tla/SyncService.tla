----------------------------- MODULE SyncService -----------------------------
(***************************************************************************)
(* What the service of one node promises to those who ask it for a sync: a *)
(* pass that is begun goes to every address of the routing table, once and *)
(* in order, and reports whether one of them failed; and who waits for a   *)
(* pass is told of one that ended meanwhile, or gives up when there is     *)
(* none.  How the threads bring this about is in Timekeeper, what several  *)
(* such nodes do to each other in TkNetwork.                               *)
(***************************************************************************)
EXTENDS Naturals, Sequences

CONSTANTS
    Callers,   \* who may wait for a pass
    Route,     \* the addresses a pass goes to
    Self       \* the node's own address, which it cannot sync

VARIABLES
    phase,     \* resting, walking along Route, talking to an address, or dead
    at,        \* how many addresses of this pass are done
    report,    \* the error the status reports
    waiting,   \* callers that wait for a pass
    ended,     \* a pass has ended and nobody has taken note of it
    since      \* callers that have been waiting since before a pass ended

walk == <<phase, at, report>>
desk == <<waiting, ended, since>>
vars == <<walk, desk>>

Init == /\ phase = "resting" /\ at = 0 /\ report = "NOERR"
        /\ waiting = {} /\ ended = FALSE /\ since = {}

\* The service could not be set up: it will never sync, and says so.
Die == /\ phase = "resting" /\ phase' = "dead" /\ report' = "ERR"
       /\ UNCHANGED <<at, desk>>

\* It wakes up; the last pass is forgotten, and there may be nothing to do.
Wake == /\ phase = "resting" /\ report' = "NOERR"
        /\ phase' \in {"resting", "walking"} /\ UNCHANGED <<at, desk>>

\* The next address is asked to set its clock.  Its own the node does not ask, and
\* reports it as a failure.
Call == /\ phase = "walking" /\ at < Len(Route) /\ Route[at + 1] # Self
        /\ phase' = "talking" /\ UNCHANGED <<at, report, desk>>

Skip == /\ phase = "walking" /\ at < Len(Route) /\ Route[at + 1] = Self
        /\ at' = at + 1 /\ report' = "ERR" /\ UNCHANGED <<phase, desk>>

\* It answered or failed.  A failure is on record until the end of the pass.
HangUp == /\ phase = "talking" /\ phase' = "walking" /\ at' = at + 1
          /\ report' \in {report, "ERR"} /\ UNCHANGED desk

\* The pass is over when every address is done; all who wait may be told.
End == /\ phase = "walking" /\ at = Len(Route)
       /\ phase' = "resting" /\ at' = 0 /\ ended' = TRUE /\ since' = waiting
       /\ UNCHANGED <<report, waiting>>

\* A command came in: what ended before is no answer to it.
Forget == ended' = FALSE /\ UNCHANGED <<walk, waiting, since>>

Ask(c) == /\ c \notin waiting /\ waiting' = waiting \cup {c} /\ ended' = FALSE
          /\ UNCHANGED <<walk, since>>

Leave(c) == waiting' = waiting \ {c} /\ since' = since \ {c} /\ UNCHANGED walk

\* One caller is told of one end, which came after it began to wait.
Told(c) == c \in since /\ ended /\ ended' = FALSE /\ Leave(c)

GiveUp(c) == c \in waiting /\ ~ended /\ UNCHANGED ended /\ Leave(c)

Next == \/ Die \/ Wake \/ Call \/ Skip \/ HangUp \/ End \/ Forget
        \/ \E c \in Callers : Ask(c) \/ Told(c) \/ GiveUp(c)

Spec == Init /\ [][Next]_vars
=============================================================================
