------------------------------ MODULE TkClient ------------------------------
(***************************************************************************)
(* Consoles that give commands to one node: tk_cmd.c and client_tk.c,      *)
(* against the handlers of the node at the grain of TkNetwork.             *)
(*                                                                         *)
(* Time is counted in steps of TIMEOUT_MS.  A packet is lost or arrives    *)
(* before the next step, unless the node's only callback is held by a      *)
(* command with WAIT.  A console gives one command after the other; each   *)
(* command has a number.                                                   *)
(*                                                                         *)
(* A status is read field by field while the service thread runs.  It      *)
(* writes err and sync_mode, so these two reads are steps of their own;    *)
(* last_sync and master_node are written by the callback only, which is    *)
(* the one that reads them.                                                *)
(***************************************************************************)
EXTENDS Integers, FiniteSets

CONSTANTS
    Consoles,
    Orders,        \* what the operator of each console types: commands and flags
    MaxCommands,   \* bound: commands typed in a behaviour
    TxnTimeout,    \* TIMEOUT_MS, in steps
    SyncTimeout,   \* SYNC_TIMEOUT, which is in milliseconds
    MaxWait        \* MAX_SYNC_DONE_WAIT, which is in ticks of the kernel

ASSUME BoundAssumption == MaxCommands \in Nat
ASSUME TimeoutAssumption ==
    TxnTimeout \in Nat \ {0} /\ SyncTimeout \in Nat \ {0} /\ MaxWait \in Nat \ {0}

Flags == {"STATUS", "START", "STOP", "ONCE", "WAIT"}
Ids   == 1 .. MaxCommands

\* What can be typed.
Commands == [op : {"set", "get"}, flags : {{}}] \cup [op : {"sync"}, flags : SUBSET Flags]
ASSUME OrdersAssumption == Orders \in [Consoles -> SUBSET Commands]

VARIABLES
    clock,      \* the node: the command that last set its clock, 0 if none, -1 if
                \* another node did
    mode,       \* tk_data.sync_mode
    err,        \* tk_data.err
    master_node, \* tk_data.master_node, 1 for any other node
    last_sync,  \* tk_data.last_sync: who caused the last write, as for clock
    pass,       \* its service thread: idle, in the test, or walking the table
    finish_sem, \* tk_wait_finish_sem
    held,       \* the command the callback is busy with, 0 if none
    got,        \* what it has read of err, or waiting
    heldLeft,   \* what is left of MAX_SYNC_DONE_WAIT
    net,        \* packets
    order,      \* the commands typed so far, a function of their numbers
    txn,        \* each console: the command whose response it waits for, 0 if none
    left,       \* what is left of the timeout of its transaction
    printed,    \* what a console printed for each command
    served,     \* history: how often the node carried a command out
    took,       \* history: set-time commands that set the clock
    since,      \* history: what was true of the node since a command was typed that
                \* has no outcome yet
    wrong,      \* history: what was printed of the node and was not among that
    excused     \* history: commands that lost a packet, met a held callback or
                \* waited for SYNC_TIMEOUT

tk_data == <<mode, err, master_node, last_sync>>
calls   == <<finish_sem, held, got, heldLeft>>
node    == <<clock, tk_data, pass, calls>>
console == <<order, txn, left, printed>>
history == <<served, took, since, wrong, excused>>
vars    == <<node, net, console, history>>

\* What the node says of itself in a response.  last_failed_node is never written by
\* tk_app_sync_time: the byte that the buffer held is sent and printed.
Now == [clock |-> clock, error |-> err, last_sync |-> last_sync,
        master_node |-> master_node, mode |-> mode, last_failed_node |-> "unwritten"]

\* The fields of it that the print of a command shows.
Printed(o) ==
    CASE o.op = "get" -> {"clock"}
      [] o.op = "sync" /\ "STATUS" \in o.flags ->
            {"error", "last_failed_node", "last_sync", "master_node", "mode"}
      [] OTHER -> {}

Report(o, answer) == [f \in Printed(o) |-> answer[f]]

\* What is printed, but for the last failed node, which is true of nothing.
Claims(says) == {<<f, says[f]>> : f \in DOMAIN says \ {"last_failed_node"}}

\* The commands not yet answered, before whose eyes the fields change.
Open == {i \in DOMAIN order : printed[i] = "nothing"}

Saw == since' = [i \in Ids |-> IF i \in Open
                               THEN since[i] \cup Claims(Report(order[i], Now')) ELSE since[i]]

-----------------------------------------------------------------------------
(* The console.                                                            *)

Exclusive(flags) == flags \cap {"START", "STOP", "ONCE"}

\* Fault: the flags are not counted.
AcceptedAny(flags) == flags # {}

\* The tests of tk_time_sync_req.
Accepted(flags) ==
    /\ flags # {}
    /\ Cardinality(Exclusive(flags)) = 1 \/ flags = {"STATUS"}

\* Fault: the sync command uses the timeout of the others.
OneTimeout(op) == TxnTimeout

Timeout(op) == IF op = "sync" THEN SyncTimeout ELSE TxnTimeout

ModeFlag(m) == CASE m = "STOP" -> "STOP" [] m = "CONTINUOUS" -> "START"
                 [] m = "ONCE" -> "ONCE" [] OTHER -> "NONE"

Typed == DOMAIN order

NewId == Cardinality(Typed) + 1

Enter(c, o) ==
    /\ txn[c] = 0 /\ NewId <= MaxCommands
    /\ order' = [i \in 1 .. NewId |-> IF i = NewId THEN o ELSE order[i]]
    /\ since' = [since EXCEPT ![NewId] = Claims(Report(o, Now))]
    /\ UNCHANGED <<node, served, took, wrong, excused>>

\* The request of tk_set_time, tk_get_time and tk_sync_time.
Submit(c, o) ==
    /\ Enter(c, o)
    /\ txn'  = [txn EXCEPT ![c] = NewId]
    /\ left' = [left EXCEPT ![c] = Timeout(o.op)]
    /\ net'  = net \cup {[kind |-> "REQ", id |-> NewId, ret |-> 0, says |-> <<>>]}
    /\ UNCHANGED printed

Refuse(c, o, word) ==
    /\ Enter(c, o) /\ printed' = [printed EXCEPT ![NewId] = word]
    /\ UNCHANGED <<txn, left, net>>

\* The commands up to the request.
tk_set_time_req(c, o) ==
    o.op = "set" /\ (Submit(c, o) \/ Refuse(c, o, "no time"))   \* clock_gettime failed
tk_get_time_req(c, o) == o.op = "get" /\ Submit(c, o)
tk_time_sync_req(c, o) ==
    /\ o.op = "sync"
    /\ IF Accepted(o.flags) THEN Submit(c, o) ELSE Refuse(c, o, "rejected")

\* What they make of a response that came in time.
SetVerdict(ret) == "done"    \* ret is not looked at
GetVerdict == "shown"
SyncVerdict(flags, ret) ==
    IF ret # 0 THEN "operation failed" ELSE IF "STATUS" \in flags THEN "shown" ELSE "done"

Verdict(o, ret) ==
    CASE o.op = "set"  -> SetVerdict(ret)
      [] o.op = "get"  -> GetVerdict
      [] o.op = "sync" -> SyncVerdict(o.flags, ret)

\* A command has its outcome, and the console is free for the next.
Return(c, word) ==
    /\ txn[c] # 0 /\ txn' = [txn EXCEPT ![c] = 0] /\ left' = [left EXCEPT ![c] = 0]
    /\ printed' = [printed EXCEPT ![txn[c]] = word]
    /\ since' = [since EXCEPT ![txn[c]] = {}]
    /\ UNCHANGED <<node, order, served, took, excused>>

Take(c, p) ==
    LET o == order[txn[c]]
        word == Verdict(o, p.ret) IN
    /\ p.kind = "RSP" /\ net' = net \ {p}
    /\ Return(c, word)
    /\ wrong' = IF word = "shown" THEN wrong \cup (Claims(p.says) \ since[txn[c]])
                                  ELSE wrong

\* Fault: the response to another command is taken.
TakeAnyResponse(c) == txn[c] # 0 /\ \E p \in net : Take(c, p)

\* cmd_lp_generic_txn_addr takes the response of its own connection.
TakeResponse(c) == txn[c] # 0 /\ \E p \in net : p.id = txn[c] /\ Take(c, p)

Fails(c) == Return(c, "failed") /\ left[c] = 0 /\ UNCHANGED <<net, wrong>>

\* Fault: a command that got no response is sent again.
Retry(c) ==
    /\ txn[c] # 0 /\ left[c] = 0
    /\ left' = [left EXCEPT ![c] = Timeout(order[txn[c]].op)]
    /\ net' = net \cup {[kind |-> "REQ", id |-> txn[c], ret |-> 0, says |-> <<>>]}
    /\ UNCHANGED <<node, order, txn, printed, history>>

\* The timeout of the transaction.
GiveUp(c) == Fails(c)

-----------------------------------------------------------------------------
(* The node.                                                               *)

\* The fields that are not printed are left out.
Response(id, ret, answer) ==
    [kind |-> "RSP", id |-> id, ret |-> ret, says |-> Report(order[id], answer)]

Answer(p, ret) == net' = (net \ {p}) \cup {Response(p.id, ret, Now)}

Serve(p) ==
    /\ held = 0 /\ p \in net /\ p.kind = "REQ"
    /\ served' = [served EXCEPT ![p.id] = IF @ = 0 THEN 1 ELSE 2]   \* 2: more than once

\* tk_set_time: the clock may refuse.
ServeSet(p) ==
    /\ Serve(p) /\ order[p.id].op = "set"
    /\ \/ clock' = p.id /\ took' = took \cup {p.id} /\ Answer(p, 0)
       \/ UNCHANGED <<clock, took>> /\ Answer(p, 1)
    /\ UNCHANGED <<tk_data, pass, calls, console, wrong, excused>>
    /\ Saw

ServeGet(p) ==
    /\ Serve(p) /\ order[p.id].op = "get"
    /\ Answer(p, 0)
    /\ UNCHANGED <<node, console, took, since, wrong, excused>>

\* tk_app_sync_time begins to read the status for a request.
ServeStatus(p) ==
    /\ Serve(p) /\ order[p.id].op = "sync"
    /\ "STATUS" \in order[p.id].flags /\ Exclusive(order[p.id].flags) = {}
    /\ held' = p.id /\ got' = err /\ net' = net \ {p}
    /\ UNCHANGED <<clock, tk_data, pass, finish_sem, heldLeft, console, took, since,
                   wrong, excused>>

\* tk_app_sync_time: the last of STOP, START and ONCE that is set.
Mode(flags) ==
    CASE "ONCE" \in flags -> "ONCE"
      [] "ONCE" \notin flags /\ "START" \in flags -> "CONTINUOUS"
      [] flags \cap {"ONCE", "START"} = {} /\ "STOP" \in flags -> "STOP"
      [] OTHER -> mode

ServeSync(p) ==
    LET flags == order[p.id].flags IN
    /\ Serve(p) /\ order[p.id].op = "sync"
    /\ "STATUS" \notin flags \/ Exclusive(flags) # {}
    /\ mode' = Mode(flags) /\ master_node' = 0 /\ finish_sem' = 0
    /\ held' = p.id /\ net' = net \ {p}
    /\ IF "WAIT" \in flags
       THEN got' = "waiting" /\ heldLeft' = MaxWait /\ UNCHANGED last_sync
       ELSE got' = err /\ last_sync' = p.id /\ UNCHANGED heldLeft
    /\ UNCHANGED <<clock, err, pass, console, took, wrong, excused>>
    /\ Saw

EndWait ==
    /\ held # 0 /\ got = "waiting"
    /\ got' = err /\ last_sync' = held /\ finish_sem' = 0 /\ heldLeft' = 0
    /\ UNCHANGED <<clock, mode, err, master_node, pass, held, net, console, served, took,
                   wrong, excused>>
    /\ Saw

WaitToken   == EndWait /\ finish_sem = 1
WaitTimeout == EndWait /\ finish_sem = 0 /\ heldLeft = 0

\* The rest of the status is read and sent.
Reply ==
    /\ held # 0 /\ got # "waiting"
    /\ net' = net \cup {Response(held, 0, [Now EXCEPT !.error = got])}
    /\ held' = 0 /\ got' = "waiting"
    /\ UNCHANGED <<clock, tk_data, pass, finish_sem, heldLeft, console, history>>

\* Fault: the semaphore counts its releases.
CountingRelease == finish_sem + 1

Released == 1

Thread == UNCHANGED <<clock, master_node, last_sync, held, got, heldLeft, net, console,
                      served, took, wrong, excused>> /\ Saw

\* ST_IDLE: after a command or the period.  The test whether to sync reads the
\* master and twice the mode, and the callback may run between.
Wake ==
    /\ pass = "idle" /\ pass' = IF master_node = 0 THEN "stop" ELSE "idle"
    /\ err' = "NOERR"
    /\ UNCHANGED <<mode, finish_sem>> /\ Thread

Check(place, holds, next) ==
    /\ pass = place /\ pass' = IF holds THEN next ELSE "idle"
    /\ UNCHANGED <<mode, err, finish_sem>> /\ Thread

CheckStop  == Check("stop", mode # "STOP", "slave")
CheckSlave == Check("slave", mode # "SLAVE", "walk")

\* An address could not be synced.
PassFails ==
    /\ pass = "walk" /\ err' = "ERR"
    /\ UNCHANGED <<mode, pass, finish_sem>> /\ Thread

\* ST_SYNC_DONE, whatever the mode is by now.
PassEnds ==
    /\ pass = "walk" /\ pass' = "idle" /\ finish_sem' = Released
    /\ mode' = IF mode = "ONCE" THEN "STOP" ELSE mode
    /\ UNCHANGED err /\ Thread

Service == Wake \/ CheckStop \/ CheckSlave \/ PassFails \/ PassEnds

\* tk_sync_slaves, asked by another node: the clock may refuse.
MadeSlave ==
    /\ held = 0
    /\ clock' \in {clock, -1} /\ master_node' = 1 /\ last_sync' = -1 /\ mode' = "SLAVE"
    /\ UNCHANGED <<err, pass, calls, net, console, served, took, wrong, excused>>
    /\ Saw

-----------------------------------------------------------------------------
Lose ==
    /\ \E p \in net : net' = net \ {p} /\ excused' = excused \cup {p.id}
    /\ UNCHANGED <<node, console, served, took, since, wrong>>

\* A response that comes when its connection is closed is dropped.
Late(p) == p.kind = "RSP" /\ \A c \in Consoles : txn[c] # p.id

\* The callback has been held for SYNC_TIMEOUT when this step is over.
WaitIsLong == held # 0 /\ MaxWait - heldLeft + 1 >= SyncTimeout

\* One step of time, when nothing is due and only requests that wait for the
\* callback are in the network.
Tick ==
    /\ \A c \in Consoles : txn[c] # 0 => left[c] > 0
    /\ held # 0 => got = "waiting" /\ heldLeft > 0
    /\ \A p \in net : IF p.kind = "REQ" THEN held # 0 ELSE Late(p)
    /\ left' = [c \in Consoles |-> IF txn[c] # 0 THEN left[c] - 1 ELSE left[c]]
    /\ heldLeft' = IF held # 0 THEN heldLeft - 1 ELSE heldLeft
    /\ net' = {p \in net : ~Late(p)}
    /\ excused' = excused \cup {p.id : p \in net}
                           \cup (IF WaitIsLong THEN {held} ELSE {})
    /\ UNCHANGED <<clock, tk_data, pass, finish_sem, held, got, order, txn, printed,
                   served, took, since, wrong>>

Init ==
    /\ clock = 0 /\ mode = "STOP" /\ err = "NOERR" /\ master_node = 0 /\ last_sync = 0
    /\ pass = "idle" /\ finish_sem = 0 /\ held = 0 /\ got = "waiting" /\ heldLeft = 0
    /\ net = {} /\ order = <<>>
    /\ txn = [c \in Consoles |-> 0] /\ left = [c \in Consoles |-> 0]
    /\ printed = [i \in Ids |-> "nothing"]
    /\ served = [i \in Ids |-> 0] /\ took = {}
    /\ since = [i \in Ids |-> {}] /\ wrong = {} /\ excused = {}

NodeStep ==
    \/ \E p \in net : ServeSet(p) \/ ServeGet(p) \/ ServeStatus(p) \/ ServeSync(p)
    \/ WaitToken \/ WaitTimeout \/ Reply

ConsoleStep == \E c \in Consoles : TakeResponse(c) \/ GiveUp(c)

Next ==
    \/ \E c \in Consoles : \E o \in Orders[c] :
          tk_set_time_req(c, o) \/ tk_get_time_req(c, o) \/ tk_time_sync_req(c, o)
    \/ ConsoleStep \/ NodeStep \/ Service \/ MadeSlave \/ Lose \/ Tick

\* A console gives up on time, a callback ends its wait on time, time passes: one of
\* them happens in the end.  Which one is left open: between two ticks the others
\* happen a finite number of times.
Fairness == WF_vars(ConsoleStep \/ NodeStep \/ Tick)

Spec == Init /\ [][Next]_vars /\ Fairness

-----------------------------------------------------------------------------
(* Properties.                                                             *)

\* Commands are numbered without gaps, and a timer runs only as far as its timeout.
TypeOK ==
    /\ Typed = 1 .. Cardinality(Typed) /\ \A i \in Typed : order[i] \in Commands
    /\ clock \in -1 .. MaxCommands /\ mode \in {"STOP", "ONCE", "CONTINUOUS", "SLAVE"}
    /\ err \in {"NOERR", "ERR"} /\ master_node \in {0, 1} /\ last_sync \in -1 .. MaxCommands
    /\ pass \in {"idle", "stop", "slave", "walk"} /\ got \in {"waiting", "NOERR", "ERR"}
    /\ finish_sem \in {0, 1} /\ held \in 0 .. MaxCommands /\ heldLeft \in 0 .. MaxWait
    /\ \A p \in net : p.kind \in {"REQ", "RSP"} /\ p.id \in Typed /\ p.ret \in {0, 1}
    /\ \A c \in Consoles : txn[c] \in Typed \cup {0} /\ left[c] \in Nat
    /\ \A c, d \in Consoles : txn[c] = txn[d] /\ txn[c] # 0 => c = d

\* The node does the one thing the operator asked for: no combination of flags
\* that passes the console means something else to tk_app_sync_time.
ObeysOrder ==
    [][\A i \in Typed : served'[i] # served[i] /\ Exclusive(order[i].flags) # {}
                            => Exclusive(order[i].flags) = {ModeFlag(mode')}]_vars

\* A command that the console reports as successful was carried out, and no
\* command is carried out twice, whatever was lost, given up or answered late.
SuccessMeansServedOnce ==
    \A i \in Ids :
        /\ served[i] <= 1
        /\ printed[i] \in {"done", "shown"} => served[i] = 1

\* Each field that is printed of the time or the status, but for the last failed
\* node, had that value at some moment after the command was typed.  That all had
\* theirs at one moment is not said, and is not so.
ShownWasTrue == wrong = {}

\* A console reports that no answer came ("Failed, code ...") only if a packet was
\* lost, the callback was held by another command, or its own wait for a pass
\* lasted SYNC_TIMEOUT.  The last is no rarity: MAX_SYNC_DONE_WAIT is as many ticks
\* as SYNC_TIMEOUT is milliseconds.
FailsForAReason == \A i \in Ids : printed[i] = "failed" => i \in excused

\* The operator gets the prompt back.
CommandReturns == \A c \in Consoles : txn[c] # 0 ~> txn[c] = 0

\* "Time successfully set." is printed when the clock was set; the code does not
\* keep this.
SetMeansSet ==
    \A i \in Typed : order[i].op = "set" /\ printed[i] = "done" => i \in took
=============================================================================
