----------------------------- MODULE TkNetwork ------------------------------
(***************************************************************************)
(* Several nodes that run the timekeeper on one CSP network.               *)
(*                                                                         *)
(* Each node is the service of svc_tk.c and server_tk.c at a coarser grain *)
(* than in Timekeeper: a command or a sync request is served in one step.  *)
(* What stays visible is what takes time and the test that starts a pass,  *)
(* three reads between which the callback may run.  A pass goes from       *)
(* address to address and waits for each response; a command with WAIT     *)
(* holds the node's only packet callback until a pass ends.  Packets are lost,       *)
(* delayed and reordered; a transaction that is given up leaves its        *)
(* packets in the network.                                                 *)
(***************************************************************************)
EXTENDS Integers, Sequences, FiniteSets

CONSTANTS
    Nodes,        \* addresses that run the service
    Routes,       \* the routing table of each node, in iteration order
    FlagSets,     \* flag bytes an operator sends
    MaxCommands   \* bound: commands of operators in a behaviour

ASSUME NodesAssumption == Nodes \subseteq Nat \ {0}
ASSUME RoutesAssumption == Routes \in [Nodes -> Seq(Nodes)]
\* A command with STATUS and none of START, STOP and ONCE changes nothing that
\* is modelled here and is left out.
ASSUME BoundAssumption ==
    MaxCommands \in Nat /\ FlagSets \subseteq SUBSET {"START", "STOP", "ONCE", "WAIT"}

VARIABLES
    sync_mode, master_node, err,  \* tk_data of each node
    start_sem, finish_sem,        \* its semaphores
    pass,        \* its service thread: idle, in the test, or in a pass
    idx,         \* where the pass is in Routes
    call,        \* its packet callback: free, or held by a WAIT
    net,         \* packets in flight
    budget,      \* commands that are still to come
    commanded,   \* history: nodes that were ever told to sync
    raced,       \* history: nodes told something between two reads of the mode
    reached      \* history: nodes that served a request of this pass

node    == <<sync_mode, master_node, err, start_sem, finish_sem, pass, idx, call>>
history == <<commanded, raced, reached>>
vars    == <<node, net, budget, history>>

\* A packet of the transaction that src opened with dst; open is whether src
\* still waits for it.
Packet(kind, src, dst, open) ==
    [kind |-> kind, src |-> src, dst |-> dst, open |-> open]
Packets == [kind : {"REQ", "RSP"}, src : Nodes, dst : Nodes, open : BOOLEAN]

-----------------------------------------------------------------------------
(* The packet callback.                                                    *)

\* tk_app_sync_time for the last of STOP, START and ONCE that is set.
CommandedMode(flags, mode) ==
    CASE "ONCE"  \in flags -> "ONCE"
      [] "ONCE"  \notin flags /\ "START" \in flags -> "CONTINUOUS"
      [] flags \cap {"ONCE", "START"} = {} /\ "STOP" \in flags -> "STOP"
      [] OTHER -> mode

Command(n, flags) ==
    /\ call[n] = "free" /\ budget > 0 /\ budget' = budget - 1
    /\ sync_mode'   = [sync_mode EXCEPT ![n] = CommandedMode(flags, @)]
    /\ master_node' = [master_node EXCEPT ![n] = 0]
    /\ finish_sem'  = [finish_sem EXCEPT ![n] = 0]
    /\ start_sem'   = [start_sem EXCEPT ![n] = 1]
    /\ call' = [call EXCEPT ![n] = IF "WAIT" \in flags THEN "wait" ELSE "free"]
    /\ commanded' = IF flags \cap {"START", "ONCE"} # {} THEN commanded \cup {n}
                                                         ELSE commanded
    /\ raced' = IF pass[n] = "slave" THEN raced \cup {n} ELSE raced
    /\ UNCHANGED <<err, pass, idx, net, reached>>

EndWait(n) ==
    /\ call[n] = "wait" /\ call' = [call EXCEPT ![n] = "free"]
    /\ UNCHANGED <<sync_mode, master_node, err, start_sem, pass, idx, net, budget,
                   history>>

WaitToken(n) ==
    EndWait(n) /\ finish_sem[n] = 1 /\ finish_sem' = [finish_sem EXCEPT ![n] = 0]

\* Fault: the wait has no timeout.
NoWaitTimeout(n) == EndWait(n) /\ finish_sem[n] = 1 /\ UNCHANGED finish_sem

\* MAX_SYNC_DONE_WAIT went by.
WaitTimeout(n) == EndWait(n) /\ finish_sem[n] = 0 /\ UNCHANGED finish_sem

\* tk_sync_slaves: the clock may refuse; the role changes all the same.
Serve(n) ==
    /\ call[n] = "free"
    /\ \E p \in net :
          /\ p.kind = "REQ" /\ p.dst = n
          /\ net' = (net \ {p}) \cup {Packet("RSP", p.src, n, p.open)}
          /\ master_node' = [master_node EXCEPT ![n] = p.src]
          /\ sync_mode' = [sync_mode EXCEPT ![n] = "SLAVE"]
          /\ reached' = IF p.open THEN [reached EXCEPT ![p.src] = @ \cup {n}]
                                  ELSE reached
    /\ UNCHANGED <<err, start_sem, finish_sem, pass, idx, call, budget, commanded,
                   raced>>

-----------------------------------------------------------------------------
(* The service thread.                                                     *)

\* case ST_IDLE: after a command or after the period the last pass is forgotten.
Wake(n) ==
    /\ pass[n] = "idle" /\ pass' = [pass EXCEPT ![n] = "master"]
    /\ start_sem' = [start_sem EXCEPT ![n] = 0]
    /\ err' = [err EXCEPT ![n] = "NOERR"]
    /\ UNCHANGED <<sync_mode, master_node, finish_sem, idx, call, net, budget,
                   history>>

\* One read of the test whether to sync: where it is, what it asks of the field
\* it reads, and where it goes on; otherwise the thread sleeps again.
Check(n, place, holds, next) ==
    /\ pass[n] = place /\ pass' = [pass EXCEPT ![n] = IF holds THEN next ELSE "idle"]
    /\ UNCHANGED <<sync_mode, master_node, err, start_sem, finish_sem, idx, call, net,
                   budget, history>>

CheckMaster(n) == Check(n, "master", master_node[n] = 0, "stop")

CheckStop(n) == Check(n, "stop", sync_mode[n] # "STOP", "slave")

\* Fault: the mode is not compared with SLAVE.
StartAnyway(n) == Check(n, "slave", TRUE, "send")

\* The last read; a pass starts at the first address.
CheckSlave(n) == Check(n, "slave", sync_mode[n] # "SLAVE", "send")

\* Fault: every second address is skipped.
SkipRoute(n) ==
    /\ pass' = [pass EXCEPT ![n] = "send"]
    /\ idx' = [idx EXCEPT ![n] = @ + 2]

NextRoute(n) ==
    /\ pass' = [pass EXCEPT ![n] = "send"]
    /\ idx' = [idx EXCEPT ![n] = @ + 1]

\* A request for the node itself is an error and is not sent.
SendSelf(n) ==
    /\ pass[n] = "send" /\ idx[n] <= Len(Routes[n]) /\ Routes[n][idx[n]] = n
    /\ NextRoute(n)
    /\ err' = [err EXCEPT ![n] = "ERR"]
    /\ UNCHANGED <<sync_mode, master_node, start_sem, finish_sem, call, net, budget,
                   history>>

OpenTransaction(n) ==
    /\ pass[n] = "send" /\ idx[n] <= Len(Routes[n])
    /\ pass' = [pass EXCEPT ![n] = "txn"]
    /\ net' = net \cup {Packet("REQ", n, Routes[n][idx[n]], TRUE)}
    /\ UNCHANGED <<sync_mode, master_node, err, start_sem, finish_sem, idx, call,
                   budget, history>>

\* Fault: a node sends its request to itself as well.
SendToAll(n) == OpenTransaction(n)

Send(n) == OpenTransaction(n) /\ Routes[n][idx[n]] # n

TakeResponse(n, p) ==
    /\ pass[n] = "txn" /\ NextRoute(n)
    /\ p.kind = "RSP" /\ p.src = n /\ p.dst = Routes[n][idx[n]]
    /\ net' = net \ {p}
    /\ UNCHANGED <<sync_mode, master_node, err, start_sem, finish_sem, call, budget,
                   history>>

\* Fault: any response of the address will do, also to an earlier request.
TxnAnyAnswer(n) == \E p \in net : TakeResponse(n, p)

\* csp_transaction takes the response of its own connection.
TxnAnswered(n) == \E p \in net : p.open /\ TakeResponse(n, p)

\* Fault: an address that does not answer is tried again.
TxnRetry(n) ==
    /\ pass[n] = "txn" /\ pass' = [pass EXCEPT ![n] = "send"]
    /\ net' = {IF p.src = n THEN [p EXCEPT !.open = FALSE] ELSE p : p \in net}
    /\ err' = [err EXCEPT ![n] = "ERR"]
    /\ UNCHANGED <<sync_mode, master_node, start_sem, finish_sem, idx, call, budget,
                   history>>

\* It closes the connection after 1000 ticks; the request may still arrive.
TxnTimeout(n) ==
    /\ pass[n] = "txn" /\ NextRoute(n)
    /\ net' = {IF p.src = n THEN [p EXCEPT !.open = FALSE] ELSE p : p \in net}
    /\ err' = [err EXCEPT ![n] = "ERR"]
    /\ UNCHANGED <<sync_mode, master_node, start_sem, finish_sem, call, budget,
                   history>>

\* case ST_SYNC_DONE.
Done(n) ==
    /\ pass[n] = "send" /\ idx[n] > Len(Routes[n])
    /\ pass' = [pass EXCEPT ![n] = "idle"]
    /\ sync_mode' = [sync_mode EXCEPT ![n] = IF @ = "ONCE" THEN "STOP" ELSE @]
    /\ finish_sem' = [finish_sem EXCEPT ![n] = 1]
    /\ idx' = [idx EXCEPT ![n] = 1] /\ reached' = [reached EXCEPT ![n] = {}]
    /\ UNCHANGED <<master_node, err, start_sem, call, net, budget, commanded, raced>>

Test(n) == CheckMaster(n) \/ CheckStop(n) \/ CheckSlave(n)

Walk(n) == SendSelf(n) \/ Send(n) \/ TxnAnswered(n) \/ TxnTimeout(n) \/ Done(n)

Service(n) == Wake(n) \/ Test(n) \/ Walk(n)

-----------------------------------------------------------------------------
(* The network.                                                            *)

\* A packet is lost, or its connection is closed when it arrives.
Lose ==
    /\ \E p \in net : net' = net \ {p}
    /\ UNCHANGED <<node, budget, history>>

Init ==
    /\ sync_mode   = [n \in Nodes |-> "STOP"]
    /\ master_node = [n \in Nodes |-> 0]
    /\ err         = [n \in Nodes |-> "NOERR"]
    /\ start_sem   = [n \in Nodes |-> 0]
    /\ finish_sem  = [n \in Nodes |-> 0]
    /\ pass        = [n \in Nodes |-> "idle"]
    /\ idx         = [n \in Nodes |-> 1]
    /\ call        = [n \in Nodes |-> "free"]
    /\ net = {} /\ budget = MaxCommands /\ commanded = {} /\ raced = {}
    /\ reached = [n \in Nodes |-> {}]

Next ==
    \/ \E n \in Nodes :
          \/ \E flags \in FlagSets : Command(n, flags)
          \/ WaitToken(n) \/ WaitTimeout(n) \/ Serve(n) \/ Service(n)
    \/ Lose

Fairness ==
    \A n \in Nodes : WF_vars(Service(n)) /\ WF_vars(WaitToken(n) \/ WaitTimeout(n))

Spec == Init /\ [][Next]_vars /\ Fairness

-----------------------------------------------------------------------------
(* Properties.                                                             *)

Modes == {"STOP", "ONCE", "CONTINUOUS", "SLAVE"}

\* Every variable keeps to its type, and a node waits for one transaction at most.
TypeOK ==
    /\ sync_mode \in [Nodes -> Modes] /\ master_node \in [Nodes -> Nodes \cup {0}]
    /\ err \in [Nodes -> {"NOERR", "ERR"}]
    /\ start_sem \in [Nodes -> {0, 1}] /\ finish_sem \in [Nodes -> {0, 1}]
    /\ pass \in [Nodes -> {"idle", "master", "stop", "slave", "send", "txn"}]
    /\ idx \in [Nodes -> Nat \ {0}]
    /\ \A n \in Nodes : /\ idx[n] <= Len(Routes[n]) + 1
                        /\ pass[n] = "txn" => idx[n] <= Len(Routes[n])
    /\ call \in [Nodes -> {"free", "wait"}]
    /\ net \subseteq Packets /\ budget \in 0 .. MaxCommands
    /\ commanded \subseteq Nodes /\ raced \subseteq Nodes
    /\ reached \in [Nodes -> SUBSET Nodes]

InPass(n) == pass[n] \in {"send", "txn"}

\* As long as a pass has no error, every address it has left behind served the
\* request of this very pass, whatever older packets were still about.
CleanPassReachedAll ==
    \A n \in Nodes : InPass(n) /\ err[n] = "NOERR" =>
        \A i \in 1 .. idx[n] - 1 : Routes[n][i] \in reached[n]

\* No node is its own master: it would refuse to sync until the next command.
NeverOwnMaster == \A n \in Nodes : master_node[n] # n

\* A node that alone was ever told to sync is made a slave only through a race:
\* one of its slaves was told something between the two reads of its mode, was
\* neither stopped nor a slave for the test and began a pass of its own.  A slave
\* whose test any other command or request falls into stays at rest.
SoleMasterKeepsRole ==
    \A n \in Nodes :
        commanded \subseteq {n} /\ raced \subseteq {n} => sync_mode[n] # "SLAVE"

\* Every pass ends, though addresses are dead and nodes wait for each other.
PassEnds == \A n \in Nodes : InPass(n) ~> pass[n] = "idle"

\* Every packet callback is freed: two nodes whose commands wait for passes that
\* wait for each other's callbacks do not block for good.
CallEnds == \A n \in Nodes : call[n] = "wait" ~> call[n] = "free"

\* What a node brings about, as far as it is visible at this grain; Timekeeper
\* brings about the same step by step.
Promise(n) == INSTANCE SyncService WITH
    Callers <- {n},
    Route   <- Routes[n],
    Self    <- n,
    phase   <- CASE pass[n] = "send" -> "walking"
                 [] pass[n] = "txn"  -> "talking"
                 [] OTHER -> "resting",
    at      <- IF InPass(n) THEN idx[n] - 1 ELSE 0,
    report  <- err[n],
    waiting <- IF call[n] = "wait" THEN {n} ELSE {},
    ended   <- finish_sem[n] = 1,
    since   <- IF call[n] = "wait" /\ finish_sem[n] = 1 THEN {n} ELSE {}

Kept(n) == [Promise(n)!Next]_(Promise(n)!vars)

\* Whatever the network and the other nodes do, each node keeps the promise.
NodesKeepPromise ==
    (\A n \in Nodes : Promise(n)!Init) /\ [][\A n \in Nodes : Kept(n)]_vars

-----------------------------------------------------------------------------
(* What the client promises; the code does not keep these.                 *)

\* "Start continuous time syncing on node.": when no node was ever told to stop,
\* one of those told to sync continuously still does.
SomeoneKeepsSyncing ==
    commanded # {} => \E n \in Nodes : sync_mode[n] = "CONTINUOUS"
=============================================================================
