----------------------------- MODULE Timekeeper -----------------------------
(***************************************************************************)
(* The time-keeping service of one node: svc_tk.c and its packet server    *)
(* server_tk.c.                                                            *)
(*                                                                         *)
(* Two kinds of thread share the plain C struct tk_data and two binary     *)
(* semaphores.  The service thread (timekeeper_init, then timekeeper_main) *)
(* sleeps until a command or a period wakes it and then sends the local    *)
(* time to every address of the routing table.  Packet callbacks           *)
(* (server_process_timekeeper_packet) write tk_data, wake the service      *)
(* thread and, when asked to, wait for a pass to finish.  No lock protects *)
(* tk_data, so every access to a field that another thread also uses is a  *)
(* step of its own.                                                        *)
(***************************************************************************)
EXTENDS Integers, Sequences, FiniteSets

CONSTANTS
    Handlers,        \* threads that run packet callbacks (the deployment has one)
    Addr,            \* node addresses
    Self,            \* csp_get_address()
    Routes,          \* the routing table, in iteration order
    Masters,         \* addresses a TK_SYNC_SLAVES request may carry
    FlagSets,        \* flag bytes a TK_SYNC_TIME request may carry, as sets of names
    Freqs,           \* frequencies a TK_SYNC_TIME request may carry (i64)
    Times,           \* times a request may carry (u64)
    TimeMod,         \* number of values of csp_timestamp_t.tv_sec (u32)
    LongMod,         \* number of values of a long
    TickMod,         \* number of values of a semaphore timeout (u32 ticks)
    DefFrequency,    \* DEF_SYNC_FREQUENCY
    Garbage,         \* values an uninitialised byte of the stack may hold
    ServeDuringBoot  \* may a packet be served before timekeeper_init is done?

ASSUME AddrAssumption ==
    Addr \subseteq Nat /\ 0 \in Addr /\ Self \in Addr /\ Masters \subseteq Addr
ASSUME RoutesAssumption == Routes \in Seq(Addr)
ASSUME WidthAssumption ==
    /\ TimeMod \in Nat \ {0} /\ LongMod \in Nat \ {0, 1} /\ TickMod \in Nat
    /\ LongMod <= TickMod
    /\ DefFrequency \in 1 .. TickMod - 2
ASSUME InputAssumption ==
    /\ Freqs \subseteq Int /\ Times \subseteq Nat /\ Garbage \subseteq Nat
    /\ Garbage # {} /\ ServeDuringBoot \in BOOLEAN
    /\ FlagSets \subseteq SUBSET {"STATUS", "START", "STOP", "ONCE", "WAIT"}

VARIABLES
    sync_mode, master_node, frequency, last_sync, err, last_failed_node,
                 \* the fields of tk_data
    start_sem,   \* tk_start_sem: NoSem, or its count
    finish_sem,  \* tk_wait_finish_sem
    clock,       \* the node's CSP clock, seconds
    main,        \* program counter of the service thread
    idx,         \* position of csp_rtable_iterate in Routes
    ticks,       \* timeout the service thread sleeps with
    pc,          \* program counter of each packet callback
    req,         \* the request each callback serves
    rsp,         \* the response it is filling in
    seen,        \* history: of each callback, that a pass under way when its waiting
                 \* request came in still is, and what it saw since its drain
    failed       \* history: the last address that failed in this pass

tk_data == <<sync_mode, master_node, frequency, last_sync, err, last_failed_node>>
sems    == <<start_sem, finish_sem>>
service == <<main, idx, ticks>>
calls   == <<pc, req, rsp>>
history == <<seen, failed>>
vars    == <<tk_data, sems, clock, service, calls, history>>

\* All but tk_data and the program counter of the thread that takes a step.
aroundMain == <<sems, clock, idx, ticks, calls, history>>
aroundCall == <<sems, clock, service, req, rsp, history>>

NoSem  == -1    \* a semaphore handle that is still NULL
NoNode == -1    \* no address failed

Modes == {"STOP", "ONCE", "CONTINUOUS", "SLAVE"}
Errs  == {"NOERR", "ERR"}

BootSteps == {"boot", "boot2", "sem1", "sem2", "sem3"}
PassSteps == {"iterate", "txn", "done", "unset", "release"}
MainSteps == BootSteps \cup PassSteps \cup
    {"dead", "idle", "asleep", "clear", "chkMaster", "chkStop", "chkSlave"}
CallSteps ==
    {"idle", "setTime", "getTime", "slaveClock", "slaveMaster", "slaveSync",
     "slaveMode", "frequency", "stop", "start", "once", "master", "drain",
     "release", "wait", "stamp", "readError", "readSync", "readMaster",
     "readMode", "reply"}

Request(cmd, flags, freq, node, time) ==
    [cmd |-> cmd, flags |-> flags, frequency |-> freq, node |-> node, time |-> time]
NoReq == Request("NONE", {}, 0, 0, 0)
NoRsp == [error |-> "NOERR", last_sync |-> 0, master_node |-> 0, mode |-> "STOP",
          last_failed_node |-> 0, ret_val |-> 0, time |-> 0]

-----------------------------------------------------------------------------
(* Conversions of C and calls of the RTOS.                                 *)

ToTime(t) == t % TimeMod                            \* (uint32_t)(req->time)

ToLong(f) == LET w == f % LongMod                   \* i64 passed as a long
             IN  IF 2 * w >= LongMod THEN w - LongMod ELSE w

\* Fault: only a command wakes the service thread.
TicksForever(f) == TickMod - 1

ToTicks(f) == f % TickMod                           \* u64 passed as u32 ticks

Forever == TickMod - 1                              \* osWaitForever

\* Fault: a counting semaphore.
CountingRelease(sem) == IF sem = NoSem THEN NoSem ELSE sem + 1

\* osSemaphoreRelease of a binary semaphore: at most one token, none if NULL.
Released(sem) == IF sem = NoSem THEN NoSem ELSE 1

-----------------------------------------------------------------------------
(* The service thread: timekeeper_init.                                    *)

Step(from, to) == main = from /\ main' = to

InitFields1 ==
    /\ Step("boot", "boot2")
    /\ err' = "NOERR" /\ frequency' = DefFrequency /\ sync_mode' = "STOP"
    /\ UNCHANGED <<master_node, last_sync, last_failed_node, aroundMain>>

InitFields2 ==
    /\ Step("boot2", "sem1")
    /\ last_sync' = 0 /\ last_failed_node' = 0 /\ master_node' = 0
    /\ UNCHANGED <<err, frequency, sync_mode, aroundMain>>

\* osSemaphoreNew(1, 0, NULL) creates an empty semaphore or runs out of memory.
NewStartSem ==
    /\ Step("sem1", "sem2") /\ start_sem' \in {NoSem, 0}
    /\ UNCHANGED <<tk_data, finish_sem, clock, idx, ticks, calls, history>>

NewFinishSem ==
    /\ Step("sem2", "sem3") /\ finish_sem' \in {NoSem, 0}
    /\ UNCHANGED <<tk_data, start_sem, clock, idx, ticks, calls, history>>

\* The third semaphore is created but never used: only its failure counts.
StartMain ==
    /\ Step("sem3", "idle") /\ start_sem # NoSem /\ finish_sem # NoSem
    /\ UNCHANGED <<tk_data, aroundMain>>

InitFails ==
    /\ Step("sem3", "dead") /\ err' = "ERR"
    /\ UNCHANGED <<sync_mode, master_node, frequency, last_sync,
                   last_failed_node, aroundMain>>

Boot == InitFields1 \/ InitFields2 \/ NewStartSem \/ NewFinishSem
            \/ StartMain \/ InitFails

-----------------------------------------------------------------------------
(* The service thread: timekeeper_main.                                    *)

\* case ST_IDLE: the timeout is read once, when the thread goes to sleep.
Sleep ==
    /\ Step("idle", "asleep") /\ ticks' = ToTicks(frequency)
    /\ UNCHANGED <<tk_data, sems, clock, idx, calls, history>>

WakeByStart ==
    /\ Step("asleep", "clear") /\ start_sem = 1 /\ start_sem' = 0
    /\ UNCHANGED <<tk_data, finish_sem, clock, idx, ticks, calls, history>>

WakeByTimeout ==
    /\ Step("asleep", "clear") /\ start_sem # 1 /\ ticks # Forever
    /\ UNCHANGED <<tk_data, aroundMain>>

\* Fault: the error of the last pass is kept.
KeepErr ==
    /\ Step("clear", "chkMaster") /\ failed' = NoNode
    /\ UNCHANGED <<tk_data, sems, clock, idx, ticks, calls, seen>>

ClearErr ==
    /\ Step("clear", "chkMaster") /\ err' = "NOERR" /\ failed' = NoNode
    /\ UNCHANGED <<sync_mode, master_node, frequency, last_sync,
                   last_failed_node, sems, clock, idx, ticks, calls, seen>>

\* The three operands of && are separate reads of tk_data.
CheckMaster ==
    /\ Step("chkMaster", IF master_node = 0 THEN "chkStop" ELSE "idle")
    /\ UNCHANGED <<tk_data, aroundMain>>

\* Fault: the mode is not compared with STOP.
SkipCheckStop == Step("chkStop", "chkSlave") /\ UNCHANGED <<tk_data, aroundMain>>

CheckStop ==
    /\ Step("chkStop", IF sync_mode # "STOP" THEN "chkSlave" ELSE "idle")
    /\ UNCHANGED <<tk_data, aroundMain>>

CheckSlave ==
    /\ main = "chkSlave"
    /\ IF sync_mode # "SLAVE" THEN main' = "iterate" /\ idx' = 1
                             ELSE main' = "idle" /\ UNCHANGED idx
    /\ UNCHANGED <<tk_data, sems, clock, ticks, calls, history>>

\* timekeeper_csp_iterate keeps the error and goes on with the next address.
RouteFails ==
    /\ err' = "ERR" /\ last_failed_node' = Routes[idx] /\ failed' = Routes[idx]
    /\ idx' = idx + 1 /\ main' = "iterate"
    /\ UNCHANGED <<sync_mode, master_node, frequency, last_sync, sems, clock,
                   ticks, calls, seen>>

\* tk_sync_slaves_req refuses to send to the node itself.
IterateSelf ==
    /\ main = "iterate" /\ idx <= Len(Routes) /\ Routes[idx] = Self
    /\ RouteFails

IterateSend ==
    /\ Step("iterate", "txn") /\ idx <= Len(Routes) /\ Routes[idx] # Self
    /\ UNCHANGED <<tk_data, aroundMain>>

\* csp_transaction returned a response; its ret_val is not looked at.
TxnAnswered ==
    /\ Step("txn", "iterate") /\ idx' = idx + 1
    /\ UNCHANGED <<tk_data, sems, clock, ticks, calls, history>>

\* No response within 1000 ticks, or one that does not parse.
TxnFails == main = "txn" /\ RouteFails

\* Fault: the last address is left out.
IterateEndEarly ==
    /\ Step("iterate", "done") /\ idx >= Len(Routes) /\ idx' = 1
    /\ UNCHANGED <<tk_data, sems, clock, ticks, calls, history>>

IterateEnd ==
    /\ Step("iterate", "done") /\ idx > Len(Routes) /\ idx' = 1
    /\ UNCHANGED <<tk_data, sems, clock, ticks, calls, history>>

\* Fault: a single sync is not turned off when it is done.
DoneForgetsOnce == Step("done", "release") /\ UNCHANGED <<tk_data, aroundMain>>

\* case ST_SYNC_DONE: the mode is read, then written, then waiters are told.
DoneCheck ==
    /\ Step("done", IF sync_mode = "ONCE" THEN "unset" ELSE "release")
    /\ UNCHANGED <<tk_data, aroundMain>>

DoneUnset ==
    /\ Step("unset", "release") /\ sync_mode' = "STOP"
    /\ UNCHANGED <<master_node, frequency, last_sync, err, last_failed_node,
                   aroundMain>>

\* What a callback sees of the end of a pass.
Witness(h) ==
    (seen[h] \ {"mid"}) \cup
        (IF pc[h] \notin {"release", "wait"} THEN {}
         ELSE {"completed"} \cup (IF "mid" \in seen[h] THEN {} ELSE {"whole"}))

DoneRelease ==
    /\ Step("release", "idle") /\ finish_sem' = Released(finish_sem)
    /\ seen' = [h \in Handlers |-> Witness(h)]
    /\ UNCHANGED <<tk_data, start_sem, clock, idx, ticks, calls, failed>>

Pass == IterateSelf \/ IterateSend \/ TxnAnswered \/ TxnFails \/ IterateEnd
            \/ DoneCheck \/ DoneUnset \/ DoneRelease

Main == Sleep \/ WakeByStart \/ WakeByTimeout \/ ClearErr \/ CheckMaster
            \/ CheckStop \/ CheckSlave \/ Pass

-----------------------------------------------------------------------------
(* Packet callbacks: the dispatch and the handlers of server_tk.c.         *)

Goto(h, from, to) == pc[h] = from /\ pc' = [pc EXCEPT ![h] = to]

FirstStep == [SET_TIME |-> "setTime", GET_TIME |-> "getTime",
              SYNC_TIME |-> "frequency", SYNC_SLAVES |-> "slaveClock"]

Requests ==
    {Request("SET_TIME", {}, 0, 0, t) : t \in Times}
    \cup {Request("GET_TIME", {}, 0, 0, 0)}
    \cup {Request("SYNC_TIME", f, n, 0, 0) : f \in FlagSets, n \in Freqs}
    \cup {Request("SYNC_SLAVES", {}, 0, m, t) : m \in Masters, t \in Times}

\* server_process_timekeeper_packet: the response buffer is not initialised.
\* Empty and unknown packets are dropped without a trace.
Receive(h) ==
    /\ ServeDuringBoot \/ main \notin BootSteps
    /\ pc[h] = "idle"
    /\ \E r \in Requests, g \in Garbage :
          /\ req' = [req EXCEPT ![h] = r]
          /\ rsp' = [rsp EXCEPT ![h].last_failed_node = g]
          /\ pc'  = [pc  EXCEPT ![h] = FirstStep[r.cmd]]
          /\ seen' = [seen EXCEPT ![h] =
                         IF main \in PassSteps /\ "WAIT" \in r.flags THEN {"mid"} ELSE {}]
    /\ UNCHANGED <<tk_data, sems, clock, service, failed>>

\* csp_pld_txn sends the response; the callback is free again.
Reply(h) ==
    /\ Goto(h, "reply", "idle")
    /\ req' = [req EXCEPT ![h] = NoReq]
    /\ rsp' = [rsp EXCEPT ![h] = NoRsp]
    /\ seen' = [seen EXCEPT ![h] = {}]
    /\ UNCHANGED <<tk_data, sems, clock, service, failed>>

\* tk_app_set_time, for tk_set_time and for tk_sync_slaves: the CSP clock may
\* refuse, and the master's request goes on all the same.
SetClock(h, from, to) ==
    /\ Goto(h, from, to)
    /\ \/ clock' = ToTime(req[h].time) /\ rsp' = [rsp EXCEPT ![h].ret_val = 0]
       \/ clock' = clock               /\ rsp' = [rsp EXCEPT ![h].ret_val = 1]
    /\ UNCHANGED <<tk_data, sems, service, req, history>>

SetTime(h) == SetClock(h, "setTime", "reply")

GetTime(h) ==
    /\ Goto(h, "getTime", "reply")
    /\ rsp' = [rsp EXCEPT ![h].time = clock]
    /\ UNCHANGED <<tk_data, sems, clock, service, req, history>>

-----------------------------------------------------------------------------
(* tk_sync_slaves: a master sent its time.                                 *)

SlaveClock(h) == SetClock(h, "slaveClock", "slaveMaster")

\* Fault: tk_app_make_slave writes the mode first and the master last.
MakeSlaveModeFirst(h) ==
    /\ \/ Goto(h, "slaveMaster", "slaveSync") /\ sync_mode' = "SLAVE"
            /\ UNCHANGED <<master_node, last_sync>>
       \/ Goto(h, "slaveSync", "slaveMode") /\ last_sync' = clock
            /\ UNCHANGED <<sync_mode, master_node>>
       \/ Goto(h, "slaveMode", "reply") /\ master_node' = req[h].node
            /\ UNCHANGED <<sync_mode, last_sync>>
    /\ UNCHANGED <<frequency, err, last_failed_node, aroundCall>>

\* tk_app_make_slave
MakeSlave(h) ==
    /\ \/ Goto(h, "slaveMaster", "slaveSync") /\ master_node' = req[h].node
            /\ UNCHANGED <<sync_mode, last_sync>>
       \/ Goto(h, "slaveSync", "slaveMode") /\ last_sync' = clock
            /\ UNCHANGED <<sync_mode, master_node>>
       \/ Goto(h, "slaveMode", "reply") /\ sync_mode' = "SLAVE"
            /\ UNCHANGED <<master_node, last_sync>>
    /\ UNCHANGED <<frequency, err, last_failed_node, aroundCall>>

-----------------------------------------------------------------------------
(* tk_app_sync_time: a command of the operator.                            *)

StatusOnly(flags) == "STATUS" \in flags /\ flags \cap {"STOP", "START", "ONCE"} = {}

\* Fault: "no frequency" (-1) is stored like any other.
SetAnyFrequency(h) ==
    /\ Goto(h, "frequency", IF StatusOnly(req[h].flags) THEN "readError" ELSE "stop")
    /\ frequency' = ToTicks(ToLong(req[h].frequency))
    /\ UNCHANGED <<sync_mode, master_node, last_sync, err, last_failed_node,
                   aroundCall>>

SetFrequency(h) ==
    LET f == ToLong(req[h].frequency)
    IN  /\ Goto(h, "frequency", IF StatusOnly(req[h].flags) THEN "readError" ELSE "stop")
        /\ frequency' = IF f > 0 THEN f ELSE frequency
        /\ UNCHANGED <<sync_mode, master_node, last_sync, err, last_failed_node,
                       aroundCall>>

\* if (flags & flag) sync_mode = mode, for STOP, then START, then ONCE.
SetModes(h) ==
    /\ \E s \in {<<"stop",  "start",  "STOP",  "STOP">>,
                 <<"start", "once",   "START", "CONTINUOUS">>,
                 <<"once",  "master", "ONCE",  "ONCE">>} :
          /\ Goto(h, s[1], s[2])
          /\ sync_mode' = IF s[3] \in req[h].flags THEN s[4] ELSE sync_mode
    /\ UNCHANGED <<master_node, frequency, last_sync, err, last_failed_node,
                   aroundCall>>

BecomeMaster(h) ==
    /\ Goto(h, "master", "drain") /\ master_node' = 0
    /\ UNCHANGED <<sync_mode, frequency, last_sync, err, last_failed_node,
                   aroundCall>>

\* while (osSemaphoreAcquire(tk_wait_finish_sem, 0) == osOK)
DrainToken(h) ==
    /\ Goto(h, "drain", "drain") /\ finish_sem = 1 /\ finish_sem' = 0
    /\ UNCHANGED <<tk_data, start_sem, clock, service, req, rsp, history>>

\* Fault: tk_wait_finish_sem is not drained.
NoDrain(h) ==
    /\ Goto(h, "drain", "release")
    /\ seen' = [seen EXCEPT ![h] = @ \cap {"mid"}]
    /\ UNCHANGED <<tk_data, sems, clock, service, req, rsp, failed>>

DrainEmpty(h) ==
    /\ Goto(h, "drain", "release") /\ finish_sem # 1
    /\ seen' = [seen EXCEPT ![h] = @ \cap {"mid"}]
    /\ UNCHANGED <<tk_data, sems, clock, service, req, rsp, failed>>

ReleaseStart(h) ==
    /\ Goto(h, "release", IF "WAIT" \in req[h].flags THEN "wait" ELSE "stamp")
    /\ start_sem' = Released(start_sem)
    /\ UNCHANGED <<tk_data, finish_sem, clock, service, req, rsp, history>>

WaitToken(h) ==
    /\ Goto(h, "wait", "stamp")
    /\ finish_sem = 1 /\ finish_sem' = 0
    /\ seen' = [seen EXCEPT ![h] = @ \cup {"token"}]
    /\ UNCHANGED <<tk_data, start_sem, clock, service, req, rsp, failed>>

\* MAX_SYNC_DONE_WAIT went by, or there is no semaphore to wait on.
WaitTimeout(h) ==
    /\ Goto(h, "wait", "stamp") /\ finish_sem # 1
    /\ UNCHANGED <<tk_data, aroundCall>>

Stamp(h) ==
    /\ Goto(h, "stamp", "readError") /\ last_sync' = clock
    /\ UNCHANGED <<sync_mode, master_node, frequency, err, last_failed_node,
                   aroundCall>>

\* The response is filled from tk_data field by field, last_failed_node never.
ReadStatus(h) ==
    /\ \/ Goto(h, "readError", "readSync")
            /\ rsp' = [rsp EXCEPT ![h].error = err]
       \/ Goto(h, "readSync", "readMaster")
            /\ rsp' = [rsp EXCEPT ![h].last_sync = last_sync]
       \/ Goto(h, "readMaster", "readMode")
            /\ rsp' = [rsp EXCEPT ![h].master_node = master_node]
       \/ Goto(h, "readMode", "reply")
            /\ rsp' = [rsp EXCEPT ![h].mode = sync_mode]
    /\ UNCHANGED <<tk_data, sems, clock, service, req, history>>

\* Fault: the wait has no timeout.
WaitForever(h) == WaitToken(h)

Wait(h) == WaitToken(h) \/ WaitTimeout(h)

Call(h) ==
    \/ SetTime(h) \/ GetTime(h) \/ SlaveClock(h) \/ MakeSlave(h)
    \/ SetFrequency(h) \/ SetModes(h) \/ BecomeMaster(h)
    \/ DrainToken(h) \/ DrainEmpty(h) \/ ReleaseStart(h) \/ Wait(h)
    \/ Stamp(h) \/ ReadStatus(h) \/ Reply(h)

-----------------------------------------------------------------------------
(* The whole node.                                                         *)

Tick == clock' = (clock + 1) % TimeMod
          /\ UNCHANGED <<tk_data, sems, service, calls, history>>

\* Static storage: the struct is zero and the handles are NULL.
Init ==
    /\ sync_mode = "STOP" /\ master_node = 0 /\ frequency = 0 /\ last_sync = 0
    /\ err = "NOERR" /\ last_failed_node = 0
    /\ start_sem = NoSem /\ finish_sem = NoSem /\ clock = 0
    /\ main = "boot" /\ idx = 1 /\ ticks = 0
    /\ pc = [h \in Handlers |-> "idle"]
    /\ req = [h \in Handlers |-> NoReq]
    /\ rsp = [h \in Handlers |-> NoRsp]
    /\ seen = [h \in Handlers |-> {}]
    /\ failed = NoNode

Next == Boot \/ Main \/ (\E h \in Handlers : Receive(h) \/ Call(h)) \/ Tick

\* Every thread is scheduled, a timeout ends, a CSP transaction returns.  The
\* drain is a loop that a finishing pass can prolong by one token; a pass needs
\* a token of tk_start_sem or a tick of the timer, so the loop sees it empty.
Fairness ==
    /\ WF_vars(Boot \/ Main)
    /\ \A h \in Handlers : WF_vars(Call(h)) /\ SF_vars(DrainEmpty(h))

Spec == Init /\ [][Next]_vars /\ Fairness

-----------------------------------------------------------------------------
(* Properties.                                                             *)

Responses ==
    [error : Errs, last_sync : 0 .. TimeMod - 1, master_node : Addr, mode : Modes,
     last_failed_node : Garbage \cup {0}, ret_val : {0, 1}, time : 0 .. TimeMod - 1]

\* Every variable keeps to the values its C type and the control flow allow.
TypeOK ==
    /\ sync_mode \in Modes /\ master_node \in Addr
    /\ frequency \in 0 .. TickMod - 2
    /\ last_sync \in 0 .. TimeMod - 1 /\ clock \in 0 .. TimeMod - 1
    /\ err \in Errs /\ last_failed_node \in Addr
    /\ start_sem \in {NoSem, 0, 1} /\ finish_sem \in {NoSem, 0, 1}
    /\ main \in MainSteps /\ idx \in 1 .. Len(Routes) + 1
    /\ (main = "txn" => idx <= Len(Routes))
    /\ ticks \in 0 .. TickMod - 1
    /\ pc \in [Handlers -> CallSteps]
    /\ req \in [Handlers -> Requests \cup {NoReq}]
    /\ rsp \in [Handlers -> Responses]
    /\ seen \in [Handlers -> SUBSET {"mid", "completed", "whole", "token"}]
    /\ failed \in Addr \cup {NoNode}

\* A waiting request that is answered before its timeout was answered by a pass
\* that finished after the request drained tk_wait_finish_sem: a token left by
\* an earlier pass is never taken for the answer.
WaiterSeesCompletion ==
    \A h \in Handlers : "token" \in seen[h] => "completed" \in seen[h]

\* While waiters are being told of a pass, tk_data.err says whether an address
\* of the routing table failed in this very pass, and last_failed_node which.
PassErrorAccurate ==
    main \in {"done", "unset", "release"} =>
        /\ err = "ERR" <=> failed # NoNode
        /\ failed # NoNode => last_failed_node = failed

\* A node that is told to sync the others is its own master, except inside the
\* callback that is changing its role: otherwise the service thread would see
\* the mode, refuse for the master, and never send anything.
ActiveIsMaster ==
    sync_mode \in {"ONCE", "CONTINUOUS"} /\ master_node # 0 =>
        \E h \in Handlers :
            pc[h] \in {"start", "once", "master", "slaveSync", "slaveMode"}

\* The period a command sets never makes the service thread sleep for ever
\* (osWaitForever) nor spin (a timeout of 0).
SleepIsBounded == main = "asleep" => ticks \in 1 .. Forever - 1

\* Every request is answered, whatever the service thread is doing, and also
\* when the semaphores could not be created.
RequestAnswered == \A h \in Handlers : pc[h] # "idle" ~> pc[h] = "idle"

Dead == main = "dead"

\* A node left in continuous mode starts pass after pass.
ContinuousKeepsSyncing ==
    <>[](sync_mode = "CONTINUOUS" /\ ~Dead) => []<>(main = "iterate")

\* A single sync does not stay pending.
OnceEnds == sync_mode = "ONCE" ~> sync_mode # "ONCE" \/ Dead

\* A node that stays stopped, or stays a slave, comes to rest.
RestingGoesQuiet ==
    \A m \in {"STOP", "SLAVE"} :
        <>[](sync_mode = m) => <>[](main \notin PassSteps)

\* Who waits for a pass, from the drain of tk_wait_finish_sem to the wait's end.
Waiting == {h \in Handlers : pc[h] \in {"release", "wait"} /\ "WAIT" \in req[h].flags}

\* What the threads of the node bring about together.  A pass ends for those who
\* wait when tk_wait_finish_sem is released.
Promise == INSTANCE SyncService WITH
    Callers <- Handlers,
    Route   <- Routes,
    phase   <- CASE main = "txn"                -> "talking"
                 [] main \in PassSteps \ {"txn"} -> "walking"
                 [] main = "dead"               -> "dead"
                 [] OTHER                       -> "resting",
    at      <- IF main \in {"iterate", "txn"} THEN idx - 1
               ELSE IF main \in PassSteps THEN Len(Routes) ELSE 0,
    report  <- err,
    waiting <- Waiting,
    ended   <- finish_sem = 1,
    since   <- {h \in Waiting : "completed" \in seen[h]}

\* Whatever the steps of the service thread and of the callbacks fall between, a
\* pass goes to each address once and reports the failures, and every end of a
\* pass answers one callback that has been waiting for it.
KeepsPromise == Promise!Spec

-----------------------------------------------------------------------------
(* What the client promises for a command; the code does not keep these.   *)

\* "Wait for the operation to complete.": the pass a waiting request is
\* answered by is one that began after the request came in.
WaiterSeesWholePass ==
    \A h \in Handlers : "token" \in seen[h] => "whole" \in seen[h]

\* "Start continuous time syncing on node.": only a command ends it.
OnlyCommandEndsContinuous ==
    [][sync_mode = "CONTINUOUS" /\ sync_mode' = "STOP" =>
          \E h \in Handlers : pc[h] = "stop"]_vars
=============================================================================
