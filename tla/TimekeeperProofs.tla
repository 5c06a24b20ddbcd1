-------------------------- MODULE TimekeeperProofs --------------------------
(***************************************************************************)
(* Theorems about Timekeeper, for any number of packet callbacks, any      *)
(* routing table and any widths of the integers.                           *)
(***************************************************************************)
EXTENDS Timekeeper, TLAPS

\* Frames and program counters are always expanded.
USE DEF aroundMain, aroundCall, Step, Goto

(* Lemmas about the conversions and the requests.                          *)

\* The remainder of a division is below the divisor.
LEMMA ModRange ==
    ASSUME NEW x \in Int, NEW n \in Nat \ {0}
    PROVE  x % n \in 0 .. n - 1
  OBVIOUS

\* A number below the divisor is its own remainder.
LEMMA ModSmall ==
    ASSUME NEW n \in Nat \ {0}, NEW x \in 0 .. n - 1
    PROVE  x % n = x
  OBVIOUS

\* A positive long is a proper timeout: neither 0 nor osWaitForever.
LEMMA LongIsProper ==
    ASSUME NEW f \in Int, ToLong(f) > 0
    PROVE  ToLong(f) \in 1 .. TickMod - 2
  <1> DEFINE w == f % LongMod
  <1>1. w \in 0 .. LongMod - 1
    BY ModRange, WidthAssumption
  <1>2. ~(2 * w >= LongMod)
    BY <1>1, WidthAssumption DEF ToLong
  <1>3. ToLong(f) = w
    BY <1>2 DEF ToLong
  <1> HIDE DEF w
  <1> QED
    BY <1>1, <1>2, <1>3, WidthAssumption

\* What a callback may rely on in the request it serves.
LEMMA RequestFields ==
    ASSUME NEW r \in Requests \cup {NoReq}
    PROVE  r.time \in Nat /\ r.frequency \in Int /\ r.node \in Addr
  <1>1. CASE r \in {Request("SET_TIME", {}, 0, 0, t) : t \in Times}
    BY <1>1, AddrAssumption, InputAssumption DEF Request
  <1>2. CASE r \in {Request("SYNC_TIME", f, n, 0, 0) : f \in FlagSets, n \in Freqs}
    BY <1>2, AddrAssumption, InputAssumption DEF Request
  <1>3. CASE r \in {Request("SYNC_SLAVES", {}, 0, m, t) : m \in Masters, t \in Times}
    BY <1>3, AddrAssumption, InputAssumption DEF Request
  <1>4. CASE r \in {Request("GET_TIME", {}, 0, 0, 0), NoReq}
    BY <1>4, AddrAssumption DEF Request, NoReq
  <1> QED
    BY <1>1, <1>2, <1>3, <1>4 DEF Requests

\* Every request has a handler.
LEMMA FirstStepIsStep ==
    ASSUME NEW r \in Requests
    PROVE  FirstStep[r.cmd] \in CallSteps
  BY DEF Requests, Request, FirstStep, CallSteps

\* A response stays one when a field is filled in.
LEMMA ResponseFields ==
    ASSUME NEW r \in Responses
    PROVE  /\ \A x \in Errs : [r EXCEPT !.error = x] \in Responses
           /\ \A x \in 0 .. TimeMod - 1 : /\ [r EXCEPT !.last_sync = x] \in Responses
                                        /\ [r EXCEPT !.time = x] \in Responses
           /\ \A x \in Addr : [r EXCEPT !.master_node = x] \in Responses
           /\ \A x \in Modes : [r EXCEPT !.mode = x] \in Responses
           /\ \A x \in Garbage : [r EXCEPT !.last_failed_node = x] \in Responses
           /\ \A x \in {0, 1} : [r EXCEPT !.ret_val = x] \in Responses
  BY DEF Responses

-----------------------------------------------------------------------------
(* Type correctness.                                                       *)

\* The variables are typed in every step of the service thread.
LEMMA TypeMain ==
    ASSUME TypeOK, Boot \/ Main
    PROVE  TypeOK'
  <1> USE DEF TypeOK, tk_data, sems, calls, history, service, MainSteps, BootSteps,
              PassSteps, Errs, Modes, NoSem, NoNode
  <1>1. CASE InitFields1
    BY <1>1, WidthAssumption DEF InitFields1
  <1>2. CASE InitFields2
    BY <1>2, WidthAssumption, AddrAssumption DEF InitFields2
  <1>3. CASE NewStartSem
    BY <1>3 DEF NewStartSem
  <1>4. CASE NewFinishSem
    BY <1>4 DEF NewFinishSem
  <1>5. CASE StartMain
    BY <1>5 DEF StartMain
  <1>6. CASE InitFails
    BY <1>6 DEF InitFails
  <1>7. CASE Sleep
    <2>1. frequency \in Int /\ TickMod \in Nat \ {0}
      BY WidthAssumption
    <2>2. ToTicks(frequency) \in 0 .. TickMod - 1
      BY <2>1, ModRange DEF ToTicks
    <2> QED
      BY <1>7, <2>2 DEF Sleep
  <1>8. CASE WakeByStart
    BY <1>8 DEF WakeByStart
  <1>9. CASE WakeByTimeout
    BY <1>9 DEF WakeByTimeout
  <1>10. CASE ClearErr
    BY <1>10 DEF ClearErr
  <1>11. CASE CheckMaster
    BY <1>11 DEF CheckMaster
  <1>12. CASE CheckStop
    BY <1>12 DEF CheckStop
  <1>13. CASE CheckSlave
    <2>1. idx' \in 1 .. Len(Routes) + 1 /\ main' \in MainSteps /\ main' # "txn"
      BY <1>13, RoutesAssumption DEF CheckSlave
    <2> QED
      BY <1>13, <2>1 DEF CheckSlave
  <1>14. ASSUME RouteFails, idx \in 1 .. Len(Routes)
         PROVE  TypeOK'
    <2>1. Routes[idx] \in Addr
      BY <1>14, RoutesAssumption
    <2> QED
      BY <1>14, <2>1, RoutesAssumption DEF RouteFails
  <1>15. CASE IterateSelf
    BY <1>14, <1>15, RoutesAssumption, SMTT(30) DEF IterateSelf
  <1>16. CASE IterateSend
    BY <1>16 DEF IterateSend
  <1>17. CASE TxnAnswered
    BY <1>17, RoutesAssumption DEF TxnAnswered
  <1>18. CASE TxnFails
    BY <1>14, <1>18, RoutesAssumption DEF TxnFails
  <1>19. CASE IterateEnd
    BY <1>19, RoutesAssumption DEF IterateEnd
  <1>20. CASE DoneCheck
    BY <1>20 DEF DoneCheck
  <1>21. CASE DoneUnset
    BY <1>21 DEF DoneUnset
  <1>22. CASE DoneRelease
    BY <1>22 DEF DoneRelease, Released, Witness
  <1> QED
    BY <1>1, <1>2, <1>3, <1>4, <1>5, <1>6, <1>7, <1>8, <1>9, <1>10, <1>11, <1>12,
       <1>13, <1>15, <1>16, <1>17, <1>18, <1>19, <1>20, <1>21, <1>22
    DEF Boot, Main, Pass

\* The variables are typed in every step of a packet callback.
LEMMA TypeCall ==
    ASSUME TypeOK, NEW h \in Handlers, Receive(h) \/ Call(h)
    PROVE  TypeOK'
  <1> USE DEF TypeOK, tk_data, sems, calls, history, service, Errs, Modes, NoSem,
              NoNode, CallSteps
  <1>1. /\ req[h].time \in Nat /\ req[h].frequency \in Int /\ req[h].node \in Addr
    BY RequestFields
  <1>2. CASE Receive(h)
    <2>1. PICK r \in Requests, g \in Garbage :
              /\ req' = [req EXCEPT ![h] = r]
              /\ rsp' = [rsp EXCEPT ![h].last_failed_node = g]
              /\ pc'  = [pc  EXCEPT ![h] = FirstStep[r.cmd]]
      BY <1>2 DEF Receive
    <2>2. FirstStep[r.cmd] \in CallSteps
      BY FirstStepIsStep
    <2>3. rsp' \in [Handlers -> Responses]
      BY <2>1, ResponseFields
    <2>4. pc' \in [Handlers -> CallSteps]
      <3> HIDE DEF CallSteps
      <3> QED BY <2>1, <2>2
    <2>5. req' \in [Handlers -> Requests \cup {NoReq}]
      BY <2>1
    <2> QED
      BY <1>2, <2>3, <2>4, <2>5 DEF Receive
  <1>3. CASE Reply(h)
    BY <1>3, AddrAssumption, WidthAssumption DEF Reply, NoRsp, Responses
  <1>4. ASSUME NEW from \in CallSteps, NEW to \in CallSteps, SetClock(h, from, to)
        PROVE  TypeOK'
    <2>1. req[h].time \in Int /\ TimeMod \in Nat \ {0}
      BY <1>1, WidthAssumption
    <2>2. ToTime(req[h].time) \in 0 .. TimeMod - 1
      BY <2>1, ModRange DEF ToTime
    <2>3. clock' \in 0 .. TimeMod - 1
      BY <1>4, <2>2 DEF SetClock
    <2>4. rsp' \in [Handlers -> Responses]
      <3>1. /\ [rsp[h] EXCEPT !.ret_val = 0] \in Responses
            /\ [rsp[h] EXCEPT !.ret_val = 1] \in Responses
        BY ResponseFields
      <3> QED
        BY <1>4, <3>1 DEF SetClock
    <2> QED
      BY <1>4, <2>3, <2>4 DEF SetClock
  <1>5. CASE SetTime(h) \/ SlaveClock(h)
    BY <1>4, <1>5 DEF SetTime, SlaveClock
  <1>6. CASE GetTime(h)
    <2>1. rsp' \in [Handlers -> Responses]
      BY <1>6, ResponseFields DEF GetTime
    <2> QED
      BY <1>6, <2>1 DEF GetTime
  <1>7. CASE MakeSlave(h)
    BY <1>1, <1>7 DEF MakeSlave
  <1>8. CASE SetFrequency(h)
    <2>1. ToLong(req[h].frequency) > 0 =>
              ToLong(req[h].frequency) \in 0 .. TickMod - 2
      BY <1>1, LongIsProper
    <2>2. frequency' \in 0 .. TickMod - 2
      BY <1>8, <2>1 DEF SetFrequency
    <2> QED
      BY <1>8, <2>2 DEF SetFrequency
  <1>9. CASE SetModes(h)
    BY <1>9 DEF SetModes
  <1>10. CASE BecomeMaster(h)
    BY <1>10, AddrAssumption DEF BecomeMaster
  <1>11. CASE DrainToken(h) \/ DrainEmpty(h)
    BY <1>11, SMTT(30) DEF DrainToken, DrainEmpty
  <1>12. CASE ReleaseStart(h)
    BY <1>12 DEF ReleaseStart, Released
  <1>13. CASE Wait(h)
    <2>1. CASE WaitToken(h)
      <3>1. seen' \in [Handlers -> SUBSET {"mid", "completed", "whole", "token"}]
        BY <2>1 DEF WaitToken
      <3> QED
        BY <2>1, <3>1 DEF WaitToken
    <2>2. CASE WaitTimeout(h)
      BY <2>2 DEF WaitTimeout
    <2> QED
      BY <1>13, <2>1, <2>2 DEF Wait
  <1>14. CASE Stamp(h)
    BY <1>14 DEF Stamp
  <1>15. CASE ReadStatus(h)
    <2>1. rsp' \in [Handlers -> Responses]
      <3>1. /\ [rsp[h] EXCEPT !.error = err] \in Responses
            /\ [rsp[h] EXCEPT !.last_sync = last_sync] \in Responses
            /\ [rsp[h] EXCEPT !.master_node = master_node] \in Responses
            /\ [rsp[h] EXCEPT !.mode = sync_mode] \in Responses
        BY ResponseFields
      <3> QED
        BY <1>15, <3>1 DEF ReadStatus
    <2>2. pc' \in [Handlers -> CallSteps]
      BY <1>15 DEF ReadStatus
    <2> QED
      BY <1>15, <2>1, <2>2 DEF ReadStatus
  <1> QED
    BY <1>2, <1>3, <1>5, <1>6, <1>7, <1>8, <1>9, <1>10, <1>11, <1>12, <1>13,
       <1>14, <1>15
    DEF Call

LEMMA TypeTick ==
    ASSUME TypeOK, Tick
    PROVE  TypeOK'
  <1>1. clock + 1 \in Int /\ TimeMod \in Nat \ {0}
    BY WidthAssumption DEF TypeOK
  <1>2. (clock + 1) % TimeMod \in 0 .. TimeMod - 1
    BY <1>1, ModRange
  <1> QED
    BY <1>2 DEF TypeOK, Tick, tk_data, sems, calls, history, service

LEMMA TypeInit == Init => TypeOK
  BY AddrAssumption, RoutesAssumption, WidthAssumption, InputAssumption
  DEF Init, TypeOK, MainSteps, BootSteps, PassSteps, CallSteps, Errs, Modes, NoSem,
      NoNode, NoRsp, Responses

LEMMA TypeNext == TypeOK /\ [Next]_vars => TypeOK'
  <1>1. ASSUME TypeOK, UNCHANGED vars
        PROVE  TypeOK'
    BY <1>1 DEF TypeOK, vars, tk_data, sems, calls, history, service
  <1> QED
    BY <1>1, TypeMain, TypeCall, TypeTick DEF Next

\* Type correctness: every variable keeps to its type in every behaviour of the
\* node, with any number of callbacks.
THEOREM TypeCorrect == Spec => []TypeOK
  BY TypeInit, TypeNext, PTL DEF Spec

-----------------------------------------------------------------------------
(* What the steps leave alone.                                             *)

\* The service thread does not move the callbacks, and it touches neither
\* master_node after its start nor the mode, but to stop.
LEMMA MainFrame ==
    ASSUME Boot \/ Main
    PROVE  /\ UNCHANGED calls
           /\ master_node' = master_node \/ master_node' = 0
           /\ sync_mode' = sync_mode \/ sync_mode' = "STOP"
           /\ main # "boot" => UNCHANGED frequency
           /\ main' # "boot"
           /\ main' = "asleep" => Sleep
  <1> USE DEF tk_data, sems, calls, history, service
  <1>1. CASE Boot
    BY <1>1 DEF Boot, InitFields1, InitFields2, NewStartSem, NewFinishSem, StartMain,
                InitFails
  <1>2. CASE Pass
    BY <1>2 DEF Pass, IterateSelf, IterateSend, TxnAnswered, TxnFails, RouteFails,
                IterateEnd, DoneCheck, DoneUnset, DoneRelease
  <1>3. CASE Main /\ ~Pass
    BY <1>3 DEF Main, Sleep, WakeByStart, WakeByTimeout, ClearErr, CheckMaster,
                CheckStop, CheckSlave
  <1> QED
    BY <1>1, <1>2, <1>3

\* A callback does not move the service thread nor the record of its pass.
LEMMA CallFrame ==
    ASSUME NEW h \in Handlers, Receive(h) \/ Call(h)
    PROVE  UNCHANGED <<main, idx, ticks, err, last_failed_node, failed>>
  <1> USE DEF tk_data, sems, calls, history, service
  <1>1. CASE Receive(h)
    BY <1>1 DEF Receive
  <1>2. CASE SetTime(h) \/ GetTime(h) \/ SlaveClock(h) \/ MakeSlave(h)
    BY <1>2 DEF SetTime, GetTime, SlaveClock, SetClock, MakeSlave
  <1>3. CASE SetFrequency(h) \/ SetModes(h) \/ BecomeMaster(h)
    BY <1>3 DEF SetFrequency, SetModes, BecomeMaster
  <1>4. CASE DrainToken(h) \/ DrainEmpty(h) \/ ReleaseStart(h) \/ Wait(h)
    BY <1>4 DEF DrainToken, DrainEmpty, ReleaseStart, Wait, WaitToken, WaitTimeout
  <1>5. CASE Stamp(h) \/ ReadStatus(h) \/ Reply(h)
    BY <1>5 DEF Stamp, ReadStatus, Reply
  <1> QED
    BY <1>1, <1>2, <1>3, <1>4, <1>5 DEF Call

-----------------------------------------------------------------------------
(* The period: the thread never sleeps for ever and never spins.           *)

\* Inductive: from the first step of timekeeper_init on, tk_data.frequency is
\* itself a proper timeout.
SleepInv ==
    /\ main # "boot" => frequency \in 1 .. TickMod - 2
    /\ SleepIsBounded

LEMMA SleepStep == TypeOK /\ SleepInv /\ [Next]_vars => SleepInv'
  <1> SUFFICES ASSUME TypeOK, SleepInv, [Next]_vars
               PROVE  SleepInv'
    OBVIOUS
  <1> USE DEF SleepInv, SleepIsBounded, Forever
  <1>1. CASE Boot \/ Main
    <2>1. CASE main = "boot"
      BY <1>1, <2>1, WidthAssumption
      DEF Boot, InitFields1, InitFields2, NewStartSem, NewFinishSem, StartMain,
          InitFails, Main, Sleep, WakeByStart, WakeByTimeout, ClearErr, CheckMaster,
          CheckStop, CheckSlave, Pass, IterateSelf, IterateSend, TxnAnswered,
          TxnFails, RouteFails, IterateEnd, DoneCheck, DoneUnset, DoneRelease
    <2>2. CASE Sleep
      <3>1. TickMod \in Nat \ {0} /\ frequency \in 0 .. TickMod - 1
        BY WidthAssumption DEF TypeOK
      <3>2. ToTicks(frequency) = frequency
        BY <3>1, ModSmall DEF ToTicks
      <3> QED
        BY <2>2, <3>1, <3>2 DEF Sleep, tk_data
    <2>3. CASE main # "boot" /\ ~Sleep
      BY <1>1, <2>3, MainFrame
    <2> QED
      BY <2>1, <2>2, <2>3
  <1>2. ASSUME NEW h \in Handlers, Receive(h) \/ Call(h)
        PROVE  SleepInv'
    <2>1. CASE SetFrequency(h)
      <3>1. req[h].frequency \in Int
        BY RequestFields DEF TypeOK
      <3>2. ToLong(req[h].frequency) > 0 =>
                ToLong(req[h].frequency) \in 1 .. TickMod - 2
        BY <3>1, LongIsProper
      <3> QED
        BY <2>1, <3>2 DEF SetFrequency, service
    <2>2. CASE ~SetFrequency(h)
      <3>1. UNCHANGED frequency
        BY <1>2, <2>2
        DEF Receive, Call, SetTime, GetTime, SlaveClock, SetClock, MakeSlave, SetModes, BecomeMaster,
            DrainToken, DrainEmpty, ReleaseStart, Wait, WaitToken, WaitTimeout,
            Stamp, ReadStatus, Reply, tk_data
      <3> QED
        BY <1>2, <3>1, CallFrame
    <2> QED
      BY <2>1, <2>2
  <1>3. CASE Tick \/ UNCHANGED vars
    BY <1>3 DEF Tick, vars, tk_data, service
  <1> QED
    BY <1>1, <1>2, <1>3 DEF Next

\* Whatever frequency a client sends, the service thread sleeps with a timeout
\* that is neither 0 nor osWaitForever, as long as a long is no wider than the
\* tick counter.
THEOREM SleepBounded == Spec => []SleepIsBounded
  <1>1. Init => SleepInv
    BY DEF Init, SleepInv, SleepIsBounded
  <1>2. SleepInv => SleepIsBounded
    BY DEF SleepInv
  <1> QED
    BY <1>1, <1>2, SleepStep, TypeCorrect, PTL DEF Spec

-----------------------------------------------------------------------------
(* The role: a node told to sync is its own master.                        *)

\* ActiveIsMaster is inductive: the only callbacks between whose two writes it
\* can fail are those it names.
LEMMA ActiveStep == TypeOK /\ ActiveIsMaster /\ [Next]_vars => ActiveIsMaster'
  <1> SUFFICES ASSUME TypeOK, ActiveIsMaster, [Next]_vars
               PROVE  ActiveIsMaster'
    OBVIOUS
  <1> USE DEF ActiveIsMaster
  <1>1. CASE Boot \/ Main
    BY <1>1, MainFrame DEF calls
  <1>2. CASE Tick \/ UNCHANGED vars
    BY <1>2 DEF Tick, vars, tk_data, calls
  <1>3. ASSUME NEW h \in Handlers, Receive(h) \/ Call(h)
        PROVE  ActiveIsMaster'
    <2> DEFINE Changing == {"start", "once", "master", "slaveSync", "slaveMode"}
    <2> USE DEF TypeOK, tk_data
    <2>1. CASE MakeSlave(h)
      BY <1>3, <2>1 DEF MakeSlave
    <2>2. CASE SetModes(h)
      BY <1>3, <2>2 DEF SetModes
    <2>3. CASE BecomeMaster(h)
      BY <1>3, <2>3 DEF BecomeMaster
    <2>4. CASE ~MakeSlave(h) /\ ~SetModes(h) /\ ~BecomeMaster(h)
      <3>1. UNCHANGED <<sync_mode, master_node>>
        BY <1>3, <2>4
        DEF Receive, Call, SetTime, GetTime, SlaveClock, SetClock, SetFrequency,
            DrainToken, DrainEmpty, ReleaseStart, Wait, WaitToken, WaitTimeout,
            Stamp, ReadStatus, Reply
      <3>2. pc[h] \notin Changing /\ \A k \in Handlers \ {h} : pc'[k] = pc[k]
        BY <1>3, <2>4
        DEF Receive, Call, SetTime, GetTime, SlaveClock, SetClock, SetFrequency,
            DrainToken, DrainEmpty, ReleaseStart, Wait, WaitToken, WaitTimeout,
            Stamp, ReadStatus, Reply
      <3> QED
        BY <3>1, <3>2
    <2> QED
      BY <2>1, <2>2, <2>3, <2>4
  <1> QED
    BY <1>1, <1>2, <1>3 DEF Next

\* Whatever the callbacks do at once, a node left in a syncing mode has no
\* master that would keep its service thread from syncing.
THEOREM ActiveMastersItself == Spec => []ActiveIsMaster
  <1>1. Init => ActiveIsMaster
    BY DEF Init, ActiveIsMaster
  <1> QED
    BY <1>1, ActiveStep, TypeCorrect, PTL DEF Spec

-----------------------------------------------------------------------------
(* The error of a pass.                                                    *)

\* Inductive: the record is clean between the wake and the pass and accurate
\* from its first address to the token for the waiters.
ErrInv ==
    /\ main \in {"chkMaster", "chkStop", "chkSlave"} =>
           err = "NOERR" /\ failed = NoNode
    /\ main \in PassSteps =>
           /\ err = "ERR" <=> failed # NoNode
           /\ failed # NoNode => last_failed_node = failed

LEMMA ErrStep == TypeOK /\ ErrInv /\ [Next]_vars => ErrInv'
  <1> SUFFICES ASSUME TypeOK, ErrInv, [Next]_vars
               PROVE  ErrInv'
    OBVIOUS
  <1> USE DEF ErrInv, PassSteps, tk_data, history
  <1>1. CASE Boot
    BY <1>1 DEF Boot, InitFields1, InitFields2, NewStartSem, NewFinishSem, StartMain,
                InitFails
  <1>2. CASE IterateSelf \/ TxnFails
    <2>1. Routes[idx] \in Nat
      <3>1. Len(Routes) \in Nat /\ idx \in 1 .. Len(Routes) + 1
        BY RoutesAssumption DEF TypeOK
      <3>2. idx <= Len(Routes)
        BY <1>2 DEF TypeOK, IterateSelf, TxnFails
      <3>3. idx \in 1 .. Len(Routes)
        BY <3>1, <3>2
      <3>4. Routes[idx] \in Addr
        BY <3>3, RoutesAssumption
      <3> QED
        BY <3>4, AddrAssumption
    <2> QED
      BY <1>2, <2>1 DEF IterateSelf, TxnFails, RouteFails, NoNode
  <1>3. CASE Main /\ ~IterateSelf /\ ~TxnFails
    BY <1>3 DEF Main, Sleep, WakeByStart, WakeByTimeout, ClearErr, CheckMaster,
                CheckStop, CheckSlave, Pass, IterateSend, TxnAnswered, IterateEnd,
                DoneCheck, DoneUnset, DoneRelease
  <1>4. ASSUME NEW h \in Handlers, Receive(h) \/ Call(h)
        PROVE  ErrInv'
    BY <1>4, CallFrame
  <1>5. CASE Tick \/ UNCHANGED vars
    BY <1>5 DEF Tick, vars, service
  <1> QED
    BY <1>1, <1>2, <1>3, <1>4, <1>5 DEF Next

\* While waiters are told of a pass, err and last_failed_node are about that
\* very pass, for any routing table and any outcome of its transactions.
THEOREM PassErrorRight == Spec => []PassErrorAccurate
  <1>1. Init => ErrInv
    BY DEF Init, ErrInv, PassSteps
  <1>2. ErrInv => PassErrorAccurate
    BY DEF ErrInv, PassErrorAccurate, PassSteps
  <1> QED
    BY <1>1, <1>2, ErrStep, TypeCorrect, PTL DEF Spec

-----------------------------------------------------------------------------
(* The rendezvous of a waiting request with the end of a pass.             *)

\* Inductive: once the semaphore has been seen empty, a token in it was put
\* there by a pass that ended since.
WaitInv ==
    \A h \in Handlers :
        /\ pc[h] \in {"release", "wait"} /\ finish_sem = 1 => "completed" \in seen[h]
        /\ "token" \in seen[h] => "completed" \in seen[h]

LEMMA WaitStep == TypeOK /\ WaitInv /\ [Next]_vars => WaitInv'
  <1> SUFFICES ASSUME TypeOK, WaitInv, [Next]_vars
               PROVE  WaitInv'
    OBVIOUS
  <1> USE DEF WaitInv, TypeOK, sems, calls, history
  <1>1. CASE CheckSlave
    BY <1>1 DEF CheckSlave
  <1>2. CASE DoneRelease
    <2>1. \A h \in Handlers :
              IF pc[h] \in {"release", "wait"}
              THEN "completed" \in seen'[h]
              ELSE seen'[h] = seen[h] \ {"mid"}
      BY <1>2 DEF DoneRelease, Witness
    <2> QED
      BY <1>2, <2>1 DEF DoneRelease
  <1>3. CASE (Boot \/ Main) /\ ~CheckSlave /\ ~DoneRelease
    <2>1. UNCHANGED <<pc, seen>> /\ finish_sem' \in {finish_sem, NoSem, 0}
      BY <1>3
      DEF Boot, InitFields1, InitFields2, NewStartSem, NewFinishSem, StartMain,
          InitFails, Main, Sleep, WakeByStart, WakeByTimeout, ClearErr, CheckMaster,
          CheckStop, Pass, IterateSelf, IterateSend, TxnAnswered, TxnFails,
          RouteFails, IterateEnd, DoneCheck, DoneUnset
    <2> QED
      BY <2>1 DEF NoSem
  <1>4. ASSUME NEW h \in Handlers, Receive(h) \/ Call(h)
        PROVE  WaitInv'
    <2>1. CASE DrainEmpty(h)
      BY <2>1 DEF DrainEmpty
    <2>2. CASE WaitToken(h)
      <3>1. "completed" \in seen[h]
        BY <2>2 DEF WaitToken
      <3>2. "completed" \in seen'[h]
            /\ \A k \in Handlers \ {h} : seen'[k] = seen[k] /\ pc'[k] = pc[k]
        BY <2>2, <3>1 DEF WaitToken
      <3> QED
        BY <2>2, <3>2 DEF WaitToken
    <2>3. CASE Reply(h)
      BY <2>3 DEF Reply
    <2>4. CASE DrainToken(h) \/ WaitTimeout(h) \/ ReleaseStart(h)
      BY <2>4 DEF DrainToken, WaitTimeout, ReleaseStart
    <2>5. CASE Receive(h)
      <3>1. PICK r \in Requests : pc' = [pc EXCEPT ![h] = FirstStep[r.cmd]]
        BY <2>5 DEF Receive
      <3>2. FirstStep[r.cmd] \notin {"release", "wait"}
        BY DEF Requests, Request, FirstStep
      <3> QED
        BY <2>5, <3>1, <3>2 DEF Receive
    <2>6. CASE Call(h) /\ ~DrainEmpty(h) /\ ~WaitToken(h) /\ ~Reply(h)
               /\ ~DrainToken(h) /\ ~WaitTimeout(h) /\ ~ReleaseStart(h)
      <3>1. /\ UNCHANGED <<seen, finish_sem>>
            /\ pc'[h] \notin {"release", "wait"}
            /\ \A k \in Handlers \ {h} : pc'[k] = pc[k]
        BY <2>6
        DEF Call, SetTime, GetTime, SlaveClock, SetClock, MakeSlave, SetFrequency, SetModes, BecomeMaster,
            Wait, Stamp, ReadStatus
      <3> QED
        BY <3>1
    <2> QED
      BY <1>4, <2>1, <2>2, <2>3, <2>4, <2>5, <2>6
  <1>5. CASE Tick \/ UNCHANGED vars
    BY <1>5 DEF Tick, vars
  <1> QED
    BY <1>1, <1>2, <1>3, <1>4, <1>5 DEF Next

\* A waiting request is never answered by a token from before it drained the
\* semaphore, with any number of callbacks competing for the tokens.
THEOREM WaiterSeesItsPass == Spec => []WaiterSeesCompletion
  <1>1. Init => WaitInv
    BY DEF Init, WaitInv
  <1>2. WaitInv => WaiterSeesCompletion
    BY DEF WaitInv, WaiterSeesCompletion
  <1> QED
    BY <1>1, <1>2, WaitStep, TypeCorrect, PTL DEF Spec

-----------------------------------------------------------------------------
(* The threads of a node implement SyncService.                            *)

\* Inductive: once the service thread is past its start there is a semaphore for
\* the waiters, and only a callback that was asked to waits on it.
PromiseInv ==
    /\ main \notin BootSteps \cup {"dead"} => finish_sem # NoSem
    /\ \A h \in Handlers : pc[h] = "wait" => "WAIT" \in req[h].flags

LEMMA PromiseInvStep == TypeOK /\ PromiseInv /\ [Next]_vars => PromiseInv'
  <1> SUFFICES ASSUME TypeOK, PromiseInv, [Next]_vars
               PROVE  PromiseInv'
    OBVIOUS
  <1> USE DEF PromiseInv, TypeOK, BootSteps, sems, calls
  <1>1. CASE Boot
    BY <1>1 DEF Boot, InitFields1, InitFields2, NewStartSem, NewFinishSem, StartMain,
                InitFails
  <1>2. CASE Main
    <2>1. main \notin BootSteps \cup {"dead"} /\ finish_sem' \in {finish_sem, 1}
      BY <1>2
      DEF Main, Sleep, WakeByStart, WakeByTimeout, ClearErr, CheckMaster,
          CheckStop, CheckSlave, Pass, IterateSelf, IterateSend, TxnAnswered, TxnFails,
          RouteFails, IterateEnd, DoneCheck, DoneUnset, DoneRelease, Released
    <2> QED
      BY <1>2, <2>1, MainFrame DEF NoSem
  <1>3. ASSUME NEW h \in Handlers, Receive(h) \/ Call(h)
        PROVE  PromiseInv'
    <2>1. main' = main
      BY <1>3, CallFrame
    <2>2. finish_sem' \in {finish_sem, 0}
      BY <1>3
      DEF Receive, Call, SetTime, GetTime, SlaveClock, SetClock, MakeSlave,
          SetFrequency, SetModes, BecomeMaster, DrainToken, DrainEmpty, ReleaseStart,
          Wait, WaitToken, WaitTimeout, Stamp, ReadStatus, Reply
    <2>3. \A k \in Handlers \ {h} : pc'[k] = pc[k] /\ req'[k] = req[k]
      BY <1>3
      DEF Receive, Call, SetTime, GetTime, SlaveClock, SetClock, MakeSlave,
          SetFrequency, SetModes, BecomeMaster, DrainToken, DrainEmpty, ReleaseStart,
          Wait, WaitToken, WaitTimeout, Stamp, ReadStatus, Reply
    <2>4. pc'[h] = "wait" => "WAIT" \in req'[h].flags
      <3>1. CASE Receive(h)
        <4>1. PICK r \in Requests : pc' = [pc EXCEPT ![h] = FirstStep[r.cmd]]
          BY <3>1 DEF Receive
        <4>2. FirstStep[r.cmd] # "wait"
          BY DEF Requests, Request, FirstStep
        <4> QED
          BY <4>1, <4>2
      <3>2. CASE ReleaseStart(h)
        BY <3>2 DEF ReleaseStart
      <3>3. CASE Call(h) /\ ~ReleaseStart(h)
        BY <3>3
        DEF Call, SetTime, GetTime, SlaveClock, SetClock, MakeSlave, SetFrequency,
            SetModes, BecomeMaster, DrainToken, DrainEmpty, Wait, WaitToken,
            WaitTimeout, Stamp, ReadStatus, Reply
      <3> QED
        BY <1>3, <3>1, <3>2, <3>3
    <2> QED
      BY <2>1, <2>2, <2>3, <2>4 DEF NoSem
  <1>4. CASE Tick \/ UNCHANGED vars
    BY <1>4 DEF Tick, vars, service
  <1> QED
    BY <1>1, <1>2, <1>3, <1>4 DEF Next

\* Callbacks that have seen a pass end while they wait.
Heard == {h \in Waiting : "completed" \in seen[h]}

\* The service thread does not make a callback begin or end its wait, and only the
\* end of a pass is heard.
LEMMA MainHeard ==
    ASSUME TypeOK, Boot \/ Main
    PROVE  /\ Waiting' = Waiting
           /\ ~DoneRelease => Heard' = Heard
           /\ DoneRelease => Heard' = Waiting
  <1>1. UNCHANGED <<pc, req>>
    BY MainFrame DEF calls
  <1>2. Waiting' = Waiting
    BY <1>1 DEF Waiting
  <1>3. CASE DoneRelease
    <2>1. \A h \in Waiting : "completed" \in seen'[h]
      BY <1>3 DEF DoneRelease, Witness, Waiting
    <2> QED
      BY <1>2, <1>3, <2>1 DEF Heard
  <1>4. CASE CheckSlave
    <2>1. main # "release"
      BY <1>4 DEF CheckSlave
    <2>2. \A h \in Handlers : "completed" \in seen'[h] <=> "completed" \in seen[h]
      BY <1>4 DEF CheckSlave, history
    <2> QED
      BY <1>2, <2>1, <2>2 DEF Heard, Waiting, DoneRelease
  <1>5. CASE ~DoneRelease /\ ~CheckSlave
    <2>1. UNCHANGED seen
      BY <1>5
      DEF Boot, InitFields1, InitFields2, NewStartSem, NewFinishSem, StartMain,
          InitFails, Main, Sleep, WakeByStart, WakeByTimeout, ClearErr, CheckMaster,
          CheckStop, Pass, IterateSelf, IterateSend, TxnAnswered, TxnFails,
          RouteFails, IterateEnd, DoneCheck, DoneUnset, history
    <2> QED
      BY <1>2, <1>5, <2>1 DEF Heard
  <1> QED
    BY <1>2, <1>3, <1>4, <1>5

\* The step of the promise that a step of the threads stands for.
Kept == [Promise!Next]_(Promise!vars)

\* The service thread goes along the routing table as promised.
LEMMA MainKeeps ==
    ASSUME TypeOK, ErrInv, PromiseInv, Boot \/ Main
    PROVE  Kept
  <1> USE DEF Kept, TypeOK, PassSteps, BootSteps, tk_data, sems, history, service,
              Promise!vars, Promise!walk, Promise!desk
  <1>1. /\ Waiting' = Waiting
        /\ ~DoneRelease => Heard' = Heard
        /\ DoneRelease => Heard' = Waiting
    BY MainHeard
  <1> USE DEF Heard
  <1>2. CASE InitFields1
    <2>1. Promise!Wake
      BY <1>1, <1>2 DEF InitFields1, Promise!Wake, DoneRelease
    <2> QED
      BY <2>1 DEF Promise!Next
  <1>3. CASE InitFields2 \/ NewStartSem \/ StartMain
    BY <1>1, <1>3 DEF InitFields2, NewStartSem, StartMain, DoneRelease
  <1>4. CASE NewFinishSem
    <2>1. Promise!Forget \/ UNCHANGED Promise!vars
      BY <1>1, <1>4 DEF NewFinishSem, Promise!Forget, DoneRelease, NoSem
    <2> QED
      BY <2>1 DEF Promise!Next
  <1>5. CASE InitFails
    <2>1. Promise!Die
      BY <1>1, <1>5 DEF InitFails, Promise!Die, DoneRelease
    <2> QED
      BY <2>1 DEF Promise!Next
  <1>6. CASE Sleep \/ WakeByStart \/ WakeByTimeout \/ CheckMaster \/ CheckStop
    BY <1>1, <1>6 DEF Sleep, WakeByStart, WakeByTimeout, CheckMaster, CheckStop,
                      DoneRelease
  <1>7. CASE ClearErr
    <2>1. Promise!Wake
      BY <1>1, <1>7 DEF ClearErr, Promise!Wake, DoneRelease
    <2> QED
      BY <2>1 DEF Promise!Next
  <1>8. CASE CheckSlave
    <2>1. CASE main' = "iterate"
      <3>1. Promise!Wake
        BY <1>1, <1>8, <2>1 DEF CheckSlave, Promise!Wake, DoneRelease, ErrInv
      <3> QED
        BY <3>1 DEF Promise!Next
    <2>2. CASE main' # "iterate"
      BY <1>1, <1>8, <2>2 DEF CheckSlave, DoneRelease
    <2> QED
      BY <2>1, <2>2
  <1>9. CASE IterateSelf
    <2>1. Promise!Skip
      BY <1>1, <1>9, RoutesAssumption DEF IterateSelf, RouteFails, Promise!Skip, DoneRelease
    <2> QED
      BY <2>1 DEF Promise!Next
  <1>10. CASE IterateSend
    <2>1. Promise!Call
      BY <1>1, <1>10, RoutesAssumption DEF IterateSend, Promise!Call, DoneRelease
    <2> QED
      BY <2>1 DEF Promise!Next
  <1>11. CASE TxnAnswered \/ TxnFails
    <2>1. Promise!HangUp
      BY <1>1, <1>11, RoutesAssumption
      DEF TxnAnswered, TxnFails, RouteFails, Promise!HangUp, DoneRelease
    <2> QED
      BY <2>1 DEF Promise!Next
  <1>12. CASE IterateEnd
    BY <1>1, <1>12, RoutesAssumption DEF IterateEnd, DoneRelease
  <1>13. CASE DoneCheck \/ DoneUnset
    BY <1>1, <1>13 DEF DoneCheck, DoneUnset, DoneRelease
  <1>14. CASE DoneRelease
    <2>1. finish_sem' = 1
      BY <1>14 DEF DoneRelease, Released, PromiseInv
    <2>2. Promise!End
      BY <1>1, <1>14, <2>1 DEF DoneRelease, Promise!End
    <2> QED
      BY <2>2 DEF Promise!Next
  <1> QED
    BY <1>2, <1>3, <1>4, <1>5, <1>6, <1>7, <1>8, <1>9, <1>10, <1>11, <1>12, <1>13,
       <1>14
    DEF Boot, Main, Pass

\* Two sets that agree on one element and on all others are equal.
LEMMA SameSet ==
    ASSUME NEW H, NEW h \in H, NEW A \in SUBSET H, NEW B \in SUBSET H,
           \A k \in H \ {h} : (k \in B <=> k \in A), h \in B <=> h \in A
    PROVE  B = A
  OBVIOUS

\* A callback waits and is told of an end, or gives up, as promised.
LEMMA CallKeeps ==
    ASSUME TypeOK, WaitInv, PromiseInv, NEW h \in Handlers, Receive(h) \/ Call(h)
    PROVE  Kept
  <1> USE DEF Kept, TypeOK, tk_data, sems, calls, history, service,
              Promise!vars, Promise!walk, Promise!desk
  <1>1. UNCHANGED <<main, idx, err>>
    BY CallFrame
  <1>2. UNCHANGED Promise!walk
    BY <1>1
  <1>3. \A k \in Handlers \ {h} : pc'[k] = pc[k] /\ req'[k] = req[k] /\ seen'[k] = seen[k]
    BY DEF Receive, Call, SetTime, GetTime, SlaveClock, SetClock, MakeSlave,
           SetFrequency, SetModes, BecomeMaster, DrainToken, DrainEmpty, ReleaseStart,
           Wait, WaitToken, WaitTimeout, Stamp, ReadStatus, Reply
  <1>4. /\ \A k \in Handlers \ {h} : (k \in Waiting' <=> k \in Waiting)
        /\ \A k \in Handlers \ {h} : (k \in Heard' <=> k \in Heard)
        /\ Waiting \subseteq Handlers /\ Waiting' \subseteq Handlers
        /\ Heard \subseteq Waiting /\ Heard' \subseteq Waiting'
    BY <1>3 DEF Waiting, Heard
  <1>5. CASE WaitToken(h)
    <2>1. h \in Heard /\ h \notin Waiting'
      BY <1>5 DEF WaitToken, Waiting, Heard, PromiseInv, WaitInv
    <2>2. Waiting' = Waiting \ {h} /\ Heard' = Heard \ {h}
      BY <1>4, <2>1
    <2>3. Promise!Told(h)
      BY <1>2, <1>5, <2>1, <2>2 DEF WaitToken, Promise!Told, Promise!Leave, Heard
    <2> QED
      BY <2>3 DEF Promise!Next
  <1>6. CASE WaitTimeout(h)
    <2>1. h \in Waiting /\ h \notin Waiting'
      BY <1>6 DEF WaitTimeout, Waiting, PromiseInv
    <2>2. Waiting' = Waiting \ {h} /\ Heard' = Heard \ {h}
      BY <1>4, <2>1
    <2>3. Promise!GiveUp(h)
      BY <1>2, <1>6, <2>1, <2>2 DEF WaitTimeout, Promise!GiveUp, Promise!Leave, Heard
    <2> QED
      BY <2>3 DEF Promise!Next
  <1>7. CASE DrainToken(h)
    <2>1. h \notin Waiting /\ h \notin Waiting'
      BY <1>7 DEF DrainToken, Waiting
    <2>2. Waiting' = Waiting /\ Heard' = Heard
      BY <1>4, <2>1
    <2>3. Promise!Forget
      BY <1>2, <1>7, <2>2 DEF DrainToken, Promise!Forget, Heard
    <2> QED
      BY <2>3 DEF Promise!Next
  <1>8. CASE DrainEmpty(h)
    <2>1. h \notin Waiting /\ h \notin Heard'
      BY <1>8 DEF DrainEmpty, Waiting, Heard
    <2>2. Heard' = Heard
      BY <1>4, <2>1
    <2>3. CASE h \in Waiting'
      <3>1. Waiting' = Waiting \cup {h}
        BY <1>4, <2>1, <2>3
      <3>2. Promise!Ask(h)
        BY <1>2, <1>8, <2>1, <2>2, <3>1 DEF DrainEmpty, Promise!Ask, Heard
      <3> QED
        BY <3>2 DEF Promise!Next
    <2>4. CASE h \notin Waiting'
      <3>1. Waiting' = Waiting
        BY <1>4, <2>1, <2>4, SameSet
      <3> QED
        BY <1>2, <1>8, <2>2, <3>1 DEF DrainEmpty, Heard
    <2> QED
      BY <2>3, <2>4
  <1>9. CASE ~WaitToken(h) /\ ~WaitTimeout(h) /\ ~DrainToken(h) /\ ~DrainEmpty(h)
    <2>1. UNCHANGED finish_sem
      BY <1>9
      DEF Receive, Call, SetTime, GetTime, SlaveClock, SetClock, MakeSlave,
          SetFrequency, SetModes, BecomeMaster, ReleaseStart, Wait, Stamp, ReadStatus,
          Reply
    <2>2. /\ h \in Waiting' <=> h \in Waiting
          /\ h \in Heard' <=> h \in Heard
      <3>1. CASE Receive(h)
        <4>1. PICK r \in Requests : pc' = [pc EXCEPT ![h] = FirstStep[r.cmd]]
          BY <3>1 DEF Receive
        <4>2. FirstStep[r.cmd] \notin {"release", "wait"}
          BY DEF Requests, Request, FirstStep
        <4> QED
          BY <3>1, <4>1, <4>2 DEF Receive, Waiting, Heard
      <3>2. CASE ReleaseStart(h)
        BY <3>2 DEF ReleaseStart, Waiting, Heard
      <3>3. CASE Call(h) /\ ~ReleaseStart(h)
        <4>1. pc[h] \notin {"release", "wait"} /\ pc'[h] \notin {"release", "wait"}
          BY <1>9, <3>3
          DEF Call, SetTime, GetTime, SlaveClock, SetClock, MakeSlave, SetFrequency,
              SetModes, BecomeMaster, Wait, Stamp, ReadStatus, Reply
        <4> QED
          BY <4>1 DEF Waiting, Heard
      <3> QED
        BY <3>1, <3>2, <3>3
    <2>3. Waiting' = Waiting /\ Heard' = Heard
      <3> HIDE DEF TypeOK
      <3>1. Heard \subseteq Handlers /\ Heard' \subseteq Handlers
        BY <1>4
      <3> QED
        BY <1>4, <2>2, <3>1, SameSet
    <2> QED
      BY <1>2, <2>1, <2>3 DEF Heard
  <1> QED
    BY <1>5, <1>6, <1>7, <1>8, <1>9

\* Whatever the steps of the service thread and of any number of callbacks fall
\* between, the node does what SyncService promises: every address once, every
\* failure reported, and one end of a pass told to one callback that waited.
THEOREM NodeKeepsPromise == Spec => KeepsPromise
  <1>1. Init => Promise!Init
    BY RoutesAssumption
    DEF Init, Promise!Init, Waiting, PassSteps, NoSem
  <1>2. Init => ErrInv /\ WaitInv /\ PromiseInv
    BY DEF Init, ErrInv, WaitInv, PromiseInv, PassSteps, BootSteps
  <1>3. TypeOK /\ ErrInv /\ WaitInv /\ PromiseInv /\ [Next]_vars => Kept
    <2> SUFFICES ASSUME TypeOK, ErrInv, WaitInv, PromiseInv, [Next]_vars
                 PROVE  Kept
      OBVIOUS
    <2>1. CASE Tick \/ UNCHANGED vars
      BY <2>1 DEF Tick, vars, tk_data, sems, service, calls, history, Kept,
                  Promise!vars, Promise!walk, Promise!desk, Waiting
    <2> QED
      BY <2>1, MainKeeps, CallKeeps DEF Next
  <1> QED
    BY <1>1, <1>2, <1>3, TypeCorrect, ErrStep, WaitStep, PromiseInvStep, PTL
    DEF Spec, KeepsPromise, Promise!Spec, Kept
=============================================================================
