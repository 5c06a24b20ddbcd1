--------------------------- MODULE TkNetworkProofs --------------------------
(***************************************************************************)
(* Theorems about TkNetwork, for any set of nodes, any routing tables and  *)
(* any number of commands.                                                 *)
(***************************************************************************)
EXTENDS TkNetwork, TLAPS

(* The inductive invariant.                                                *)

\* Nodes that may have begun a pass.
Masters == commanded \cup raced

\* Only a node that was told to sync has an active mode; only such a node, or one
\* that was told something between the two reads of its mode, begins a pass.
ActiveWasCommanded ==
    \A n \in Nodes : /\ sync_mode[n] \in {"ONCE", "CONTINUOUS"} => n \in commanded
                     /\ InPass(n) => n \in Masters
                     /\ pass[n] = "slave" => sync_mode[n] = "SLAVE" \/ n \in Masters

\* Packets go from such a node to another node.
PacketsOfMasters ==
    \A p \in net : p.src # p.dst /\ p.src \in Masters

\* A pass starts at the first address and with a clean record.
StartsClean ==
    \A n \in Nodes : /\ ~InPass(n) => idx[n] = 1
                     /\ pass[n] \in {"master", "stop", "slave"} => err[n] = "NOERR"

\* A node waits for at most one transaction, and only in a pass.
OneOpenTransaction ==
    /\ \A p \in net : p.open => pass[p.src] = "txn"
    /\ \A p, q \in net : p.open /\ q.open /\ p.src = q.src => p = q

\* A response somebody waits for comes from a node that served his request.
ResponsesWereServed ==
    \A p \in net : p.open /\ p.kind = "RSP" => p.dst \in reached[p.src]

IInv ==
    /\ TypeOK /\ NeverOwnMaster /\ ActiveWasCommanded /\ PacketsOfMasters
    /\ StartsClean /\ OneOpenTransaction /\ ResponsesWereServed
    /\ CleanPassReachedAll /\ SoleMasterKeepsRole

-----------------------------------------------------------------------------
(* Lemmas.                                                                 *)

\* An address of a routing table is a node.
LEMMA RouteIsNode ==
    ASSUME NEW n \in Nodes, NEW i \in 1 .. Len(Routes[n])
    PROVE  Routes[n][i] \in Nodes
  BY RoutesAssumption

\* The length of a routing table.
LEMMA RouteLength ==
    ASSUME NEW n \in Nodes
    PROVE  Len(Routes[n]) \in Nat
  BY RoutesAssumption

\* No node has the address that stands for no master.
LEMMA ZeroIsNoNode == 0 \notin Nodes
  BY NodesAssumption

\* A command keeps a mode or sets one, and an active one only with a flag.
LEMMA ModeOfCommand ==
    ASSUME NEW flags \in FlagSets, NEW m \in Modes
    PROVE  /\ CommandedMode(flags, m) \in Modes
           /\ CommandedMode(flags, m) \in {"ONCE", "CONTINUOUS"} =>
                  m \in {"ONCE", "CONTINUOUS"} \/ flags \cap {"START", "ONCE"} # {}
           /\ CommandedMode(flags, m) = "SLAVE" => m = "SLAVE"
  BY DEF CommandedMode, Modes

\* Giving a transaction up closes its packets and changes nothing else of them.
LEMMA ClosedPacket ==
    ASSUME NEW p \in Packets
    PROVE  /\ [p EXCEPT !.open = FALSE] \in Packets
           /\ [p EXCEPT !.open = FALSE].src = p.src
           /\ [p EXCEPT !.open = FALSE].dst = p.dst
           /\ [p EXCEPT !.open = FALSE].kind = p.kind
           /\ [p EXCEPT !.open = FALSE].open = FALSE
  BY DEF Packets

\* The packets after the transaction of n was given up.
LEMMA PacketsAfterTimeout ==
    ASSUME TypeOK, NEW n \in Nodes, TxnTimeout(n), NEW p \in net'
    PROVE  /\ p \in Packets
           /\ p.open => p \in net /\ p.src # n
           /\ \E q \in net : q.src = p.src /\ q.dst = p.dst /\ q.kind = p.kind
  <1>1. PICK q \in net : p = IF q.src = n THEN [q EXCEPT !.open = FALSE] ELSE q
    BY DEF TxnTimeout
  <1>2. q \in Packets
    BY DEF TypeOK
  <1> QED
    BY <1>1, <1>2, ClosedPacket

-----------------------------------------------------------------------------
(* Every step keeps every part of the invariant.                           *)

\* Every variable keeps to its type.
LEMMA TypeStep ==
    ASSUME TypeOK, [Next]_vars
    PROVE  TypeOK'
  <1> USE DEF TypeOK, node, history, Modes, Packets
  <1>1. ASSUME NEW n \in Nodes, NEW flags \in FlagSets, Command(n, flags)
        PROVE  TypeOK'
    <2>1. sync_mode' \in [Nodes -> Modes]
      BY <1>1, ModeOfCommand DEF Command
    <2>2. budget' \in 0 .. MaxCommands
      BY <1>1, BoundAssumption DEF Command
    <2>3. commanded' \subseteq Nodes
      BY <1>1 DEF Command
    <2> QED
      BY <1>1, <2>1, <2>2, <2>3 DEF Command
  <1>2. ASSUME NEW n \in Nodes, WaitToken(n)
        PROVE  TypeOK'
    BY <1>2 DEF WaitToken, EndWait
  <1>3. ASSUME NEW n \in Nodes, WaitTimeout(n)
        PROVE  TypeOK'
    BY <1>3 DEF WaitTimeout, EndWait
  <1>4. ASSUME NEW n \in Nodes, Serve(n)
        PROVE  TypeOK'
    BY <1>4 DEF Serve, Packet
  <1>5. ASSUME NEW n \in Nodes, Wake(n)
        PROVE  TypeOK'
    BY <1>5 DEF Wake
  <1>6. ASSUME NEW n \in Nodes, SendSelf(n)
        PROVE  TypeOK'
    BY <1>6, RouteLength DEF SendSelf, NextRoute
  <1>7. ASSUME NEW n \in Nodes, Send(n)
        PROVE  TypeOK'
    <2>1. idx[n] \in 1 .. Len(Routes[n])
      BY <1>7, RouteLength DEF Send, OpenTransaction
    <2>2. Packet("REQ", n, Routes[n][idx[n]], TRUE) \in Packets
      BY <2>1, RouteIsNode DEF Packet
    <2> QED
      BY <1>7, <2>1, <2>2 DEF Send, OpenTransaction
  <1>8. ASSUME NEW n \in Nodes, TxnAnswered(n)
        PROVE  TypeOK'
    BY <1>8, RouteLength, SMTT(30) DEF TxnAnswered, TakeResponse, NextRoute
  <1>9. ASSUME NEW n \in Nodes, TxnTimeout(n)
        PROVE  TypeOK'
    <2>1. net' \subseteq Packets
      BY <1>9, PacketsAfterTimeout
    <2> QED
      BY <1>9, <2>1, RouteLength DEF TxnTimeout, NextRoute
  <1>10. ASSUME NEW n \in Nodes, Done(n)
        PROVE  TypeOK'
    BY <1>10 DEF Done
  <1>11. ASSUME NEW n \in Nodes, Test(n)
        PROVE  TypeOK'
    <2>1. PICK next \in {"idle", "stop", "slave", "send"} :
             pass' = [pass EXCEPT ![n] = next]
      BY <1>11, SMTT(30) DEF Test, CheckMaster, CheckStop, CheckSlave, Check
    <2>2. UNCHANGED <<sync_mode, master_node, err, start_sem, finish_sem, idx, call, net,
                      budget, history>>
      BY <1>11 DEF Test, CheckMaster, CheckStop, CheckSlave, Check
    <2>3. pass' \in [Nodes -> {"idle", "master", "stop", "slave", "send", "txn"}]
      BY <2>1
    <2>4. \A m \in Nodes : pass'[m] = "txn" => pass[m] = "txn"
      BY <2>1
    <2> QED
      BY <2>2, <2>3, <2>4
  <1>12. CASE Lose
    BY <1>12 DEF Lose
  <1>13. CASE UNCHANGED vars
    BY <1>13 DEF vars
  <1> QED
    BY <1>1, <1>2, <1>3, <1>4, <1>5, <1>6, <1>7, <1>8, <1>9, <1>10, <1>11, <1>12, <1>13
       DEF Next, Service, Walk

\* No node becomes its own master.
LEMMA OwnerStep ==
    ASSUME IInv, [Next]_vars
    PROVE  NeverOwnMaster'
  <1> USE DEF IInv, TypeOK, NeverOwnMaster, PacketsOfMasters, Masters, node, history, Packets
  <1>1. ASSUME NEW n \in Nodes, NEW flags \in FlagSets, Command(n, flags)
        PROVE  NeverOwnMaster'
    BY <1>1, ZeroIsNoNode DEF Command
  <1>2. ASSUME NEW n \in Nodes, WaitToken(n)
        PROVE  NeverOwnMaster'
    BY <1>2 DEF WaitToken, EndWait
  <1>3. ASSUME NEW n \in Nodes, WaitTimeout(n)
        PROVE  NeverOwnMaster'
    BY <1>3 DEF WaitTimeout, EndWait
  <1>4. ASSUME NEW n \in Nodes, Serve(n)
        PROVE  NeverOwnMaster'
    BY <1>4 DEF Serve, Packet
  <1>5. ASSUME NEW n \in Nodes, Wake(n)
        PROVE  NeverOwnMaster'
    BY <1>5 DEF Wake
  <1>6. ASSUME NEW n \in Nodes, SendSelf(n)
        PROVE  NeverOwnMaster'
    BY <1>6 DEF SendSelf, NextRoute
  <1>7. ASSUME NEW n \in Nodes, Send(n)
        PROVE  NeverOwnMaster'
    BY <1>7 DEF Send, OpenTransaction, Packet
  <1>8. ASSUME NEW n \in Nodes, TxnAnswered(n)
        PROVE  NeverOwnMaster'
    BY <1>8 DEF TxnAnswered, TakeResponse, NextRoute
  <1>9. ASSUME NEW n \in Nodes, TxnTimeout(n)
        PROVE  NeverOwnMaster'
    BY <1>9 DEF TxnTimeout, NextRoute
  <1>10. ASSUME NEW n \in Nodes, Done(n)
        PROVE  NeverOwnMaster'
    BY <1>10 DEF Done
  <1>11. ASSUME NEW n \in Nodes, Test(n)
        PROVE  NeverOwnMaster'
    BY <1>11 DEF Test, CheckMaster, CheckStop, CheckSlave, Check
  <1>12. CASE Lose
    BY <1>12 DEF Lose
  <1>13. CASE UNCHANGED vars
    BY <1>13 DEF vars
  <1> QED
    BY <1>1, <1>2, <1>3, <1>4, <1>5, <1>6, <1>7, <1>8, <1>9, <1>10, <1>11, <1>12, <1>13
       DEF Next, Service, Walk

\* Modes and passes stay those of commanded nodes.
LEMMA ActiveStep ==
    ASSUME IInv, [Next]_vars
    PROVE  ActiveWasCommanded'
  <1> USE DEF IInv, TypeOK, ActiveWasCommanded, Masters, InPass, node, history, Modes
  <1>1. ASSUME NEW n \in Nodes, NEW flags \in FlagSets, Command(n, flags)
        PROVE  ActiveWasCommanded'
    BY <1>1, ModeOfCommand DEF Command
  <1>2. ASSUME NEW n \in Nodes, WaitToken(n)
        PROVE  ActiveWasCommanded'
    BY <1>2 DEF WaitToken, EndWait
  <1>3. ASSUME NEW n \in Nodes, WaitTimeout(n)
        PROVE  ActiveWasCommanded'
    BY <1>3 DEF WaitTimeout, EndWait
  <1>4. ASSUME NEW n \in Nodes, Serve(n)
        PROVE  ActiveWasCommanded'
    BY <1>4 DEF Serve, Packet
  <1>5. ASSUME NEW n \in Nodes, Wake(n)
        PROVE  ActiveWasCommanded'
    BY <1>5 DEF Wake
  <1>6. ASSUME NEW n \in Nodes, SendSelf(n)
        PROVE  ActiveWasCommanded'
    BY <1>6 DEF SendSelf, NextRoute
  <1>7. ASSUME NEW n \in Nodes, Send(n)
        PROVE  ActiveWasCommanded'
    BY <1>7 DEF Send, OpenTransaction, Packet
  <1>8. ASSUME NEW n \in Nodes, TxnAnswered(n)
        PROVE  ActiveWasCommanded'
    BY <1>8 DEF TxnAnswered, TakeResponse, NextRoute
  <1>9. ASSUME NEW n \in Nodes, TxnTimeout(n)
        PROVE  ActiveWasCommanded'
    BY <1>9 DEF TxnTimeout, NextRoute
  <1>10. ASSUME NEW n \in Nodes, Done(n)
        PROVE  ActiveWasCommanded'
    BY <1>10 DEF Done
  <1>11. ASSUME NEW n \in Nodes, Test(n)
        PROVE  ActiveWasCommanded'
    BY <1>11 DEF Test, CheckMaster, CheckStop, CheckSlave, Check
  <1>12. CASE Lose
    BY <1>12 DEF Lose
  <1>13. CASE UNCHANGED vars
    BY <1>13 DEF vars
  <1> QED
    BY <1>1, <1>2, <1>3, <1>4, <1>5, <1>6, <1>7, <1>8, <1>9, <1>10, <1>11, <1>12, <1>13
       DEF Next, Service, Walk

\* Packets stay those of commanded nodes.
LEMMA MasterPacketStep ==
    ASSUME IInv, [Next]_vars
    PROVE  PacketsOfMasters'
  <1> USE DEF IInv, TypeOK, ActiveWasCommanded, InPass, PacketsOfMasters, Masters, node, history, Packets
  <1>1. ASSUME NEW n \in Nodes, NEW flags \in FlagSets, Command(n, flags)
        PROVE  PacketsOfMasters'
    BY <1>1 DEF Command
  <1>2. ASSUME NEW n \in Nodes, WaitToken(n)
        PROVE  PacketsOfMasters'
    BY <1>2 DEF WaitToken, EndWait
  <1>3. ASSUME NEW n \in Nodes, WaitTimeout(n)
        PROVE  PacketsOfMasters'
    BY <1>3 DEF WaitTimeout, EndWait
  <1>4. ASSUME NEW n \in Nodes, Serve(n)
        PROVE  PacketsOfMasters'
    BY <1>4 DEF Serve, Packet
  <1>5. ASSUME NEW n \in Nodes, Wake(n)
        PROVE  PacketsOfMasters'
    BY <1>5 DEF Wake
  <1>6. ASSUME NEW n \in Nodes, SendSelf(n)
        PROVE  PacketsOfMasters'
    BY <1>6 DEF SendSelf, NextRoute
  <1>7. ASSUME NEW n \in Nodes, Send(n)
        PROVE  PacketsOfMasters'
    BY <1>7 DEF Send, OpenTransaction, Packet
  <1>8. ASSUME NEW n \in Nodes, TxnAnswered(n)
        PROVE  PacketsOfMasters'
    BY <1>8 DEF TxnAnswered, TakeResponse, NextRoute
  <1>9. ASSUME NEW n \in Nodes, TxnTimeout(n)
        PROVE  PacketsOfMasters'
    <2>1. \A p \in net' : \E q \in net : q.src = p.src /\ q.dst = p.dst
      BY <1>9, PacketsAfterTimeout
    <2>2. UNCHANGED <<commanded, raced>>
      BY <1>9 DEF TxnTimeout
    <2> QED
      BY <2>1, <2>2
  <1>10. ASSUME NEW n \in Nodes, Done(n)
        PROVE  PacketsOfMasters'
    BY <1>10 DEF Done
  <1>11. ASSUME NEW n \in Nodes, Test(n)
        PROVE  PacketsOfMasters'
    BY <1>11 DEF Test, CheckMaster, CheckStop, CheckSlave, Check
  <1>12. CASE Lose
    BY <1>12 DEF Lose
  <1>13. CASE UNCHANGED vars
    BY <1>13 DEF vars
  <1> QED
    BY <1>1, <1>2, <1>3, <1>4, <1>5, <1>6, <1>7, <1>8, <1>9, <1>10, <1>11, <1>12, <1>13
       DEF Next, Service, Walk

\* Between two passes the position is reset, and the record is clean from the
\* wake-up on.
LEMMA StartStep ==
    ASSUME IInv, [Next]_vars
    PROVE  StartsClean'
  <1> USE DEF IInv, TypeOK, StartsClean, InPass, node, history
  <1>1. ASSUME NEW n \in Nodes, NEW flags \in FlagSets, Command(n, flags)
        PROVE  StartsClean'
    BY <1>1 DEF Command
  <1>2. ASSUME NEW n \in Nodes, WaitToken(n)
        PROVE  StartsClean'
    BY <1>2 DEF WaitToken, EndWait
  <1>3. ASSUME NEW n \in Nodes, WaitTimeout(n)
        PROVE  StartsClean'
    BY <1>3 DEF WaitTimeout, EndWait
  <1>4. ASSUME NEW n \in Nodes, Serve(n)
        PROVE  StartsClean'
    BY <1>4 DEF Serve
  <1>5. ASSUME NEW n \in Nodes, Wake(n)
        PROVE  StartsClean'
    BY <1>5 DEF Wake
  <1>6. ASSUME NEW n \in Nodes, SendSelf(n)
        PROVE  StartsClean'
    BY <1>6 DEF SendSelf, NextRoute
  <1>7. ASSUME NEW n \in Nodes, Send(n)
        PROVE  StartsClean'
    BY <1>7 DEF Send, OpenTransaction
  <1>8. ASSUME NEW n \in Nodes, TxnAnswered(n)
        PROVE  StartsClean'
    BY <1>8 DEF TxnAnswered, TakeResponse, NextRoute
  <1>9. ASSUME NEW n \in Nodes, TxnTimeout(n)
        PROVE  StartsClean'
    BY <1>9 DEF TxnTimeout, NextRoute
  <1>10. ASSUME NEW n \in Nodes, Done(n)
        PROVE  StartsClean'
    BY <1>10 DEF Done
  <1>11. ASSUME NEW n \in Nodes, Test(n)
        PROVE  StartsClean'
    BY <1>11 DEF Test, CheckMaster, CheckStop, CheckSlave, Check
  <1>12. CASE Lose
    BY <1>12 DEF Lose
  <1>13. CASE UNCHANGED vars
    BY <1>13 DEF vars
  <1> QED
    BY <1>1, <1>2, <1>3, <1>4, <1>5, <1>6, <1>7, <1>8, <1>9, <1>10, <1>11, <1>12, <1>13
       DEF Next, Service, Walk

\* A transaction is opened when there is no other, and closed with its pass step.
LEMMA OpenStep ==
    ASSUME IInv, [Next]_vars
    PROVE  OneOpenTransaction'
  <1> USE DEF IInv, TypeOK, OneOpenTransaction, node, history, Packets
  <1>1. ASSUME NEW n \in Nodes, NEW flags \in FlagSets, Command(n, flags)
        PROVE  OneOpenTransaction'
    BY <1>1 DEF Command
  <1>2. ASSUME NEW n \in Nodes, WaitToken(n)
        PROVE  OneOpenTransaction'
    BY <1>2 DEF WaitToken, EndWait
  <1>3. ASSUME NEW n \in Nodes, WaitTimeout(n)
        PROVE  OneOpenTransaction'
    BY <1>3 DEF WaitTimeout, EndWait
  <1>4. ASSUME NEW n \in Nodes, Serve(n)
        PROVE  OneOpenTransaction'
    BY <1>4 DEF Serve, Packet
  <1>5. ASSUME NEW n \in Nodes, Wake(n)
        PROVE  OneOpenTransaction'
    BY <1>5 DEF Wake
  <1>6. ASSUME NEW n \in Nodes, SendSelf(n)
        PROVE  OneOpenTransaction'
    BY <1>6 DEF SendSelf, NextRoute
  <1>7. ASSUME NEW n \in Nodes, Send(n)
        PROVE  OneOpenTransaction'
    <2> DEFINE r == Packet("REQ", n, Routes[n][idx[n]], TRUE)
    <2>1. net' = net \cup {r} /\ pass[n] = "send" /\ pass' = [pass EXCEPT ![n] = "txn"]
      BY <1>7 DEF Send, OpenTransaction
    <2>2. r.src = n
      BY DEF Packet
    <2>3. \A p \in net : p.open => p.src # n
      BY <2>1
    <2> HIDE DEF r
    <2> QED
      BY <2>1, <2>2, <2>3
  <1>8. ASSUME NEW n \in Nodes, TxnAnswered(n)
        PROVE  OneOpenTransaction'
    BY <1>8 DEF TxnAnswered, TakeResponse, NextRoute
  <1>9. ASSUME NEW n \in Nodes, TxnTimeout(n)
        PROVE  OneOpenTransaction'
    <2>1. \A p \in net' : p.open => p \in net /\ p.src # n
      BY <1>9, PacketsAfterTimeout
    <2>2. \A m \in Nodes \ {n} : pass'[m] = pass[m]
      BY <1>9 DEF TxnTimeout, NextRoute
    <2>3. \A p \in net : p.src \in Nodes
      OBVIOUS
    <2> QED
      BY <2>1, <2>2, <2>3
  <1>10. ASSUME NEW n \in Nodes, Done(n)
        PROVE  OneOpenTransaction'
    BY <1>10 DEF Done
  <1>11. ASSUME NEW n \in Nodes, Test(n)
        PROVE  OneOpenTransaction'
    BY <1>11 DEF Test, CheckMaster, CheckStop, CheckSlave, Check
  <1>12. CASE Lose
    BY <1>12 DEF Lose
  <1>13. CASE UNCHANGED vars
    BY <1>13 DEF vars
  <1> QED
    BY <1>1, <1>2, <1>3, <1>4, <1>5, <1>6, <1>7, <1>8, <1>9, <1>10, <1>11, <1>12, <1>13
       DEF Next, Service, Walk

\* Who served an open request stays recorded while it is open.
LEMMA ServedStep ==
    ASSUME IInv, [Next]_vars
    PROVE  ResponsesWereServed'
  <1> USE DEF IInv, TypeOK, OneOpenTransaction, ResponsesWereServed, node, history, Packets
  <1>1. ASSUME NEW n \in Nodes, NEW flags \in FlagSets, Command(n, flags)
        PROVE  ResponsesWereServed'
    BY <1>1 DEF Command
  <1>2. ASSUME NEW n \in Nodes, WaitToken(n)
        PROVE  ResponsesWereServed'
    BY <1>2 DEF WaitToken, EndWait
  <1>3. ASSUME NEW n \in Nodes, WaitTimeout(n)
        PROVE  ResponsesWereServed'
    BY <1>3 DEF WaitTimeout, EndWait
  <1>4. ASSUME NEW n \in Nodes, Serve(n)
        PROVE  ResponsesWereServed'
    BY <1>4 DEF Serve, Packet
  <1>5. ASSUME NEW n \in Nodes, Wake(n)
        PROVE  ResponsesWereServed'
    BY <1>5 DEF Wake
  <1>6. ASSUME NEW n \in Nodes, SendSelf(n)
        PROVE  ResponsesWereServed'
    BY <1>6 DEF SendSelf, NextRoute
  <1>7. ASSUME NEW n \in Nodes, Send(n)
        PROVE  ResponsesWereServed'
    BY <1>7 DEF Send, OpenTransaction, Packet
  <1>8. ASSUME NEW n \in Nodes, TxnAnswered(n)
        PROVE  ResponsesWereServed'
    BY <1>8 DEF TxnAnswered, TakeResponse, NextRoute
  <1>9. ASSUME NEW n \in Nodes, TxnTimeout(n)
        PROVE  ResponsesWereServed'
    BY <1>9 DEF TxnTimeout, NextRoute
  <1>10. ASSUME NEW n \in Nodes, Done(n)
        PROVE  ResponsesWereServed'
    BY <1>10 DEF Done
  <1>11. ASSUME NEW n \in Nodes, Test(n)
        PROVE  ResponsesWereServed'
    BY <1>11 DEF Test, CheckMaster, CheckStop, CheckSlave, Check
  <1>12. CASE Lose
    BY <1>12 DEF Lose
  <1>13. CASE UNCHANGED vars
    BY <1>13 DEF vars
  <1> QED
    BY <1>1, <1>2, <1>3, <1>4, <1>5, <1>6, <1>7, <1>8, <1>9, <1>10, <1>11, <1>12, <1>13
       DEF Next, Service, Walk

\* A pass goes on without error only past an address that served it.
LEMMA CleanStep ==
    ASSUME IInv, [Next]_vars
    PROVE  CleanPassReachedAll'
  <1> USE DEF IInv, TypeOK, OneOpenTransaction, ResponsesWereServed, CleanPassReachedAll, StartsClean, InPass, node, history, Packets
  <1>1. ASSUME NEW n \in Nodes, NEW flags \in FlagSets, Command(n, flags)
        PROVE  CleanPassReachedAll'
    BY <1>1 DEF Command
  <1>2. ASSUME NEW n \in Nodes, WaitToken(n)
        PROVE  CleanPassReachedAll'
    BY <1>2 DEF WaitToken, EndWait
  <1>3. ASSUME NEW n \in Nodes, WaitTimeout(n)
        PROVE  CleanPassReachedAll'
    BY <1>3 DEF WaitTimeout, EndWait
  <1>4. ASSUME NEW n \in Nodes, Serve(n)
        PROVE  CleanPassReachedAll'
    BY <1>4 DEF Serve, Packet
  <1>5. ASSUME NEW n \in Nodes, Wake(n)
        PROVE  CleanPassReachedAll'
    BY <1>5 DEF Wake
  <1>6. ASSUME NEW n \in Nodes, SendSelf(n)
        PROVE  CleanPassReachedAll'
    BY <1>6 DEF SendSelf, NextRoute
  <1>7. ASSUME NEW n \in Nodes, Send(n)
        PROVE  CleanPassReachedAll'
    BY <1>7 DEF Send, OpenTransaction, Packet
  <1>8. ASSUME NEW n \in Nodes, TxnAnswered(n)
        PROVE  CleanPassReachedAll'
    BY <1>8, SMTT(30) DEF TxnAnswered, TakeResponse, NextRoute
  <1>9. ASSUME NEW n \in Nodes, TxnTimeout(n)
        PROVE  CleanPassReachedAll'
    BY <1>9 DEF TxnTimeout, NextRoute
  <1>10. ASSUME NEW n \in Nodes, Done(n)
        PROVE  CleanPassReachedAll'
    BY <1>10 DEF Done
  <1>11. ASSUME NEW n \in Nodes, Test(n)
        PROVE  CleanPassReachedAll'
    <2>1. \A m \in Nodes : InPass(m)' => InPass(m) \/ idx[m] = 1
      BY <1>11 DEF Test, CheckMaster, CheckStop, CheckSlave, Check
    <2>2. UNCHANGED <<err, idx, reached>>
      BY <1>11 DEF Test, CheckMaster, CheckStop, CheckSlave, Check
    <2>3. ASSUME NEW m \in Nodes, InPass(m)', err'[m] = "NOERR",
                 NEW i \in 1 .. idx'[m] - 1
          PROVE  Routes[m][i] \in reached'[m]
      <3>1. CASE InPass(m)
        BY <2>2, <2>3, <3>1
      <3>2. CASE idx[m] = 1
        BY <2>2, <2>3, <3>2
      <3> QED
        BY <2>1, <2>3, <3>1, <3>2
    <2> QED
      BY <2>3
  <1>12. CASE Lose
    BY <1>12 DEF Lose
  <1>13. CASE UNCHANGED vars
    BY <1>13 DEF vars
  <1> QED
    BY <1>1, <1>2, <1>3, <1>4, <1>5, <1>6, <1>7, <1>8, <1>9, <1>10, <1>11, <1>12, <1>13
       DEF Next, Service, Walk

\* Who takes a role away was commanded.
LEMMA SoleStep ==
    ASSUME IInv, [Next]_vars
    PROVE  SoleMasterKeepsRole'
  <1> USE DEF IInv, TypeOK, PacketsOfMasters, Masters, SoleMasterKeepsRole, node, history, Packets, Modes
  <1>1. ASSUME NEW n \in Nodes, NEW flags \in FlagSets, Command(n, flags)
        PROVE  SoleMasterKeepsRole'
    BY <1>1, ModeOfCommand DEF Command
  <1>2. ASSUME NEW n \in Nodes, WaitToken(n)
        PROVE  SoleMasterKeepsRole'
    BY <1>2 DEF WaitToken, EndWait
  <1>3. ASSUME NEW n \in Nodes, WaitTimeout(n)
        PROVE  SoleMasterKeepsRole'
    BY <1>3 DEF WaitTimeout, EndWait
  <1>4. ASSUME NEW n \in Nodes, Serve(n)
        PROVE  SoleMasterKeepsRole'
    <2>1. PICK p \in net : /\ p.dst = n
                           /\ sync_mode' = [sync_mode EXCEPT ![n] = "SLAVE"]
      BY <1>4 DEF Serve
    <2>2. p.src \in Masters /\ p.src # n
      BY <2>1
    <2>3. UNCHANGED <<commanded, raced>>
      BY <1>4 DEF Serve
    <2> QED
      BY <2>1, <2>2, <2>3
  <1>5. ASSUME NEW n \in Nodes, Wake(n)
        PROVE  SoleMasterKeepsRole'
    BY <1>5 DEF Wake
  <1>6. ASSUME NEW n \in Nodes, SendSelf(n)
        PROVE  SoleMasterKeepsRole'
    BY <1>6 DEF SendSelf, NextRoute
  <1>7. ASSUME NEW n \in Nodes, Send(n)
        PROVE  SoleMasterKeepsRole'
    BY <1>7 DEF Send, OpenTransaction, Packet
  <1>8. ASSUME NEW n \in Nodes, TxnAnswered(n)
        PROVE  SoleMasterKeepsRole'
    BY <1>8 DEF TxnAnswered, TakeResponse, NextRoute
  <1>9. ASSUME NEW n \in Nodes, TxnTimeout(n)
        PROVE  SoleMasterKeepsRole'
    BY <1>9 DEF TxnTimeout, NextRoute
  <1>10. ASSUME NEW n \in Nodes, Done(n)
        PROVE  SoleMasterKeepsRole'
    BY <1>10 DEF Done
  <1>11. ASSUME NEW n \in Nodes, Test(n)
        PROVE  SoleMasterKeepsRole'
    BY <1>11 DEF Test, CheckMaster, CheckStop, CheckSlave, Check
  <1>12. CASE Lose
    BY <1>12 DEF Lose
  <1>13. CASE UNCHANGED vars
    BY <1>13 DEF vars
  <1> QED
    BY <1>1, <1>2, <1>3, <1>4, <1>5, <1>6, <1>7, <1>8, <1>9, <1>10, <1>11, <1>12, <1>13
       DEF Next, Service, Walk

-----------------------------------------------------------------------------
(* Theorems.                                                               *)

\* The inductive invariant holds in every behaviour.
LEMMA Inductive == Spec => []IInv
  <1>1. Init => IInv
    BY RouteLength, BoundAssumption, ZeroIsNoNode
       DEF Init, IInv, TypeOK, NeverOwnMaster, ActiveWasCommanded, PacketsOfMasters,
           Masters, InPass, StartsClean, OneOpenTransaction, ResponsesWereServed,
           CleanPassReachedAll, SoleMasterKeepsRole, Modes
  <1>2. IInv /\ [Next]_vars => IInv'
    <2> SUFFICES ASSUME IInv, [Next]_vars PROVE IInv'
      OBVIOUS
    <2>1. TypeOK
      BY DEF IInv
    <2> QED
      BY <2>1, TypeStep, OwnerStep, ActiveStep, MasterPacketStep, StartStep,
         OpenStep, ServedStep,
         CleanStep, SoleStep DEF IInv
  <1> QED
    BY <1>1, <1>2, PTL DEF Spec

\* Every variable of the network keeps to its type.
THEOREM NetworkTypeCorrect == Spec => []TypeOK
  BY Inductive, PTL DEF IInv

\* timekeeper_csp_iterate and tk_sync_slaves: a pass that has no error so far was
\* served by every address it left behind, over any network that loses, delays
\* and reorders packets.
THEOREM CleanPassComplete == Spec => []CleanPassReachedAll
  BY Inductive, PTL DEF IInv

\* tk_sync_slaves_req does not send to the node itself, so no node is made its
\* own slave.
THEOREM NoOwnMaster == Spec => []NeverOwnMaster
  BY Inductive, PTL DEF IInv

\* timekeeper_main reads the master and twice the mode before it begins a pass: a
\* slave that is told anything becomes its own master, but takes the role from the
\* only node that was told to sync only when it is told between the two reads of
\* its mode.
THEOREM SoleMasterStays == Spec => []SoleMasterKeepsRole
  BY Inductive, PTL DEF IInv

-----------------------------------------------------------------------------
(* The nodes implement SyncService.                                        *)

\* What of a node the promise is about.
Facing(n) == <<pass[n], idx[n], err[n], call[n], finish_sem[n]>>

LEMMA PromiseRests ==
    ASSUME NEW n \in Nodes, UNCHANGED Facing(n)
    PROVE  UNCHANGED Promise(n)!vars
  BY DEF Facing, InPass, Promise!vars, Promise!walk, Promise!desk

\* A node's packet callback keeps the promise.
LEMMA CallbackKeeps ==
    ASSUME TypeOK, NEW n \in Nodes,
           \/ \E flags \in FlagSets : Command(n, flags)
           \/ WaitToken(n) \/ WaitTimeout(n) \/ Serve(n)
    PROVE  Kept(n)
  <1> USE DEF TypeOK, InPass, Promise!walk, Promise!desk, Promise!vars, history
  <1>1. ASSUME NEW flags \in FlagSets, Command(n, flags)
        PROVE  Kept(n)
    <2>1. CASE "WAIT" \in flags
      <3>1. Promise(n)!Ask(n)
        BY <1>1, <2>1 DEF Command, Promise!Ask
      <3> QED
        BY <3>1 DEF Kept, Promise!Next
    <2>2. CASE "WAIT" \notin flags
      <3>1. Promise(n)!Forget
        BY <1>1, <2>2 DEF Command, Promise!Forget
      <3> QED
        BY <3>1 DEF Kept, Promise!Next
    <2> QED
      BY <2>1, <2>2
  <1>2. CASE WaitToken(n)
    <2>1. Promise(n)!Told(n)
      BY <1>2 DEF WaitToken, EndWait, Promise!Told, Promise!Leave
    <2> QED
      BY <2>1 DEF Kept, Promise!Next
  <1>3. CASE WaitTimeout(n)
    <2>1. Promise(n)!GiveUp(n)
      BY <1>3 DEF WaitTimeout, EndWait, Promise!GiveUp, Promise!Leave
    <2> QED
      BY <2>1 DEF Kept, Promise!Next
  <1>4. CASE Serve(n)
    BY <1>4, PromiseRests DEF Serve, Facing, Kept
  <1> QED
    BY <1>1, <1>2, <1>3, <1>4

\* A node's service thread keeps the promise, whatever the network does to its
\* transaction.
LEMMA ServiceKeeps ==
    ASSUME TypeOK, StartsClean, NEW n \in Nodes, Service(n)
    PROVE  Kept(n)
  <1> USE DEF TypeOK, StartsClean, InPass, Promise!walk, Promise!desk, Promise!vars, history
  <1>1. CASE Wake(n)
    <2>1. Promise(n)!Wake
      BY <1>1 DEF Wake, Promise!Wake
    <2> QED
      BY <2>1 DEF Kept, Promise!Next
  <1>2. CASE SendSelf(n)
    <2>1. Promise(n)!Skip
      BY <1>2, RoutesAssumption, SMTT(30) DEF SendSelf, NextRoute, Promise!Skip
    <2> QED
      BY <2>1 DEF Kept, Promise!Next
  <1>3. CASE Send(n)
    <2>1. Promise(n)!Call
      BY <1>3, RoutesAssumption DEF Send, OpenTransaction, Promise!Call
    <2> QED
      BY <2>1 DEF Kept, Promise!Next
  <1>4. CASE TxnAnswered(n) \/ TxnTimeout(n)
    <2>1. Promise(n)!HangUp
      BY <1>4 DEF TxnAnswered, TakeResponse, TxnTimeout, NextRoute, Promise!HangUp
    <2> QED
      BY <2>1 DEF Kept, Promise!Next
  <1>5. CASE Done(n)
    <2>1. Promise(n)!End
      BY <1>5, RoutesAssumption DEF Done, Promise!End
    <2> QED
      BY <2>1 DEF Kept, Promise!Next
  <1>6. CASE Test(n)
    <2>1. UNCHANGED Promise(n)!vars \/ Promise(n)!Wake
      BY <1>6 DEF Test, CheckMaster, CheckStop, CheckSlave, Check, Promise!Wake
    <2> QED
      BY <2>1 DEF Kept, Promise!Next
  <1> QED
    BY <1>1, <1>2, <1>3, <1>4, <1>5, <1>6 DEF Service, Walk

\* No step of a node is seen in the promise of another.
LEMMA OthersRest ==
    ASSUME TypeOK, NEW n \in Nodes, NEW m \in Nodes \ {n},
           \/ \E flags \in FlagSets : Command(n, flags)
           \/ WaitToken(n) \/ WaitTimeout(n) \/ Serve(n) \/ Service(n)
    PROVE  Kept(m)
  <1>1. UNCHANGED Facing(m)
    <2> USE DEF TypeOK, Facing, EndWait, NextRoute
    <2>1. ASSUME NEW flags \in FlagSets, Command(n, flags)
          PROVE  UNCHANGED Facing(m)
      BY <2>1 DEF Command
    <2>2. CASE WaitToken(n) \/ WaitTimeout(n) \/ Serve(n)
      BY <2>2 DEF WaitToken, WaitTimeout, Serve
    <2>3. CASE Wake(n) \/ Test(n)
      BY <2>3 DEF Wake, Test, CheckMaster, CheckStop, CheckSlave, Check
    <2>4. CASE SendSelf(n)
      BY <2>4 DEF SendSelf
    <2>5. CASE Send(n)
      BY <2>5 DEF Send, OpenTransaction
    <2>6. CASE TxnAnswered(n) \/ TxnTimeout(n) \/ Done(n)
      BY <2>6 DEF TxnAnswered, TakeResponse, TxnTimeout, Done
    <2> QED
      BY <2>1, <2>2, <2>3, <2>4, <2>5, <2>6 DEF Service, Walk
  <1> QED
    BY <1>1, PromiseRests DEF Kept

\* Whatever a network that loses, delays and reorders packets does, and whatever
\* the other nodes do, each node does what SyncService promises: it goes to
\* every address of its table once and reports the failures, and its callback is
\* told of a pass that ended while it waited or gives up.
THEOREM EveryNodeKeepsPromise == Spec => NodesKeepPromise
  <1>1. Init => \A n \in Nodes : Promise(n)!Init
    BY DEF Init, InPass, Promise!Init
  <1>2. TypeOK /\ StartsClean /\ [Next]_vars => \A n \in Nodes : Kept(n)
    <2> SUFFICES ASSUME TypeOK, StartsClean, [Next]_vars, NEW m \in Nodes
                 PROVE  Kept(m)
      OBVIOUS
    <2>1. CASE Lose \/ UNCHANGED vars
      BY <2>1, PromiseRests DEF Lose, vars, node, Facing, Kept
    <2>2. ASSUME NEW n \in Nodes,
                 \/ \E flags \in FlagSets : Command(n, flags)
                 \/ WaitToken(n) \/ WaitTimeout(n) \/ Serve(n) \/ Service(n)
          PROVE  Kept(m)
      BY <2>2, CallbackKeeps, ServiceKeeps, OthersRest
    <2> QED
      BY <2>1, <2>2 DEF Next
  <1>3. Spec => [](TypeOK /\ StartsClean)
    BY Inductive, PTL DEF IInv
  <1> QED
    BY <1>1, <1>2, <1>3, PTL DEF Spec, NodesKeepPromise
=============================================================================
