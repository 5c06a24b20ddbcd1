--------------------------- MODULE TkClientProofs ---------------------------
(***************************************************************************)
(* Theorems about TkClient, for any consoles, any commands, any bound on   *)
(* their number and any timeouts.                                          *)
(***************************************************************************)
EXTENDS TkClient, FiniteSetTheorems, TLAPS

-----------------------------------------------------------------------------
(* The inductive invariant.                                                *)

Modes  == {"STOP", "ONCE", "CONTINUOUS", "SLAVE"}
Errors == {"NOERR", "ERR"}
Words  == {"nothing", "rejected", "no time", "failed", "done", "shown", "operation failed"}

\* The sets every variable is in.
Shapes ==
    /\ Cardinality(Typed) \in 0 .. MaxCommands
    /\ held \in Typed \cup {0}
    /\ txn \in [Consoles -> Typed \cup {0}] /\ left \in [Consoles -> Nat]
    /\ printed \in [Ids -> Words] /\ served \in [Ids -> 0 .. 2]
    /\ since = [i \in Ids |-> since[i]]
    /\ excused \subseteq Ids

\* What tk_time_sync_req lets through.
Passes(o) == o.op = "sync" => Accepted(o.flags)

\* A request is the one packet its console sent.
Request(i) == [kind |-> "REQ", id |-> i, ret |-> 0, says |-> <<>>]

RequestsWereSent ==
    \A p \in net : p.kind = "REQ" => p = Request(p.id) /\ Passes(order[p.id])

\* A console waits for a command whose outcome is open; a number that was not
\* given out has no outcome.
WaitsForOpen ==
    /\ \A c \in Consoles : txn[c] # 0 => printed[txn[c]] = "nothing"
    /\ \A i \in Ids \ Typed : printed[i] = "nothing" /\ served[i] = 0

\* A command is carried out when its request leaves the network.
ServedWhenGone ==
    /\ \A p \in net : served[p.id] = IF p.kind = "REQ" THEN 0 ELSE 1
    /\ held # 0 => served[held] = 1

\* What the node says now, what a response says and what the callback has read
\* of err was true since the command was typed, if that is open.
AnswersAreTrue ==
    /\ \A i \in Open : Claims(Report(order[i], Now)) \subseteq since[i]
    /\ \A p \in net : p.kind = "RSP" /\ p.id \in Open => Claims(p.says) \subseteq since[p.id]
    /\ held \in Open /\ got # "waiting" /\ "error" \in Printed(order[held])
          => <<"error", got>> \in since[held]

\* A command that has no excuse is on its way, answered in time, or carried out;
\* if it waits for a pass, its time and that of the callback go together.
OnItsWay(c) ==
    \/ Request(txn[c]) \in net /\ left[c] = Timeout(order[txn[c]].op)
    \/ /\ held = txn[c] /\ left[c] >= 1
       /\ got = "waiting" => left[c] + (MaxWait - heldLeft) >= SyncTimeout
    \/ left[c] >= 1 /\ \E p \in net : p.kind = "RSP" /\ p.id = txn[c]

InTime == \A c \in Consoles : txn[c] # 0 /\ txn[c] \notin excused => OnItsWay(c)

IInv == /\ TypeOK /\ Shapes /\ RequestsWereSent /\ WaitsForOpen
        /\ ServedWhenGone /\ SuccessMeansServedOnce
        /\ AnswersAreTrue /\ ShownWasTrue /\ InTime /\ FailsForAReason

-----------------------------------------------------------------------------
(* Lemmas about the operators.                                             *)

LEMMA TypedAreIds == ASSUME TypeOK, Shapes PROVE Typed \subseteq Ids
BY BoundAssumption DEF TypeOK, Shapes, Ids

\* The number of the next command is the first that was not given out.
LEMMA NewIdIsFresh ==
    ASSUME TypeOK, Shapes, NewId <= MaxCommands
    PROVE  /\ NewId \in Ids /\ NewId \notin Typed /\ NewId # 0 /\ NewId \in 0 .. MaxCommands
           /\ 1 .. NewId = Typed \cup {NewId} /\ Cardinality(1 .. NewId) = NewId
<1>1. Typed = 1 .. Cardinality(Typed) /\ Cardinality(Typed) \in Nat
  BY DEF TypeOK, Shapes
<1>2. NewId = Cardinality(Typed) + 1 /\ NewId \in Nat
  BY <1>1 DEF NewId
<1>3. Cardinality(1 .. NewId) = NewId
  BY <1>2, FS_Interval
<1>4. NewId \in Ids /\ NewId # 0 /\ NewId \in 0 .. MaxCommands
  BY <1>1, <1>2, BoundAssumption DEF Ids
<1>5. \A x : x \in 1 .. NewId <=> x \in 1 .. Cardinality(Typed) \/ x = NewId
  BY <1>1, <1>2
<1>6. NewId \notin 1 .. Cardinality(Typed)
  BY <1>1, <1>2
<1> QED  BY <1>1, <1>3, <1>4, <1>5, <1>6

\* The claims of an answer whose error was read before the rest.
LEMMA ReadBefore ==
    ASSUME NEW o, NEW e
    PROVE  \A x \in Claims(Report(o, [Now EXCEPT !.error = e])) :
              \/ x \in Claims(Report(o, Now))
              \/ x = <<"error", e>> /\ "error" \in Printed(o)
<1> DEFINE late == [Now EXCEPT !.error = e]
<1>1. ASSUME NEW f \in Printed(o) \ {"last_failed_node"}
      PROVE  \/ <<f, late[f]>> \in Claims(Report(o, Now))
             \/ f = "error" /\ late[f] = e
  <2>1. f \in {"clock", "error", "last_sync", "master_node", "mode"}
    BY DEF Printed
  <2>2. f # "error" => late[f] = Now[f]
    BY <2>1 DEF Now
  <2>3. f = "error" => late[f] = e
    BY <2>1 DEF Now
  <2>4. <<f, Now[f]>> \in Claims(Report(o, Now))
    BY DEF Claims, Report
  <2> QED  BY <2>2, <2>3, <2>4
<1>2. ASSUME NEW x \in Claims(Report(o, late))
      PROVE  \E f \in Printed(o) \ {"last_failed_node"} : x = <<f, late[f]>>
  BY <1>2 DEF Claims, Report
<1> HIDE DEF late
<1>3. \A x \in Claims(Report(o, late)) :
         \/ x \in Claims(Report(o, Now))
         \/ x = <<"error", e>> /\ "error" \in Printed(o)
  BY <1>1, <1>2
<1> QED  BY <1>3 DEF late

\* The error that is printed is among the claims.
LEMMA ErrorIsClaimed ==
    ASSUME NEW o, NEW answer, "error" \in Printed(o)
    PROVE  <<"error", answer.error>> \in Claims(Report(o, answer))
BY DEF Claims, Report

\* A response says what the node says of the command.
LEMMA ResponseSays ==
    ASSUME NEW id, NEW ret, NEW answer
    PROVE  /\ Response(id, ret, answer).kind = "RSP" /\ Response(id, ret, answer).id = id
           /\ Response(id, ret, answer).ret = ret
           /\ Response(id, ret, answer).says = Report(order[id], answer)
BY DEF Response

\* What typing a command does to the numbers and to the history.
LEMMA EnterAddsOne ==
    ASSUME TypeOK, Shapes, NEW c \in Consoles, NEW o \in Commands, Enter(c, o)
    PROVE  /\ Typed' = Typed \cup {NewId} /\ Typed' = 1 .. Cardinality(Typed')
           /\ Cardinality(Typed') = NewId
           /\ order'[NewId] = o /\ \A i \in Typed : order'[i] = order[i]
           /\ since'[NewId] = Claims(Report(o, Now)) /\ Now' = Now
           /\ \A i \in Typed : since'[i] = since[i]
           /\ since' = [i \in Ids |-> since'[i]]
<1>1. /\ NewId \in Ids /\ NewId \notin Typed
      /\ 1 .. NewId = Typed \cup {NewId} /\ Cardinality(1 .. NewId) = NewId
  BY NewIdIsFresh DEF Enter
<1>2. order' = [i \in 1 .. NewId |-> IF i = NewId THEN o ELSE order[i]]
  BY DEF Enter
<1>3. Typed' = 1 .. NewId
  BY <1>2 DEF Typed
<1>4. Typed' = Typed \cup {NewId} /\ Typed' = 1 .. Cardinality(Typed') /\ Cardinality(Typed') = NewId
  BY <1>1, <1>3
<1>5. order'[NewId] = o /\ \A i \in Typed : order'[i] = order[i]
  BY <1>1, <1>2
<1>6. since' = [since EXCEPT ![NewId] = Claims(Report(o, Now))] /\ since = [i \in Ids |-> since[i]]
  BY DEF Enter, Shapes
<1>7. Now' = Now
  BY DEF Enter, Now, node, tk_data
<1>8. Typed \subseteq Ids
  BY TypedAreIds
<1>9. since' = [i \in Ids |-> IF i = NewId THEN Claims(Report(o, Now)) ELSE since[i]]
  BY <1>6
<1>10. since'[NewId] = Claims(Report(o, Now)) /\ \A i \in Typed : since'[i] = since[i]
  BY <1>1, <1>8, <1>9
<1>11. since' = [i \in Ids |-> since'[i]]
  BY <1>9
<1> QED  BY <1>4, <1>5, <1>7, <1>10, <1>11

\* Nothing is forgotten, and open commands see what is now so.
Recorded ==
    /\ since' = [i \in Ids |-> since'[i]]
    /\ \A i \in Ids : since[i] \subseteq since'[i]
    /\ \A i \in Open : Claims(Report(order[i], Now')) \subseteq since'[i]

LEMMA SawRecords == ASSUME TypeOK, Shapes, Saw PROVE Recorded
<1>1. Typed \subseteq Ids /\ Open \subseteq Typed
  BY TypedAreIds DEF Open, Typed
<1>2. since' = [i \in Ids |-> IF i \in Open THEN since[i] \cup Claims(Report(order[i], Now'))
                             ELSE since[i]]
  BY DEF Saw
<1> HIDE DEF Open
<1> QED  BY <1>1, <1>2 DEF Recorded

\* Where nothing that is said has changed, there is nothing to record.
LEMMA SameRecords ==
    ASSUME Shapes, AnswersAreTrue, since' = since, Now' = Now
    PROVE  Recorded
BY DEF Shapes, AnswersAreTrue, Recorded

\* The print of a response is one of three.
LEMMA VerdictIsAWord ==
    ASSUME NEW o \in Commands, NEW ret
    PROVE  Verdict(o, ret) \in {"done", "shown", "operation failed"}
<1>1. o.op \in {"set", "get", "sync"}
  BY DEF Commands
<1> QED  BY <1>1 DEF Verdict, SetVerdict, GetVerdict, SyncVerdict

LEMMA TimeoutIsPositive ==
    \A op : Timeout(op) \in Nat /\ Timeout(op) >= 1
BY TimeoutAssumption DEF Timeout

\* A request that is served is the only packet of its command, and the command
\* was not carried out before.
LEMMA ServedOnce ==
    ASSUME IInv, NEW p \in net, Serve(p)
    PROVE  /\ p = Request(p.id) /\ Passes(order[p.id]) /\ p.id \in Typed /\ p.id \in Ids
           /\ p.id # 0 /\ order[p.id] \in Commands
           /\ served[p.id] = 0 /\ served' = [served EXCEPT ![p.id] = 1]
           /\ \A q \in net \ {p} : q.id # p.id
<1>1. p.kind = "REQ" /\ served' = [served EXCEPT ![p.id] = IF @ = 0 THEN 1 ELSE 2]
  BY DEF Serve
<1>2. p = Request(p.id) /\ Passes(order[p.id])
  BY <1>1 DEF IInv, RequestsWereSent
<1>3. p.id \in Typed /\ p.id \in Ids /\ p.id # 0 /\ order[p.id] \in Commands
  BY TypedAreIds, BoundAssumption DEF IInv, TypeOK, Ids
<1>4. served[p.id] = 0
  BY <1>1 DEF IInv, ServedWhenGone
<1>5. served' = [served EXCEPT ![p.id] = 1]
  BY <1>1, <1>3, <1>4 DEF IInv, Shapes
<1>6. ASSUME NEW q \in net, q.id = p.id PROVE q = p
  <2>1. q.kind = "REQ"
    BY <1>4, <1>6 DEF IInv, ServedWhenGone
  <2>2. q = Request(q.id)
    BY <2>1 DEF IInv, RequestsWereSent
  <2> QED  BY <1>2, <1>6, <2>2
<1> QED  BY <1>2, <1>3, <1>4, <1>5, <1>6

-----------------------------------------------------------------------------
(* What every step keeps, one lemma per action.                            *)

\* A step that leaves the commands typed and their numbers alone keeps the part
\* of TypeOK about them.
LEMMA SameOrder ==
    ASSUME TypeOK, Shapes, order' = order
    PROVE  /\ Typed' = Typed /\ Typed' = 1 .. Cardinality(Typed')
           /\ \A i \in Typed' : order'[i] \in Commands
           /\ Cardinality(Typed') \in 0 .. MaxCommands
BY DEF TypeOK, Shapes, Typed

LEMMA OpenIsTyped ==
    ASSUME TypeOK, Shapes
    PROVE  Open \subseteq Typed /\ \A i : i \in Open <=> i \in Typed /\ printed[i] = "nothing"
BY DEF Open, Typed

\* The request of a command.
LEMMA SubmitKeeps ==
    ASSUME IInv, NEW c \in Consoles, NEW o \in Commands, Submit(c, o), Passes(o)
    PROVE  IInv'
<1> USE DEF IInv
<1>a. /\ Enter(c, o) /\ txn[c] = 0 /\ NewId <= MaxCommands
      /\ txn' = [txn EXCEPT ![c] = NewId]
      /\ left' = [left EXCEPT ![c] = Timeout(o.op)]
      /\ net' = net \cup {Request(NewId)} /\ printed' = printed
      /\ UNCHANGED <<clock, mode, err, master_node, last_sync, pass, finish_sem, held, got,
                     heldLeft, served, took, wrong, excused>>
  BY DEF Submit, Enter, Request, node, tk_data, calls
<1>b. /\ NewId \in Ids /\ NewId \notin Typed /\ NewId # 0 /\ Typed \subseteq Ids
      /\ Cardinality(1 .. NewId) = NewId
  BY <1>a, NewIdIsFresh, TypedAreIds
<1>c. /\ Typed' = Typed \cup {NewId} /\ Typed' = 1 .. Cardinality(Typed')
      /\ Cardinality(Typed') = NewId
      /\ order'[NewId] = o /\ \A i \in Typed : order'[i] = order[i]
      /\ since'[NewId] = Claims(Report(o, Now)) /\ Now' = Now
      /\ \A i \in Typed : since'[i] = since[i]
      /\ since' = [i \in Ids |-> since'[i]]
  BY <1>a, EnterAddsOne
<1>d. Timeout(o.op) \in Nat /\ Timeout(o.op) >= 1
  BY TimeoutIsPositive
<1>e. /\ \A p \in net : p.id \in Typed
      /\ \A d \in Consoles : txn[d] \in Typed \cup {0} /\ left[d] \in Nat
      /\ \A d \in Consoles : IF d = c THEN txn'[d] = NewId /\ left'[d] = Timeout(o.op)
                             ELSE txn'[d] = txn[d] /\ left'[d] = left[d]
  BY <1>a DEF TypeOK, Shapes
<1>f. Request(NewId).kind = "REQ" /\ Request(NewId).id = NewId /\ Request(NewId).ret = 0
  BY DEF Request
<1>g. \A i \in Open' : i = NewId \/ (i \in Open /\ i \in Typed)
  <2>1. \A i \in Open' : i \in Typed' /\ printed'[i] = "nothing"
    BY DEF Open, Typed
  <2>2. \A i \in Typed : printed[i] = "nothing" => i \in Open
    BY OpenIsTyped
  <2>3. Typed' = Typed \cup {NewId} /\ printed' = printed
    BY <1>a, <1>c
  <2> QED  BY <2>1, <2>2, <2>3
<1>1. TypeOK'
  <2>1. \A i \in Typed' : order'[i] \in Commands
    BY <1>c DEF TypeOK
  <2>2. \A p \in net' : p.kind \in {"REQ", "RSP"} /\ p.id \in Typed' /\ p.ret \in {0, 1}
    BY <1>a, <1>c, <1>f DEF TypeOK
  <2>3. \A d \in Consoles : txn'[d] \in Typed' \cup {0} /\ left'[d] \in Nat
    BY <1>c, <1>d, <1>e
  <2>4. \A d, e \in Consoles : txn'[d] = txn'[e] /\ txn'[d] # 0 => d = e
    BY <1>b, <1>e DEF TypeOK
  <2> QED  BY <1>a, <1>c, <2>1, <2>2, <2>3, <2>4 DEF TypeOK
<1>2. Shapes'
  <2>1. Cardinality(Typed') \in 0 .. MaxCommands
    BY <1>a, <1>c, NewIdIsFresh
  <2>2. held' \in Typed' \cup {0}
    BY <1>a, <1>c DEF Shapes
  <2>3. txn' \in [Consoles -> Typed' \cup {0}] /\ left' \in [Consoles -> Nat]
    BY <1>a, <1>c, <1>d DEF Shapes
  <2> QED  BY <1>a, <1>c, <2>1, <2>2, <2>3 DEF Shapes
<1>3. RequestsWereSent'
  <2>1. ASSUME NEW p \in net', p.kind = "REQ" PROVE p = Request(p.id) /\ Passes(order'[p.id])
    <3>1. CASE p \in net
      BY <2>1, <3>1, <1>c, <1>e DEF RequestsWereSent
    <3>2. CASE p = Request(NewId)
      BY <3>2, <1>c, <1>f
    <3> QED  BY <3>1, <3>2, <1>a
  <2> QED  BY <2>1 DEF RequestsWereSent, Request, Passes
<1>4. WaitsForOpen'
  BY <1>a, <1>b, <1>c, <1>e DEF WaitsForOpen
<1>5. ServedWhenGone'
  BY <1>a, <1>b, <1>f DEF ServedWhenGone, WaitsForOpen
<1>6. SuccessMeansServedOnce'
  BY <1>a DEF SuccessMeansServedOnce
<1>7. AnswersAreTrue'
  <2>1. \A i \in Open' : Claims(Report(order'[i], Now')) \subseteq since'[i]
    BY <1>c, <1>g DEF AnswersAreTrue
  <2>2. \A p \in net' : p.kind = "RSP" /\ p.id \in Open' => Claims(p.says) \subseteq since'[p.id]
    BY <1>a, <1>b, <1>c, <1>e, <1>f, <1>g, SMTT(30) DEF AnswersAreTrue
  <2>3. held' \in Open' /\ got' # "waiting" /\ "error" \in Printed(order'[held'])
           => <<"error", got'>> \in since'[held']
    <3>1. held # NewId
      BY <1>b DEF Shapes
    <3> QED  BY <1>a, <1>c, <1>g, <3>1 DEF AnswersAreTrue
  <2> QED  BY <2>1, <2>2, <2>3 DEF AnswersAreTrue
<1>8. ShownWasTrue'
  BY <1>a DEF ShownWasTrue
<1>9. InTime'
  <2>1. ASSUME NEW d \in Consoles, txn'[d] # 0, txn'[d] \notin excused' PROVE OnItsWay(d)'
    <3>1. CASE d = c
      BY <3>1, <1>a, <1>c, <1>e DEF OnItsWay, Request, Timeout
    <3>2. CASE d # c
      <4>1. OnItsWay(d) /\ txn[d] \in Typed
        BY <3>2, <2>1, <1>a, <1>e DEF InTime
      <4>2. order'[txn'[d]] = order[txn[d]] /\ left'[d] = left[d] /\ txn'[d] = txn[d]
        BY <3>2, <4>1, <1>c, <1>e
      <4>3. net \subseteq net'
        BY <1>a
      <4> QED  BY <1>a, <4>1, <4>2, <4>3 DEF OnItsWay, Request, Timeout
    <3> QED  BY <3>1, <3>2
  <2> QED  BY <2>1 DEF InTime
<1>10. FailsForAReason'
  BY <1>a DEF FailsForAReason
<1> QED  BY <1>1, <1>2, <1>3, <1>4, <1>5, <1>6, <1>7, <1>8, <1>9, <1>10

\* A combination of flags that tk_time_sync_req turns down, or a clock of the
\* console that cannot be read.
LEMMA RefuseKeeps ==
    ASSUME IInv, NEW c \in Consoles, NEW o \in Commands,
           NEW word \in {"rejected", "no time"}, Refuse(c, o, word)
    PROVE  IInv'
<1> USE DEF IInv
<1>a. /\ Enter(c, o) /\ NewId <= MaxCommands
      /\ printed' = [printed EXCEPT ![NewId] = word]
      /\ UNCHANGED <<clock, mode, err, master_node, last_sync, pass, finish_sem, held, got,
                     heldLeft, net, txn, left, served, took, wrong, excused>>
  BY DEF Refuse, Enter, node, tk_data, calls
<1>b. /\ NewId \in Ids /\ NewId \notin Typed /\ NewId # 0 /\ Typed \subseteq Ids
      /\ Cardinality(1 .. NewId) = NewId
  BY <1>a, NewIdIsFresh, TypedAreIds
<1>c. /\ Typed' = Typed \cup {NewId} /\ Typed' = 1 .. Cardinality(Typed')
      /\ Cardinality(Typed') = NewId
      /\ order'[NewId] = o /\ \A i \in Typed : order'[i] = order[i]
      /\ Now' = Now /\ \A i \in Typed : since'[i] = since[i]
      /\ since' = [i \in Ids |-> since'[i]]
  BY <1>a, EnterAddsOne
<1>d. /\ printed' \in [Ids -> Words] /\ printed'[NewId] = word
      /\ \A i \in Ids : i # NewId => printed'[i] = printed[i]
      /\ \A i \in Typed : printed'[i] = printed[i]
  BY <1>a, <1>b DEF Shapes, Words
<1>e. /\ \A p \in net : p.id \in Typed
      /\ \A d \in Consoles : txn[d] \in Typed \cup {0}
  BY DEF TypeOK
<1>f. Open' = Open /\ Open \subseteq Typed
  BY <1>c, <1>d DEF Open, Typed
<1>1. TypeOK'
  <2>1. \A i \in Typed' : order'[i] \in Commands
    BY <1>c DEF TypeOK
  <2> QED  BY <1>a, <1>c, <2>1 DEF TypeOK
<1>2. Shapes'
  <2>1. Cardinality(Typed') \in 0 .. MaxCommands
    BY <1>a, <1>c, NewIdIsFresh
  <2>2. held' \in Typed' \cup {0} /\ txn' \in [Consoles -> Typed' \cup {0}]
    BY <1>a, <1>c DEF Shapes
  <2> QED  BY <1>a, <1>c, <1>d, <2>1, <2>2 DEF Shapes
<1>3. RequestsWereSent'
  BY <1>a, <1>c, <1>e DEF RequestsWereSent, Request, Passes
<1>4. WaitsForOpen'
  BY <1>a, <1>b, <1>c, <1>d, <1>e DEF WaitsForOpen
<1>5. ServedWhenGone'
  BY <1>a DEF ServedWhenGone
<1>6. SuccessMeansServedOnce'
  BY <1>a, <1>b, <1>d DEF SuccessMeansServedOnce
<1>7. AnswersAreTrue'
  BY <1>a, <1>c, <1>e, <1>f DEF AnswersAreTrue
<1>8. ShownWasTrue'
  BY <1>a DEF ShownWasTrue
<1>9. InTime'
  <2>1. ASSUME NEW d \in Consoles, txn'[d] # 0, txn'[d] \notin excused' PROVE OnItsWay(d)'
    <3>1. OnItsWay(d) /\ order'[txn'[d]] = order[txn[d]]
      BY <2>1, <1>a, <1>c, <1>e DEF InTime
    <3> QED  BY <3>1, <1>a DEF OnItsWay, Request, Timeout
  <2> QED  BY <2>1 DEF InTime
<1>10. FailsForAReason'
  BY <1>a, <1>b, <1>d DEF FailsForAReason
<1> QED  BY <1>1, <1>2, <1>3, <1>4, <1>5, <1>6, <1>7, <1>8, <1>9, <1>10

\* What a command that has its outcome leaves: its console is free, and nothing
\* that is said of the commands still open has changed.
LEMMA ReturnKeeps ==
    ASSUME IInv, NEW c \in Consoles, NEW word \in Words \ {"nothing", "rejected", "no time"},
           Return(c, word), net' \subseteq net, \A p \in net \ net' : p.id = txn[c],
           wrong' = {}, word \in {"done", "shown"} => served[txn[c]] = 1,
           word = "failed" => txn[c] \in excused
    PROVE  IInv'
<1> USE DEF IInv
<1> DEFINE id == txn[c]
<1>a. /\ id # 0 /\ txn' = [txn EXCEPT ![c] = 0] /\ left' = [left EXCEPT ![c] = 0]
      /\ printed' = [printed EXCEPT ![id] = word]
      /\ since' = [since EXCEPT ![id] = {}]
      /\ UNCHANGED <<clock, mode, err, master_node, last_sync, pass, finish_sem, held, got,
                     heldLeft, order, served, took, excused>>
  BY DEF Return, node, tk_data, calls
<1>b. id \in Typed /\ id \in Ids /\ printed[id] = "nothing"
  BY <1>a, TypedAreIds DEF TypeOK, WaitsForOpen
<1>d. /\ printed' \in [Ids -> Words] /\ printed'[id] = word
      /\ \A i \in Ids : i # id => printed'[i] = printed[i]
  BY <1>a, <1>b DEF Shapes
<1>e. \A d \in Consoles : IF d = c THEN txn'[d] = 0
                          ELSE txn'[d] = txn[d] /\ txn[d] \in Typed \cup {0} /\ left'[d] = left[d]
  BY <1>a DEF TypeOK, Shapes
<1>f. /\ \A d, e \in Consoles : txn[d] = txn[e] /\ txn[d] # 0 => d = e
      /\ \A d \in Consoles : txn'[d] # 0 => d # c /\ txn'[d] # id
  <2>1. \A d, e \in Consoles : txn[d] = txn[e] /\ txn[d] # 0 => d = e
    BY DEF TypeOK
  <2> QED  BY <1>e, <2>1
<1>g. Typed' = Typed /\ Now' = Now
  BY <1>a DEF Typed, Now
<1>h. /\ since' = [i \in Ids |-> since'[i]]
      /\ \A i \in Open' : i \in Open /\ i \in Ids /\ since'[i] = since[i] /\ order'[i] = order[i]
  <2>1. since' = [i \in Ids |-> IF i = id THEN {} ELSE since[i]]
    BY <1>a DEF Shapes
  <2>2. \A i \in Open' : i \in Open /\ i # id /\ i \in Ids
    BY <1>a, <1>b, <1>d, TypedAreIds DEF Open, Typed
  <2> QED  BY <1>a, <2>1, <2>2
<1> HIDE DEF id
<1>1. TypeOK'
  <2>1. \A d \in Consoles : txn'[d] \in Typed' \cup {0} /\ left'[d] \in Nat
    BY <1>a, <1>e, <1>g DEF Shapes
  <2>2. \A d, e \in Consoles : txn'[d] = txn'[e] /\ txn'[d] # 0 => d = e
    BY <1>e, <1>f
  <2>3. \A p \in net' : p.kind \in {"REQ", "RSP"} /\ p.id \in Typed' /\ p.ret \in {0, 1}
    BY <1>g DEF TypeOK
  <2> QED  BY <1>a, <2>1, <2>2, <2>3, SameOrder DEF TypeOK
<1>2. Shapes'
  <2>1. txn' \in [Consoles -> Typed \cup {0}] /\ left' \in [Consoles -> Nat]
    BY <1>a DEF Shapes
  <2> QED  BY <1>a, <1>d, <1>g, <1>h, <2>1, SameOrder DEF Shapes
<1>3. RequestsWereSent'
  BY <1>a DEF RequestsWereSent, Request, Passes
<1>4. WaitsForOpen'
  <2>1. ASSUME NEW d \in Consoles, txn'[d] # 0 PROVE printed'[txn'[d]] = "nothing"
    <3>1. txn'[d] = txn[d] /\ txn[d] \in Ids /\ txn[d] # id /\ printed[txn[d]] = "nothing"
      BY <2>1, <1>e, <1>f, TypedAreIds DEF WaitsForOpen
    <3> QED  BY <3>1, <1>d
  <2> QED  BY <1>a, <1>b, <1>d, <1>g, <2>1 DEF WaitsForOpen
<1>5. ServedWhenGone'
  BY <1>a DEF ServedWhenGone
<1>6. SuccessMeansServedOnce'
  BY <1>a, <1>d DEF SuccessMeansServedOnce, id
<1>7. AnswersAreTrue'
  BY <1>a, <1>g, <1>h DEF AnswersAreTrue
<1>8. ShownWasTrue'
  BY DEF ShownWasTrue
<1>9. InTime'
  <2>1. ASSUME NEW d \in Consoles, txn'[d] # 0, txn'[d] \notin excused' PROVE OnItsWay(d)'
    <3>1. txn'[d] = txn[d] /\ txn[d] # id /\ left'[d] = left[d]
      BY <2>1, <1>e, <1>f
    <3>5. excused' = excused
      BY <1>a
    <3>3. txn[d] # 0 /\ txn[d] \notin excused
      BY <2>1, <3>1, <3>5
    <3>4. OnItsWay(d)
      BY <3>3 DEF InTime
    <3>2. \A q \in net : q.id = txn[d] => q \in net'
      BY <3>1 DEF id
    <3> QED  BY <3>1, <3>2, <3>4, <1>a DEF OnItsWay, Request, Timeout
  <2> QED  BY <2>1 DEF InTime
<1>10. FailsForAReason'
  BY <1>a, <1>d DEF FailsForAReason, id
<1> QED  BY <1>1, <1>2, <1>3, <1>4, <1>5, <1>6, <1>7, <1>8, <1>9, <1>10

\* The response of the console's own command, in time.
LEMMA TakeResponseKeeps ==
    ASSUME IInv, NEW c \in Consoles, TakeResponse(c)
    PROVE  IInv'
<1> USE DEF IInv
<1>1. PICK p \in net : p.id = txn[c] /\ Take(c, p)
  BY DEF TakeResponse
<1> DEFINE word == Verdict(order[txn[c]], p.ret)
<1>2. /\ p.kind = "RSP" /\ net' = net \ {p} /\ Return(c, word)
      /\ wrong' = IF word = "shown" THEN wrong \cup (Claims(p.says) \ since[txn[c]]) ELSE wrong
  BY <1>1 DEF Take
<1>3. p.id \in Typed /\ order[p.id] \in Commands
  BY DEF TypeOK
<1>4. word \in {"done", "shown", "operation failed"}
  BY <1>1, <1>3, VerdictIsAWord
<1>5. served[txn[c]] = 1
  BY <1>1, <1>2 DEF ServedWhenGone
<1>6. p.id \in Open
  BY <1>1, <1>2, <1>3, OpenIsTyped DEF WaitsForOpen, Return
<1>7. wrong' = {}
  BY <1>1, <1>2, <1>6 DEF AnswersAreTrue, ShownWasTrue
<1> HIDE DEF word
<1> QED  BY <1>1, <1>2, <1>4, <1>5, <1>7, ReturnKeeps DEF Words

\* The timeout of a transaction: a command without an excuse does not meet it.
LEMMA GiveUpKeeps ==
    ASSUME IInv, NEW c \in Consoles, GiveUp(c)
    PROVE  IInv'
<1> USE DEF IInv
<1>1. Return(c, "failed") /\ left[c] = 0 /\ net' = net /\ wrong' = {} /\ txn[c] # 0
  BY DEF GiveUp, Fails, Return, ShownWasTrue
<1>2. ~OnItsWay(c)
  BY <1>1, TimeoutIsPositive DEF OnItsWay, TypeOK
<1>3. txn[c] \in excused
  BY <1>1, <1>2 DEF InTime
<1> QED  BY <1>1, <1>3, ReturnKeeps DEF Words

\* The node's part of TypeOK.
NodeTyped ==
    /\ clock \in -1 .. MaxCommands /\ mode \in Modes /\ err \in Errors
    /\ master_node \in {0, 1} /\ last_sync \in -1 .. MaxCommands
    /\ pass \in {"idle", "stop", "slave", "walk"} /\ got \in {"waiting"} \cup Errors
    /\ finish_sem \in {0, 1} /\ heldLeft \in 0 .. MaxWait

LEMMA NodeIsTyped == TypeOK => NodeTyped
BY DEF TypeOK, NodeTyped, Modes, Errors

\* A step after which a packet is an old one or a response of which the command
\* that it answers knows.
Answered ==
    \A p \in net' : \/ p \in net
                    \/ /\ p.kind = "RSP" /\ p.ret \in {0, 1} /\ p.id \in Typed
                       /\ p.id \in Open => Claims(p.says) \subseteq since'[p.id]

\* A step of the node, of the network or of time, that gives no command its
\* outcome: what is left to show is where the request, the callback and the
\* response are.
LEMMA NodeKeeps ==
    ASSUME IInv, NodeTyped', Recorded, Answered, ServedWhenGone',
           UNCHANGED <<order, txn, printed, wrong>>,
           left' \in [Consoles -> Nat], excused \subseteq excused', excused' \subseteq Ids,
           held' \in Typed \cup {0},
           held' \in Open /\ got' # "waiting" /\ "error" \in Printed(order[held'])
              => <<"error", got'>> \in since'[held'],
           \/ served' = served
           \/ \E i \in Typed : served[i] = 0 /\ served' = [served EXCEPT ![i] = 1],
           \A d \in Consoles :
              txn[d] # 0 /\ txn[d] \notin excused' /\ OnItsWay(d) => OnItsWay(d)'
    PROVE  IInv'
<1> USE DEF IInv
<1>a. Typed' = Typed /\ Typed \subseteq Ids /\ Open' = Open
  BY TypedAreIds DEF Typed, Open
<1>b. /\ served' \in [Ids -> 0 .. 2]
      /\ \A i \in Ids : served'[i] = served[i] \/ (served[i] = 0 /\ served'[i] = 1 /\ i \in Typed)
  <2>1. served \in [Ids -> 0 .. 2]
    BY DEF Shapes
  <2>2. CASE served' = served
    BY <2>1, <2>2
  <2>3. CASE \E i \in Typed : served[i] = 0 /\ served' = [served EXCEPT ![i] = 1]
    BY <2>1, <2>3, <1>a
  <2> QED  BY <2>2, <2>3
<1>1. TypeOK'
  <2>1. \A p \in net' : p.kind \in {"REQ", "RSP"} /\ p.id \in Typed' /\ p.ret \in {0, 1}
    BY <1>a DEF Answered, TypeOK
  <2>2. held' \in 0 .. MaxCommands
    BY <1>a, BoundAssumption DEF Ids
  <2>3. \A d \in Consoles : txn'[d] \in Typed' \cup {0} /\ left'[d] \in Nat
    BY <1>a DEF TypeOK
  <2>4. \A d, e \in Consoles : txn'[d] = txn'[e] /\ txn'[d] # 0 => d = e
    BY DEF TypeOK
  <2> QED  BY <2>1, <2>2, <2>3, <2>4, SameOrder DEF TypeOK, NodeTyped, Modes, Errors
<1>2. Shapes'
  BY <1>a, <1>b, SameOrder DEF Shapes, Recorded
<1>3. RequestsWereSent'
  <2>1. \A p \in net' : p.kind = "REQ" => p \in net
    BY DEF Answered
  <2> QED  BY <2>1 DEF RequestsWereSent, Request, Passes
<1>4. WaitsForOpen'
  BY <1>a, <1>b DEF WaitsForOpen
<1>5. SuccessMeansServedOnce'
  BY <1>b DEF SuccessMeansServedOnce
<1>6. AnswersAreTrue'
  <2>1. \A p \in net' : p.kind = "RSP" /\ p.id \in Open => Claims(p.says) \subseteq since'[p.id]
    BY <1>a DEF Answered, AnswersAreTrue, Recorded, TypeOK
  <2> QED  BY <1>a, <2>1 DEF AnswersAreTrue, Recorded
<1>7. ShownWasTrue'
  BY DEF ShownWasTrue
<1>8. InTime'
  BY DEF InTime
<1>9. FailsForAReason'
  BY DEF FailsForAReason
<1> QED  BY <1>1, <1>2, <1>3, <1>4, <1>5, <1>6, <1>7, <1>8, <1>9

\* A step that carries a command out and answers it at once.
LEMMA AnswerKeeps ==
    ASSUME IInv, NEW p \in net, Serve(p), NEW ret \in {0, 1},
           net' = (net \ {p}) \cup {Response(p.id, ret, Now)},
           NodeTyped', Recorded,
           p.id \in Open => Claims(Report(order[p.id], Now)) \subseteq since'[p.id],
           UNCHANGED <<held, got, heldLeft, order, txn, left, printed, wrong, excused>>
    PROVE  IInv'
<1> USE DEF IInv
<1> DEFINE id == p.id
           q == Response(id, ret, Now)
<1>a. /\ p = Request(id) /\ id \in Typed /\ id \in Ids /\ id # 0
      /\ served[id] = 0 /\ served' = [served EXCEPT ![id] = 1]
      /\ \A r \in net \ {p} : r.id # id
      /\ held = 0
  BY ServedOnce DEF Serve
<1>b. /\ q.kind = "RSP" /\ q.id = id /\ q.ret = ret /\ q.says = Report(order[id], Now)
      /\ net' = (net \ {p}) \cup {q}
  BY ResponseSays
<1>c. served'[id] = 1 /\ \A i \in Ids : i # id => served'[i] = served[i]
  BY <1>a DEF Shapes
<1>d. \A r \in net : r.id \in Ids
  BY TypedAreIds DEF TypeOK
<1> HIDE DEF id, q
<1>1. Answered
  <2>1. q.id \in Open => Claims(q.says) \subseteq since'[q.id]
    BY <1>b DEF id
  <2> QED  BY <1>a, <1>b, <2>1 DEF Answered
<1>2. ServedWhenGone'
  BY <1>a, <1>b, <1>c, <1>d DEF ServedWhenGone
<1>3. ASSUME NEW d \in Consoles, OnItsWay(d), txn[d] # 0 PROVE OnItsWay(d)'
  <2>1. CASE txn[d] = id
    <3>1. left[d] >= 1
      BY <1>a, <1>3, <2>1, TimeoutIsPositive DEF OnItsWay
    <3> QED  BY <3>1, <1>b, <2>1 DEF OnItsWay
  <2>2. CASE txn[d] # id
    <3>1. \A r \in net : r.id = txn[d] => r \in net'
      BY <1>b, <2>2 DEF id
    <3> QED  BY <1>a, <1>3, <2>2, <3>1 DEF OnItsWay, Request, Timeout
  <2> QED  BY <2>1, <2>2
<1>4. held' \in Typed \cup {0} /\ held' \notin Open
  <2>1. 0 \notin Typed
    BY TypedAreIds, BoundAssumption DEF Ids
  <2> QED  BY <1>a, <2>1, OpenIsTyped
<1>5. left' \in [Consoles -> Nat] /\ excused' \subseteq Ids
  BY DEF Shapes
<1> QED  BY <1>1, <1>2, <1>3, <1>4, <1>5, <1>a, NodeKeeps

\* tk_set_time: the response says nothing that is printed.
LEMMA ServeSetKeeps ==
    ASSUME IInv, NEW p \in net, ServeSet(p)
    PROVE  IInv'
<1> USE DEF IInv
<1>1. /\ Serve(p) /\ order[p.id].op = "set" /\ Saw
      /\ UNCHANGED <<mode, err, master_node, last_sync, pass, finish_sem, held, got,
                     heldLeft, order, txn, left, printed, wrong, excused>>
  BY DEF ServeSet, tk_data, calls, console
<1>2. p.id \in Ids
  BY <1>1, ServedOnce
<1>3. PICK ret \in {0, 1} : net' = (net \ {p}) \cup {Response(p.id, ret, Now)}
  BY DEF ServeSet, Answer
<1>4. clock' \in -1 .. MaxCommands
  BY <1>2, BoundAssumption DEF ServeSet, TypeOK, Ids
<1>5. NodeTyped'
  BY <1>1, <1>4, NodeIsTyped DEF NodeTyped
<1>6. Recorded
  BY <1>1, SawRecords
<1>7. Claims(Report(order[p.id], Now)) = {}
  BY <1>1 DEF Claims, Report, Printed
<1> QED  BY <1>1, <1>3, <1>5, <1>6, <1>7, AnswerKeeps

LEMMA ServeGetKeeps ==
    ASSUME IInv, NEW p \in net, ServeGet(p)
    PROVE  IInv'
<1> USE DEF IInv
<1>1. /\ Serve(p) /\ net' = (net \ {p}) \cup {Response(p.id, 0, Now)} /\ since' = since
      /\ UNCHANGED <<clock, mode, err, master_node, last_sync, pass, finish_sem, held, got,
                     heldLeft, order, txn, left, printed, wrong, excused>>
  BY DEF ServeGet, Answer, node, tk_data, calls, console
<1>2. NodeTyped'
  BY <1>1, NodeIsTyped DEF NodeTyped
<1>3. Now' = Now
  BY <1>1 DEF Now
<1>4. Recorded
  BY <1>1, <1>3, SameRecords
<1>5. p.id \in Open => Claims(Report(order[p.id], Now)) \subseteq since'[p.id]
  BY <1>1 DEF AnswersAreTrue
<1> QED  BY <1>1, <1>2, <1>4, <1>5, AnswerKeeps

\* A step that carries a command out whose answer comes later: either err has been
\* read, or the wait begins, with all of the timeout still left.
LEMMA HoldKeeps ==
    ASSUME IInv, NEW p \in net, Serve(p), order[p.id].op = "sync",
           net' = net \ {p}, held' = p.id, NodeTyped', Recorded, err' = err,
           got' = err \/ (got' = "waiting" /\ heldLeft' = MaxWait),
           UNCHANGED <<order, txn, left, printed, wrong, excused>>
    PROVE  IInv'
<1> USE DEF IInv
<1> DEFINE id == p.id
<1>a. /\ p = Request(id) /\ id \in Typed /\ id \in Ids /\ id # 0
      /\ served[id] = 0 /\ served' = [served EXCEPT ![id] = 1]
      /\ \A r \in net \ {p} : r.id # id
      /\ held = 0
  BY ServedOnce DEF Serve
<1>b. served'[id] = 1 /\ \A i \in Ids : i # id => served'[i] = served[i]
  BY <1>a DEF Shapes
<1>c. \A r \in net' : r \in net /\ r.id # id /\ r.id \in Ids
  BY <1>a, TypedAreIds DEF TypeOK
<1>d. held' = id /\ Timeout(order[id].op) = SyncTimeout
  BY DEF Timeout
<1> HIDE DEF id
<1>1. Answered
  BY DEF Answered
<1>2. ServedWhenGone'
  BY <1>b, <1>c, <1>d DEF ServedWhenGone
<1>3. held' \in Open /\ got' # "waiting" /\ "error" \in Printed(order[held'])
         => <<"error", got'>> \in since'[held']
  <2>1. Now'.error = err'
    BY DEF Now
  <2>2. "error" \in Printed(order[id]) => <<"error", err'>> \in Claims(Report(order[id], Now'))
    BY <2>1, ErrorIsClaimed
  <2>3. id \in Open => Claims(Report(order[id], Now')) \subseteq since'[id]
    BY DEF Recorded
  <2> QED  BY <1>d, <2>2, <2>3
<1>4. ASSUME NEW d \in Consoles, OnItsWay(d), txn[d] # 0 PROVE OnItsWay(d)'
  <2>1. CASE txn[d] = id
    <3>1. left[d] = SyncTimeout
      BY <1>a, <1>d, <1>4, <2>1 DEF OnItsWay, ServedWhenGone, id
    <3>2. left'[d] >= 1 /\ txn'[d] = id
      BY <2>1, <3>1, TimeoutAssumption
    <3>3. got' = "waiting" => left'[d] + (MaxWait - heldLeft') >= SyncTimeout
      <4>1. err # "waiting"
        BY DEF TypeOK
      <4> QED  BY <3>1, <4>1, TimeoutAssumption
    <3> QED  BY <1>d, <3>2, <3>3 DEF OnItsWay
  <2>2. CASE txn[d] # id
    <3>1. \A r \in net : r.id = txn[d] => r \in net'
      BY <2>2 DEF id
    <3> QED  BY <1>a, <1>4, <2>2, <3>1 DEF OnItsWay, Request, Timeout
  <2> QED  BY <2>1, <2>2
<1>5. left' \in [Consoles -> Nat] /\ excused' \subseteq Ids /\ held' \in Typed \cup {0}
  BY <1>a, <1>d DEF Shapes
<1> QED  BY <1>1, <1>2, <1>3, <1>4, <1>5, <1>a, NodeKeeps

LEMMA ServeStatusKeeps ==
    ASSUME IInv, NEW p \in net, ServeStatus(p)
    PROVE  IInv'
<1> USE DEF IInv
<1>1. /\ Serve(p) /\ order[p.id].op = "sync" /\ net' = net \ {p} /\ held' = p.id /\ got' = err
      /\ UNCHANGED <<clock, mode, err, master_node, last_sync, pass, finish_sem, heldLeft,
                     order, txn, left, printed, since, wrong, excused>>
  BY DEF ServeStatus, tk_data, console
<1>2. NodeTyped'
  BY <1>1, NodeIsTyped DEF NodeTyped
<1>3. Now' = Now
  BY <1>1 DEF Now
<1>4. Recorded
  BY <1>1, <1>3, SameRecords
<1> QED  BY <1>1, <1>2, <1>4, HoldKeeps

\* The mode that tk_app_sync_time sets is a mode.
LEMMA ModeIsMode == ASSUME NEW flags, mode \in Modes PROVE Mode(flags) \in Modes
BY DEF Mode, Modes

LEMMA ServeSyncKeeps ==
    ASSUME IInv, NEW p \in net, ServeSync(p)
    PROVE  IInv'
<1> USE DEF IInv
<1>1. /\ Serve(p) /\ order[p.id].op = "sync" /\ mode' = Mode(order[p.id].flags)
      /\ master_node' = 0 /\ finish_sem' = 0 /\ held' = p.id /\ net' = net \ {p} /\ Saw
      /\ UNCHANGED <<clock, err, pass, order, txn, left, printed, wrong, excused>>
  BY DEF ServeSync, console
<1>2. \/ got' = err /\ last_sync' = p.id /\ heldLeft' = heldLeft
      \/ got' = "waiting" /\ heldLeft' = MaxWait /\ last_sync' = last_sync
  BY DEF ServeSync
<1>3. NodeTyped
  BY NodeIsTyped
<1>4. mode' \in Modes
  BY <1>1, <1>3, ModeIsMode DEF NodeTyped
<1>5. p.id \in -1 .. MaxCommands
  BY <1>1, ServedOnce, BoundAssumption DEF Ids
<1>6. last_sync' \in -1 .. MaxCommands /\ heldLeft' \in 0 .. MaxWait
      /\ got' \in {"waiting"} \cup Errors
  BY <1>2, <1>3, <1>5, TimeoutAssumption DEF NodeTyped
<1>7. NodeTyped'
  BY <1>1, <1>3, <1>4, <1>6 DEF NodeTyped
<1>8. Recorded
  BY <1>1, SawRecords
<1> QED  BY <1>1, <1>2, <1>7, <1>8, HoldKeeps

\* The end of the wait, by the semaphore or by MAX_SYNC_DONE_WAIT.
LEMMA EndWaitKeeps ==
    ASSUME IInv, EndWait
    PROVE  IInv'
<1> USE DEF IInv
<1>1. /\ held # 0 /\ got = "waiting" /\ got' = err /\ last_sync' = held
      /\ finish_sem' = 0 /\ heldLeft' = 0 /\ Saw
      /\ UNCHANGED <<clock, mode, err, master_node, pass, held, net, order, txn, left,
                     printed, served, wrong, excused>>
  BY DEF EndWait, console
<1>2. last_sync' \in -1 .. MaxCommands /\ heldLeft' \in 0 .. MaxWait
  BY <1>1, BoundAssumption, TimeoutAssumption DEF TypeOK
<1>3. NodeTyped'
  BY <1>1, <1>2, NodeIsTyped DEF NodeTyped
<1>4. Recorded
  BY <1>1, SawRecords
<1>5. held' \in Open /\ got' # "waiting" /\ "error" \in Printed(order[held'])
         => <<"error", got'>> \in since'[held']
  <2>1. Now'.error = err
    BY <1>1 DEF Now
  <2>2. "error" \in Printed(order[held]) => <<"error", err>> \in Claims(Report(order[held], Now'))
    BY <2>1, ErrorIsClaimed
  <2>3. held \in Open => Claims(Report(order[held], Now')) \subseteq since'[held]
    BY <1>4 DEF Recorded
  <2> QED  BY <1>1, <2>2, <2>3
<1>6. ASSUME NEW d \in Consoles, OnItsWay(d) PROVE OnItsWay(d)'
  <2>1. got' # "waiting"
    BY <1>1 DEF TypeOK
  <2> QED  BY <1>1, <1>6, <2>1 DEF OnItsWay, Request, Timeout
<1>7. Answered /\ ServedWhenGone'
  BY <1>1 DEF Answered, ServedWhenGone
<1>8. left' \in [Consoles -> Nat] /\ excused' \subseteq Ids /\ held' \in Typed \cup {0}
  BY <1>1 DEF Shapes
<1> QED  BY <1>1, <1>3, <1>4, <1>5, <1>6, <1>7, <1>8, NodeKeeps

\* The response goes out: what it says was true, err when it was read and the rest
\* now.
LEMMA ReplyKeeps ==
    ASSUME IInv, Reply
    PROVE  IInv'
<1> USE DEF IInv
<1> DEFINE late == [Now EXCEPT !.error = got]
           q == Response(held, 0, late)
<1>1. /\ held # 0 /\ got # "waiting" /\ net' = net \cup {q} /\ held' = 0 /\ got' = "waiting"
      /\ UNCHANGED <<clock, mode, err, master_node, last_sync, pass, finish_sem, heldLeft,
                     order, txn, left, printed, served, since, wrong, excused>>
  BY DEF Reply, tk_data, console, history
<1>2. q.kind = "RSP" /\ q.id = held /\ q.ret = 0 /\ q.says = Report(order[held], late)
  BY ResponseSays
<1>3. held \in Open => Claims(Report(order[held], late)) \subseteq since[held]
  BY <1>1, ReadBefore DEF AnswersAreTrue
<1> HIDE DEF late, q
<1>4. NodeTyped'
  BY <1>1, NodeIsTyped DEF NodeTyped
<1>5. Now' = Now
  BY <1>1 DEF Now
<1>6. Recorded
  BY <1>1, <1>5, SameRecords
<1>7. Answered
  BY <1>1, <1>2, <1>3 DEF Answered, Shapes
<1>8. ServedWhenGone'
  BY <1>1, <1>2 DEF ServedWhenGone
<1>9. ASSUME NEW d \in Consoles, OnItsWay(d) PROVE OnItsWay(d)'
  <2>1. CASE held = txn[d] /\ left[d] >= 1
    BY <1>1, <1>2, <2>1 DEF OnItsWay
  <2>2. CASE ~(held = txn[d] /\ left[d] >= 1)
    BY <1>1, <1>9, <2>2 DEF OnItsWay, Request, Timeout
  <2> QED  BY <2>1, <2>2
<1>10. left' \in [Consoles -> Nat] /\ excused' \subseteq Ids
  BY <1>1 DEF Shapes
<1> QED  BY <1>1, <1>4, <1>6, <1>7, <1>8, <1>9, <1>10, NodeKeeps

\* The steps of the service thread and of a master that makes the node its slave.
LEMMA ChangeKeeps ==
    ASSUME IInv, NodeTyped', Saw,
           UNCHANGED <<held, got, heldLeft, net, order, txn, left, printed, served, wrong,
                       excused>>
    PROVE  IInv'
<1> USE DEF IInv
<1>1. Recorded
  BY SawRecords
<1>2. Answered /\ ServedWhenGone'
  BY DEF Answered, ServedWhenGone
<1>3. held' \in Open /\ got' # "waiting" /\ "error" \in Printed(order[held'])
         => <<"error", got'>> \in since'[held']
  BY <1>1, OpenIsTyped, TypedAreIds DEF AnswersAreTrue, Recorded
<1>4. ASSUME NEW d \in Consoles, OnItsWay(d) PROVE OnItsWay(d)'
  BY <1>4 DEF OnItsWay, Request, Timeout
<1>5. left' \in [Consoles -> Nat] /\ excused' \subseteq Ids /\ held' \in Typed \cup {0}
  BY DEF Shapes
<1> QED  BY <1>1, <1>2, <1>3, <1>4, <1>5, NodeKeeps

LEMMA ServiceKeeps ==
    ASSUME IInv, Service
    PROVE  IInv'
<1>1. NodeTyped
  BY NodeIsTyped DEF IInv
<1>2. /\ Saw /\ UNCHANGED <<clock, master_node, last_sync, held, got, heldLeft, net, order,
                            txn, left, printed, served, wrong, excused>>
  BY DEF Service, Wake, CheckStop, CheckSlave, Check, PassFails, PassEnds, Thread, console
<1>3. CASE Wake
  BY <1>1, <1>2, <1>3, ChangeKeeps DEF Wake, NodeTyped, Errors
<1>4. CASE CheckStop \/ CheckSlave
  BY <1>1, <1>2, <1>4, ChangeKeeps DEF CheckStop, CheckSlave, Check, NodeTyped
<1>5. CASE PassFails
  BY <1>1, <1>2, <1>5, ChangeKeeps DEF PassFails, NodeTyped, Errors
<1>6. CASE PassEnds
  BY <1>1, <1>2, <1>6, ChangeKeeps DEF PassEnds, Released, NodeTyped, Modes
<1> QED  BY <1>3, <1>4, <1>5, <1>6 DEF Service

LEMMA MadeSlaveKeeps ==
    ASSUME IInv, MadeSlave
    PROVE  IInv'
<1>1. NodeTyped
  BY NodeIsTyped DEF IInv
<1>2. /\ Saw /\ clock' \in {clock, -1} /\ master_node' = 1 /\ last_sync' = -1
      /\ mode' = "SLAVE"
      /\ UNCHANGED <<err, pass, finish_sem, held, got, heldLeft, net, order, txn, left,
                     printed, served, wrong, excused>>
  BY DEF MadeSlave, calls, console
<1>3. NodeTyped'
  BY <1>1, <1>2, BoundAssumption DEF NodeTyped, Modes
<1> QED  BY <1>2, <1>3, ChangeKeeps

\* A packet that is lost excuses its command.
LEMMA LoseKeeps ==
    ASSUME IInv, Lose
    PROVE  IInv'
<1> USE DEF IInv
<1>1. PICK p \in net : net' = net \ {p} /\ excused' = excused \cup {p.id}
  BY DEF Lose
<1>2. UNCHANGED <<clock, mode, err, master_node, last_sync, pass, finish_sem, held, got,
                  heldLeft, order, txn, left, printed, served, since, wrong>>
  BY DEF Lose, node, tk_data, calls, console
<1>3. NodeTyped'
  BY <1>2, NodeIsTyped DEF NodeTyped
<1>4. Now' = Now
  BY <1>2 DEF Now
<1>5. Recorded
  BY <1>2, <1>4, SameRecords
<1>6. Answered /\ ServedWhenGone'
  BY <1>1, <1>2 DEF Answered, ServedWhenGone
<1>7. held' \in Open /\ got' # "waiting" /\ "error" \in Printed(order[held'])
         => <<"error", got'>> \in since'[held']
  BY <1>2 DEF AnswersAreTrue
<1>8. ASSUME NEW d \in Consoles, OnItsWay(d), txn[d] \notin excused' PROVE OnItsWay(d)'
  <2>1. \A q \in net : q.id = txn[d] => q \in net'
    BY <1>1, <1>8
  <2> QED  BY <1>2, <1>8, <2>1 DEF OnItsWay, Request, Timeout
<1>9. p.id \in Ids
  BY TypedAreIds DEF TypeOK
<1>10. left' \in [Consoles -> Nat] /\ excused' \subseteq Ids /\ excused \subseteq excused'
       /\ held' \in Typed \cup {0}
  BY <1>1, <1>2, <1>9 DEF Shapes
<1> QED  BY <1>2, <1>3, <1>5, <1>6, <1>7, <1>8, <1>10, NodeKeeps

\* Time passes: what is still in the network met a held callback, and the command
\* that holds it may have waited for SYNC_TIMEOUT.
LEMMA TickKeeps ==
    ASSUME IInv, Tick
    PROVE  IInv'
<1> USE DEF IInv
<1>1. /\ \A c \in Consoles : txn[c] # 0 => left[c] > 0
      /\ held # 0 => got = "waiting" /\ heldLeft > 0
      /\ left' = [c \in Consoles |-> IF txn[c] # 0 THEN left[c] - 1 ELSE left[c]]
      /\ heldLeft' = IF held # 0 THEN heldLeft - 1 ELSE heldLeft
      /\ net' \subseteq net
      /\ excused \subseteq excused'
      /\ \A p \in net : p.id \in excused'
      /\ WaitIsLong => held \in excused'
      /\ UNCHANGED <<clock, mode, err, master_node, last_sync, pass, finish_sem, held, got,
                     order, txn, printed, served, since, wrong>>
  BY DEF Tick, tk_data
<1>2. Typed \subseteq Ids
  BY TypedAreIds
<1>3. excused' \subseteq Ids
  <2>1. \A p \in net : p.id \in Ids
    BY <1>2 DEF TypeOK
  <2>2. WaitIsLong => held \in Ids
    BY <1>2 DEF WaitIsLong, Shapes
  <2>3. excused \subseteq Ids
    BY DEF Shapes
  <2>4. excused' = excused \cup {p.id : p \in net} \cup (IF WaitIsLong THEN {held} ELSE {})
    BY DEF Tick
  <2> HIDE DEF WaitIsLong
  <2> QED  BY <2>1, <2>2, <2>3, <2>4
<1>4. left' \in [Consoles -> Nat] /\ heldLeft' \in 0 .. MaxWait
  BY <1>1, TimeoutAssumption, SMTT(30) DEF TypeOK, Shapes
<1>5. NodeTyped'
  BY <1>1, <1>4, NodeIsTyped DEF NodeTyped
<1>6. Now' = Now
  BY <1>1 DEF Now
<1>7. Recorded
  BY <1>1, <1>6, SameRecords
<1>8. Answered /\ ServedWhenGone'
  BY <1>1 DEF Answered, ServedWhenGone
<1>9. held' \in Open /\ got' # "waiting" /\ "error" \in Printed(order[held'])
         => <<"error", got'>> \in since'[held']
  BY <1>1 DEF AnswersAreTrue
<1>10. ASSUME NEW d \in Consoles, OnItsWay(d), txn[d] # 0, txn[d] \notin excused'
       PROVE  OnItsWay(d)'
  <2>1. \A p \in net : p.id # txn[d]
    BY <1>1, <1>10
  <2>2. /\ held = txn[d] /\ left[d] >= 1 /\ got = "waiting"
        /\ left[d] + (MaxWait - heldLeft) >= SyncTimeout
    BY <1>1, <1>10, <2>1 DEF OnItsWay, Request
  <2>3. MaxWait - heldLeft + 1 < SyncTimeout
    BY <1>1, <1>10, <2>2, TimeoutAssumption DEF WaitIsLong, TypeOK
  <2>4. left'[d] = left[d] - 1 /\ heldLeft' = heldLeft - 1
    BY <1>1, <1>10, <2>2
  <2>5. left'[d] >= 1 /\ left'[d] + (MaxWait - heldLeft') >= SyncTimeout
    BY <2>2, <2>3, <2>4, TimeoutAssumption DEF TypeOK
  <2> QED  BY <1>1, <2>2, <2>5 DEF OnItsWay
<1>11. held' \in Typed \cup {0}
  BY <1>1 DEF Shapes
<1> QED  BY <1>1, <1>3, <1>4, <1>5, <1>7, <1>8, <1>9, <1>10, <1>11, NodeKeeps

-----------------------------------------------------------------------------
(* The specification.                                                      *)

LEMMA InitHolds == Init => IInv
<1> SUFFICES ASSUME Init PROVE IInv
  OBVIOUS
<1>1. Typed = {} /\ Typed = 1 .. Cardinality(Typed) /\ Cardinality(Typed) = 0
  BY FS_EmptySet DEF Init, Typed
<1>2. TypeOK
  BY <1>1, BoundAssumption, TimeoutAssumption DEF Init, TypeOK
<1>3. Shapes
  BY <1>1, BoundAssumption DEF Init, Shapes, Words
<1>4. RequestsWereSent /\ WaitsForOpen /\ ServedWhenGone /\ SuccessMeansServedOnce
  BY DEF Init, RequestsWereSent, WaitsForOpen, ServedWhenGone, SuccessMeansServedOnce
<1>5. AnswersAreTrue /\ ShownWasTrue
  BY <1>1, <1>2, <1>3, OpenIsTyped DEF Init, AnswersAreTrue, ShownWasTrue
<1>6. InTime /\ FailsForAReason
  BY DEF Init, InTime, FailsForAReason
<1> QED  BY <1>2, <1>3, <1>4, <1>5, <1>6 DEF IInv

\* The handlers of the node carry out what an operator asked for, one per request.
Serves(p) == ServeSet(p) \/ ServeGet(p) \/ ServeStatus(p) \/ ServeSync(p)

\* What an operator types is a command.
LEMMA TypedIsCommand ==
    ASSUME NEW c \in Consoles, NEW o \in Orders[c]
    PROVE  o \in Commands
BY OrdersAssumption

\* The consoles give the commands that they let through.
LEMMA TypedPasses ==
    ASSUME NEW c \in Consoles, NEW o \in Orders[c],
           tk_set_time_req(c, o) \/ tk_get_time_req(c, o) \/ tk_time_sync_req(c, o)
    PROVE  \/ Submit(c, o) /\ Passes(o)
           \/ \E word \in {"rejected", "no time"} : Refuse(c, o, word)
<1>1. CASE tk_set_time_req(c, o) \/ tk_get_time_req(c, o)
  BY <1>1 DEF tk_set_time_req, tk_get_time_req, Passes
<1>2. CASE tk_time_sync_req(c, o)
  BY <1>2 DEF tk_time_sync_req, Passes
<1> QED  BY <1>1, <1>2

LEMMA StepKeeps == IInv /\ [Next]_vars => IInv'
<1> SUFFICES ASSUME IInv, [Next]_vars PROVE IInv'
  OBVIOUS
<1>1. CASE \E c \in Consoles : \E o \in Orders[c] :
              tk_set_time_req(c, o) \/ tk_get_time_req(c, o) \/ tk_time_sync_req(c, o)
  BY <1>1, TypedIsCommand, TypedPasses, SubmitKeeps, RefuseKeeps
<1>2. CASE ConsoleStep
  BY <1>2, TakeResponseKeeps, GiveUpKeeps DEF ConsoleStep
<1>3. CASE \E p \in net : Serves(p)
  BY <1>3, ServeSetKeeps, ServeGetKeeps, ServeStatusKeeps, ServeSyncKeeps DEF Serves
<1>4. CASE WaitToken \/ WaitTimeout
  BY <1>4, EndWaitKeeps DEF WaitToken, WaitTimeout
<1>5. CASE Reply \/ Service \/ MadeSlave
  BY <1>5, ReplyKeeps, ServiceKeeps, MadeSlaveKeeps
<1>6. CASE Lose \/ Tick
  BY <1>6, LoseKeeps, TickKeeps
<1>7. CASE UNCHANGED vars
  <2>1. UNCHANGED <<clock, mode, err, master_node, last_sync, pass, finish_sem, held, got,
                    heldLeft, net, order, txn, left, printed, served, since, wrong, excused>>
    BY <1>7 DEF vars, node, tk_data, calls, console, history
  <2>2. NodeTyped'
    BY <2>1, NodeIsTyped DEF IInv, NodeTyped
  <2>3. Now' = Now
    BY <2>1 DEF Now
  <2>4. Recorded
    BY <2>1, <2>3, SameRecords DEF IInv
  <2>5. Answered /\ ServedWhenGone'
    BY <2>1 DEF Answered, ServedWhenGone, IInv
  <2>6. held' \in Open /\ got' # "waiting" /\ "error" \in Printed(order[held'])
           => <<"error", got'>> \in since'[held']
    BY <2>1 DEF AnswersAreTrue, IInv
  <2>7. ASSUME NEW d \in Consoles, OnItsWay(d) PROVE OnItsWay(d)'
    BY <2>1, <2>7 DEF OnItsWay, Request, Timeout
  <2>8. left' \in [Consoles -> Nat] /\ excused' \subseteq Ids /\ held' \in Typed \cup {0}
    BY <2>1 DEF Shapes, IInv
  <2> QED  BY <2>1, <2>2, <2>4, <2>5, <2>6, <2>7, <2>8, NodeKeeps
<1> QED  BY <1>1, <1>2, <1>3, <1>4, <1>5, <1>6, <1>7 DEF Next, NodeStep, Serves

LEMMA Invariant == Spec => []IInv
BY InitHolds, StepKeeps, PTL DEF Spec

\* Commands are numbered without gaps whatever is typed, no two consoles wait for
\* the same one, and no timer of a console or of the callback runs below zero.
THEOREM TypeCorrect == Spec => []TypeOK
<1>1. IInv => TypeOK
  BY DEF IInv
<1> QED  BY <1>1, Invariant, PTL

\* "done" or a print of the node's fields means that the node's handler ran for the
\* command, once, for any loss, any timeout and any number of consoles that share the
\* callback.  The handler of a set-time runs too where the clock refuses.
THEOREM SuccessIsService == Spec => []SuccessMeansServedOnce
<1>1. IInv => SuccessMeansServedOnce
  BY DEF IInv
<1> QED  BY <1>1, Invariant, PTL

\* Each field that a console prints of the time or the status, but for the last failed
\* node, which the node never writes, had that value at some moment after the command
\* was typed, however long the answer was under way and whatever the service thread
\* wrote between two of the reads.
THEOREM PrintsTheTruth == Spec => []ShownWasTrue
<1>1. IInv => ShownWasTrue
  BY DEF IInv
<1> QED  BY <1>1, Invariant, PTL

\* A console reports that no answer came only for a reason in the network or at the
\* node: with nothing lost and the callback free, only a command whose own wait lasts
\* SYNC_TIMEOUT times out.  Nothing is assumed of how the timeouts compare.
THEOREM FailureHasAReason == Spec => []FailsForAReason
<1>1. IInv => FailsForAReason
  BY DEF IInv
<1> QED  BY <1>1, Invariant, PTL

-----------------------------------------------------------------------------
(* What the node makes of the flags.                                       *)

\* Of the flags that the console lets through, at most one of START, STOP and ONCE
\* is set.
LEMMA AcceptedHasOne ==
    ASSUME NEW flags \in SUBSET Flags, Accepted(flags), Exclusive(flags) # {}
    PROVE  \E x \in {"START", "STOP", "ONCE"} : Exclusive(flags) = {x}
<1>1. flags # {"STATUS"}
  BY DEF Exclusive
<1>2. Cardinality(Exclusive(flags)) = 1
  BY <1>1 DEF Accepted
<1>3. IsFiniteSet({"START", "STOP", "ONCE"})
  <2>1. IsFiniteSet({} \cup {"START"})
    BY FS_EmptySet, FS_AddElement
  <2>2. IsFiniteSet(({} \cup {"START"}) \cup {"STOP"})
    BY <2>1, FS_AddElement
  <2>3. IsFiniteSet((({} \cup {"START"}) \cup {"STOP"}) \cup {"ONCE"})
    BY <2>2, FS_AddElement
  <2>4. {"START", "STOP", "ONCE"} = (({} \cup {"START"}) \cup {"STOP"}) \cup {"ONCE"}
    OBVIOUS
  <2> QED  BY <2>3, <2>4
<1>4. Exclusive(flags) \subseteq {"START", "STOP", "ONCE"}
  BY DEF Exclusive
<1>5. IsFiniteSet(Exclusive(flags))
  BY <1>3, <1>4, FS_Subset
<1>6. PICK x : Exclusive(flags) = {x}
  BY <1>2, <1>5, FS_Singleton
<1> QED  BY <1>4, <1>6

\* The mode that tk_app_sync_time takes from such flags is the one they name.
LEMMA ModeIsAsked ==
    ASSUME NEW flags, NEW x \in {"START", "STOP", "ONCE"}, Exclusive(flags) = {x}
    PROVE  {ModeFlag(Mode(flags))} = {x}
<1>1. CASE x = "START"
  <2>1. "START" \in flags /\ "ONCE" \notin flags
    BY <1>1 DEF Exclusive
  <2>2. Mode(flags) = "CONTINUOUS"
    BY <2>1 DEF Mode
  <2> QED  BY <1>1, <2>2 DEF ModeFlag
<1>2. CASE x = "STOP"
  <2>1. "STOP" \in flags /\ "ONCE" \notin flags /\ "START" \notin flags
    BY <1>2 DEF Exclusive
  <2>2. Mode(flags) = "STOP"
    BY <2>1 DEF Mode
  <2> QED  BY <1>2, <2>2 DEF ModeFlag
<1>3. CASE x = "ONCE"
  <2>1. "ONCE" \in flags
    BY <1>3 DEF Exclusive
  <2>2. Mode(flags) = "ONCE"
    BY <2>1 DEF Mode
  <2> QED  BY <1>3, <2>2 DEF ModeFlag
<1> QED  BY <1>1, <1>2, <1>3

\* A step that carries a command out sets the mode that its flags name.
LEMMA ServesObeys ==
    ASSUME IInv, NEW p \in net, Serves(p), NEW i \in Typed, served'[i] # served[i],
           Exclusive(order[i].flags) # {}
    PROVE  Exclusive(order[i].flags) = {ModeFlag(mode')}
<1>1. Serve(p)
  BY DEF Serves, ServeSet, ServeGet, ServeStatus, ServeSync
<1>2. i = p.id /\ order[i] \in Commands /\ Passes(order[i])
  BY <1>1, ServedOnce, TypedAreIds DEF IInv, Shapes
<1> DEFINE flags == order[i].flags
<1>3. order[i].op = "sync" /\ flags \in SUBSET Flags /\ flags # {"STATUS"}
  BY <1>2 DEF Commands, Exclusive
<1>4. mode' = Mode(flags)
  BY <1>2, <1>3 DEF Serves, ServeSet, ServeGet, ServeStatus, ServeSync
<1>5. PICK x \in {"START", "STOP", "ONCE"} : Exclusive(flags) = {x}
  BY <1>2, <1>3, AcceptedHasOne DEF Passes
<1> QED  BY <1>4, <1>5, ModeIsAsked

\* The other steps carry nothing out.
LEMMA OthersServeNothing ==
    ASSUME [Next]_vars, \A p \in net : ~Serves(p)
    PROVE  served' = served
<1>1. CASE \E c \in Consoles : \E o \in Orders[c] :
              tk_set_time_req(c, o) \/ tk_get_time_req(c, o) \/ tk_time_sync_req(c, o)
  BY <1>1, TypedPasses DEF Submit, Refuse, Enter
<1>2. CASE ConsoleStep
  BY <1>2 DEF ConsoleStep, TakeResponse, Take, GiveUp, Fails, Return
<1>3. CASE WaitToken \/ WaitTimeout
  BY <1>3 DEF WaitToken, WaitTimeout, EndWait
<1>4. CASE Service
  BY <1>4 DEF Service, Wake, CheckStop, CheckSlave, Check, PassFails, PassEnds, Thread
<1>5. CASE Reply \/ MadeSlave \/ Lose \/ Tick \/ UNCHANGED vars
  BY <1>5 DEF Reply, MadeSlave, Lose, Tick, vars, history
<1> QED  BY <1>1, <1>2, <1>3, <1>4, <1>5 DEF Next, NodeStep, Serves

\* Every command that the node carries out sets the mode that the operator asked
\* for, and no other: what tk_time_sync_req accepts, tk_app_sync_time cannot read
\* in a second way, for every set of flags.
THEOREM NodeObeysOrder == Spec => ObeysOrder
<1> DEFINE Obeys == \A i \in Typed : served'[i] # served[i] /\ Exclusive(order[i].flags) # {}
                                     => Exclusive(order[i].flags) = {ModeFlag(mode')}
<1>1. ASSUME IInv, [Next]_vars PROVE [Obeys]_vars
  <2>1. CASE \E p \in net : Serves(p)
    BY <1>1, <2>1, ServesObeys
  <2>2. CASE \A p \in net : ~Serves(p)
    BY <1>1, <2>2, OthersServeNothing
  <2> QED  BY <2>1, <2>2
<1>2. Spec => [][Obeys]_vars
  BY <1>1, Invariant, PTL DEF Spec
<1> QED  BY <1>2 DEF ObeysOrder
=============================================================================
