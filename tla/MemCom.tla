------------------------------- MODULE MemCom -------------------------------
(***************************************************************************)
(* A pair of emulated serial ports of memcom_backend.c: what a port writes *)
(* goes to the ring buffer of its neighbour.  On each port one thread may  *)
(* write and one may read; nothing locks the buffers, so every access to a *)
(* position or a cell that the other side uses is a step.                  *)
(***************************************************************************)
EXTENDS Integers, Sequences

CONSTANTS
    Byte,         \* what a cell holds; 0 is in it
    Sends,        \* what the user of each port writes
    Size,         \* RAMBUFF_SIZE
    WriteCounts   \* numbers of bytes callers pass to memcom_write

ASSUME ByteAssumption  == 0 \in Byte /\ Sends \in [{0, 1} -> SUBSET Byte]
ASSUME SizeAssumption  == Size \in Nat /\ Size >= 2
ASSUME CountAssumption == WriteCounts \subseteq Nat \ {0}

VARIABLES
    size, write_pos, read_pos, buff,   \* memcom_com_buff_t of each port
    wpc, todo,          \* the writing call of each port: where, bytes left
    rpc, want, got,     \* the reading call: where, bytes left, bytes read
    avail               \* what the reader last heard from memcom_available

ring   == <<size, write_pos, read_pos, buff>>
writer == <<wpc, todo>>
reader == <<rpc, want, got, avail>>
vars   == <<ring, writer, reader>>

Ports  == {0, 1}
Cells  == 0 .. Size - 1
Peer(p) == 1 - p
Succ(i) == (i + 1) % Size

IsFull(p)  == size[p] = 0 \/ Succ(write_pos[p]) = read_pos[p]
IsEmpty(p) == size[p] = 0 \/ write_pos[p] = read_pos[p]

-----------------------------------------------------------------------------
\* memcom_open empties the port's own buffer.  The caller does not read, and
\* opens a port while nobody is writing to it.
Open(p) ==
    /\ rpc[p] = "idle" /\ wpc[Peer(p)] = "idle"
    /\ size' = [size EXCEPT ![p] = Size]
    /\ write_pos' = [write_pos EXCEPT ![p] = 0]
    /\ read_pos'  = [read_pos EXCEPT ![p] = 0]
    /\ buff'  = [buff EXCEPT ![p] = [i \in Cells |-> 0]]
    /\ avail' = [avail EXCEPT ![p] = 0]
    /\ UNCHANGED <<writer, rpc, want, got>>

\* Fault: the buffer is not tested for room.  (What Write does once it has been.)
WriteAnyway(p, bytes) ==
    /\ size[p] # 0 /\ wpc[p] = "idle"
    /\ wpc'  = [wpc EXCEPT ![p] = "store"]
    /\ todo' = [todo EXCEPT ![p] = bytes]
    /\ UNCHANGED <<ring, reader>>

\* memcom_write on an open port up to the loop; on a full buffer it returns 0.
Write(p, bytes) == ~IsFull(Peer(p)) /\ WriteAnyway(p, bytes)

StoreIn(p, b) ==
    /\ wpc[p] = "store" /\ wpc' = [wpc EXCEPT ![p] = "advance"]
    /\ buff' = [buff EXCEPT ![b][write_pos[b]] = Head(todo[p])]
    /\ UNCHANGED <<size, write_pos, read_pos, todo, reader>>

\* Fault: a byte goes to the cell before the one it is counted in.
StoreBehind(p) ==
    LET b == Peer(p) IN
    /\ wpc[p] = "store" /\ wpc' = [wpc EXCEPT ![p] = "advance"]
    /\ buff' = [buff EXCEPT ![b][(write_pos[b] + Size - 1) % Size] = Head(todo[p])]
    /\ UNCHANGED <<size, write_pos, read_pos, todo, reader>>

Store(p) == StoreIn(p, Peer(p))

AdvanceWrite(p) ==
    LET b == Peer(p) IN
    /\ wpc[p] = "advance"
    /\ write_pos' = [write_pos EXCEPT ![b] = Succ(@)]
    /\ todo' = [todo EXCEPT ![p] = Tail(@)]
    /\ wpc'  = [wpc EXCEPT ![p] = IF Len(todo[p]) = 1 THEN "idle" ELSE "store"]
    /\ UNCHANGED <<size, read_pos, buff, reader>>

\* Fault: the size that is added before the modulo is forgotten, and the
\* negative difference becomes a large size_t.
AvailableUnsigned(p) == IF write_pos[p] >= read_pos[p] THEN write_pos[p] - read_pos[p]
                                                       ELSE Size

Count(p) == (write_pos[p] + Size - read_pos[p]) % Size

\* memcom_available, on a port that was opened: its handle says so.
Available(p) ==
    /\ size[p] # 0 /\ rpc[p] = "idle"
    /\ avail' = [avail EXCEPT ![p] = Count(p)]
    /\ UNCHANGED <<ring, writer, rpc, want, got>>

\* memcom_read up to the loop; on an empty buffer it returns 0.  However many bytes
\* are asked for, that is the only test.
Read(p, n) ==
    /\ rpc[p] = "idle" /\ ~IsEmpty(p)
    /\ rpc'  = [rpc EXCEPT ![p] = "load"]
    /\ want' = [want EXCEPT ![p] = n]
    /\ got'  = [got EXCEPT ![p] = <<>>]
    /\ avail' = [avail EXCEPT ![p] = 0]
    /\ UNCHANGED <<ring, writer>>

Load(p) ==
    /\ rpc[p] = "load" /\ rpc' = [rpc EXCEPT ![p] = "advance"]
    /\ got' = [got EXCEPT ![p] = Append(@, buff[p][read_pos[p]])]
    /\ UNCHANGED <<ring, writer, want, avail>>

AdvanceRead(p) ==
    /\ rpc[p] = "advance"
    /\ read_pos' = [read_pos EXCEPT ![p] = Succ(@)]
    /\ want' = [want EXCEPT ![p] = @ - 1]
    /\ rpc'  = [rpc EXCEPT ![p] = IF want[p] = 1 THEN "idle" ELSE "load"]
    /\ UNCHANGED <<size, write_pos, buff, writer, got, avail>>

\* What readers are taken to ask for: one byte, or no more than memcom_available
\* told them.  memcom_read does not enforce it; asked for more, it goes on past
\* the write position and takes what is in the cells there.
Asked(p) == {n \in 1 .. Size - 1 : n = 1 \/ n <= avail[p]}

Init ==
    /\ size = [p \in Ports |-> 0]
    /\ write_pos = [p \in Ports |-> 0] /\ read_pos = [p \in Ports |-> 0]
    /\ buff = [p \in Ports |-> [i \in Cells |-> 0]]
    /\ wpc = [p \in Ports |-> "idle"] /\ todo = [p \in Ports |-> <<>>]
    /\ rpc = [p \in Ports |-> "idle"] /\ want = [p \in Ports |-> 0]
    /\ got = [p \in Ports |-> <<>>]   /\ avail = [p \in Ports |-> 0]

Next ==
    \E p \in Ports :
        \/ Open(p)
        \/ \E n \in WriteCounts : \E bytes \in [1 .. n -> Sends[p]] : Write(p, bytes)
        \/ Store(p) \/ AdvanceWrite(p)
        \/ Available(p)
        \/ \E n \in Asked(p) : Read(p, n)
        \/ Load(p) \/ AdvanceRead(p)

Spec == Init /\ [][Next]_vars

-----------------------------------------------------------------------------
(* Properties.                                                             *)

\* Positions stay inside the buffer, counts inside its size.
TypeOK ==
    /\ size \in [Ports -> {0, Size}]
    /\ write_pos \in [Ports -> Cells] /\ read_pos \in [Ports -> Cells]
    /\ buff \in [Ports -> [Cells -> Byte]]
    /\ wpc \in [Ports -> {"idle", "store", "advance"}]
    /\ todo \in [Ports -> Seq(Byte)]
    /\ rpc \in [Ports -> {"idle", "load", "advance"}]
    /\ want \in [Ports -> 0 .. Size - 1] /\ avail \in [Ports -> 0 .. Size - 1]
    /\ got \in [Ports -> Seq(Byte)]

\* A byte is stored into a cell the reader has left, although the room was
\* tested once at the start of the call ("check if the circular buffer is full").
StoresIntoRoom == \A p \in Ports : wpc[p] # "idle" => ~IsFull(Peer(p))

\* The number memcom_available gave is still there when it is read, whatever was
\* written meanwhile.
AvailableStaysTrue ==
    \A p \in Ports : avail[p] <= Count(p) /\ (rpc[p] # "idle" => want[p] <= Count(p))

\* The bytes under way to port p: from the read to the write position, without
\* the one the reader has copied but not yet passed.
UnderWay(p) ==
    LET first == read_pos[p] + (IF rpc[p] = "advance" THEN 1 ELSE 0)
        n == Count(p) - (IF rpc[p] = "advance" THEN 1 ELSE 0)
    IN  [i \in 1 .. n |-> buff[p][(first + i - 1) % Size]]

ToZero == INSTANCE BytePipe
          WITH pipe <- UnderWay(0), got <- got[0], Capacity <- Size - 1
ToOne  == INSTANCE BytePipe
          WITH pipe <- UnderWay(1), got <- got[1], Capacity <- Size - 1

\* "Neighboring buffers are connected": each direction is a bounded pipe, with
\* reads and writes of both ports interleaved access by access.
PortsArePipes == ToZero!Spec /\ ToOne!Spec
=============================================================================
