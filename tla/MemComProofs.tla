---------------------------- MODULE MemComProofs ----------------------------
(***************************************************************************)
(* Theorems about MemCom when callers write one byte per call, for any     *)
(* size of the ring buffer, any bytes and any number of calls.             *)
(***************************************************************************)
EXTENDS MemCom, SequenceTheorems, TLAPS

(* The ring arithmetic.                                                    *)

\* Going once round the ring.
LEMMA Wrap ==
    ASSUME NEW n \in Nat \ {0}, NEW x \in n .. 2 * n - 1
    PROVE  x % n = x - n
  BY SMTT(30)

\* What lies inside the ring is left alone.
LEMMA NoWrap ==
    ASSUME NEW n \in Nat \ {0}, NEW x \in 0 .. n - 1
    PROVE  x % n = x
  OBVIOUS

\* The position after another.
LEMMA Successor ==
    ASSUME NEW i \in Cells
    PROVE  /\ Succ(i) = IF i = Size - 1 THEN 0 ELSE i + 1
           /\ Succ(i) \in Cells
  <1>1. CASE i = Size - 1
    BY <1>1, Wrap, SizeAssumption DEF Succ, Cells
  <1>2. CASE i # Size - 1
    BY <1>2, NoWrap, SizeAssumption DEF Succ, Cells
  <1> QED
    BY <1>1, <1>2

\* The number of bytes between two positions.
Between(w, r) == (w + Size - r) % Size

LEMMA Distance ==
    ASSUME NEW w \in Cells, NEW r \in Cells
    PROVE  /\ Between(w, r) = IF w >= r THEN w - r ELSE w + Size - r
           /\ Between(w, r) \in 0 .. Size - 1
  <1>1. CASE w >= r
    BY <1>1, Wrap, SizeAssumption DEF Between, Cells
  <1>2. CASE w < r
    BY <1>2, NoWrap, SizeAssumption DEF Between, Cells
  <1> QED
    BY <1>1, <1>2, SizeAssumption DEF Cells

\* A byte more, when there is room.
LEMMA OneMore ==
    ASSUME NEW w \in Cells, NEW r \in Cells, Succ(w) # r
    PROVE  Between(Succ(w), r) = Between(w, r) + 1
  <1>1. /\ Succ(w) = IF w = Size - 1 THEN 0 ELSE w + 1
        /\ Succ(w) \in Cells
    BY Successor
  <1>2. Between(w, r) = IF w >= r THEN w - r ELSE w + Size - r
    BY Distance
  <1>3. Between(Succ(w), r) = IF Succ(w) >= r THEN Succ(w) - r ELSE Succ(w) + Size - r
    BY <1>1, Distance
  <1> QED
    BY <1>1, <1>2, <1>3, SizeAssumption DEF Cells

\* A byte less, when there is one; then there is room.
LEMMA OneLess ==
    ASSUME NEW w \in Cells, NEW r \in Cells, w # r
    PROVE  /\ Between(w, Succ(r)) = Between(w, r) - 1
           /\ Succ(w) # Succ(r)
  <1>1. /\ Succ(r) = IF r = Size - 1 THEN 0 ELSE r + 1
        /\ Succ(w) = IF w = Size - 1 THEN 0 ELSE w + 1
        /\ Succ(r) \in Cells
    BY Successor
  <1>2. Between(w, r) = IF w >= r THEN w - r ELSE w + Size - r
    BY Distance
  <1>3. Between(w, Succ(r)) = IF w >= Succ(r) THEN w - Succ(r) ELSE w + Size - Succ(r)
    BY <1>1, Distance
  <1> QED
    BY <1>1, <1>2, <1>3, SizeAssumption DEF Cells

\* Nothing lies between two positions that are the same, and only then.
LEMMA NothingBetween ==
    ASSUME NEW w \in Cells, NEW r \in Cells
    PROVE  Between(w, r) = 0 <=> w = r
  <1>1. Between(w, r) = IF w >= r THEN w - r ELSE w + Size - r
    BY Distance
  <1> QED
    BY <1>1, SizeAssumption DEF Cells

-----------------------------------------------------------------------------
(* The inductive invariant.                                                *)

\* A writing call has its one byte left.
OneByteLeft == \A p \in Ports : wpc[p] # "idle" => Len(todo[p]) = 1

\* A reading call has a byte to read, and has used up what was available.
ReadingWants ==
    \A p \in Ports : rpc[p] # "idle" => want[p] >= 1 /\ avail[p] = 0

IInv == /\ TypeOK /\ OneByteLeft /\ StoresIntoRoom
        /\ AvailableStaysTrue /\ ReadingWants

\* The neighbour of a port.
LEMMA PeerIsPort ==
    ASSUME NEW p \in Ports
    PROVE  Peer(p) \in Ports /\ Peer(p) # p /\ Peer(Peer(p)) = p
  BY DEF Ports, Peer

\* What callers write are bytes.
LEMMA SentBytes ==
    ASSUME NEW p \in Ports, NEW n \in WriteCounts, NEW bytes \in [1 .. n -> Sends[p]]
    PROVE  bytes \in Seq(Byte) /\ Len(bytes) = n
  <1>1. n \in Nat /\ Sends[p] \subseteq Byte
    BY ByteAssumption, CountAssumption DEF Ports
  <1> QED
    BY <1>1

\* The last byte of a call.
LEMMA LastByte ==
    ASSUME NEW s \in Seq(Byte), Len(s) = 1
    PROVE  Head(s) \in Byte /\ Tail(s) \in Seq(Byte)
  <1>1. s # <<>>
    OBVIOUS
  <1> QED
    BY <1>1, HeadTailProperties

-----------------------------------------------------------------------------
(* Every step keeps every part of the invariant.                           *)

\* Positions and counts keep to their types.
LEMMA TypeStep ==
    ASSUME IInv, [Next]_vars
    PROVE  TypeOK'
  <1> USE DEF IInv, TypeOK, ring, writer, reader
  <1>1. ASSUME NEW p \in Ports, Store(p)
        PROVE  TypeOK'
    <2>1. Head(todo[p]) \in Byte
      BY <1>1, LastByte DEF Store, StoreIn, OneByteLeft
    <2>2. buff' \in [Ports -> [Cells -> Byte]]
      BY <1>1, <2>1, PeerIsPort DEF Store, StoreIn
    <2> QED
      BY <1>1, <2>2 DEF Store, StoreIn
  <1>2. ASSUME NEW p \in Ports, AdvanceWrite(p)
        PROVE  TypeOK'
    <2>1. write_pos' \in [Ports -> Cells]
      BY <1>2, PeerIsPort, Successor DEF AdvanceWrite
    <2>2. Tail(todo[p]) \in Seq(Byte)
      BY <1>2, LastByte DEF AdvanceWrite, OneByteLeft
    <2> QED
      BY <1>2, <2>1, <2>2 DEF AdvanceWrite
  <1>3. ASSUME NEW p \in Ports, Available(p)
        PROVE  TypeOK'
    <2>1. Count(p) \in 0 .. Size - 1
      BY Distance DEF Count, Between
    <2> QED
      BY <1>3, <2>1 DEF Available
  <1>4. ASSUME NEW p \in Ports, Load(p)
        PROVE  TypeOK'
    <2>1. Append(got[p], buff[p][read_pos[p]]) \in Seq(Byte)
      OBVIOUS
    <2> QED
      BY <1>4, <2>1 DEF Load
  <1>5. ASSUME NEW p \in Ports, AdvanceRead(p)
        PROVE  TypeOK'
    <2>1. read_pos' \in [Ports -> Cells]
      BY <1>5, Successor DEF AdvanceRead
    <2>2. want[p] - 1 \in 0 .. Size - 1
      BY <1>5, SizeAssumption DEF AdvanceRead, ReadingWants
    <2> QED
      BY <1>5, <2>1, <2>2 DEF AdvanceRead
  <1>6. ASSUME NEW p \in Ports, Open(p)
        PROVE  TypeOK'
    <2>1. 0 \in Cells /\ 0 \in 0 .. Size - 1 /\ [i \in Cells |-> 0] \in [Cells -> Byte]
      BY SizeAssumption, ByteAssumption DEF Cells
    <2> QED
      BY <1>6, <2>1 DEF Open
  <1>7. ASSUME NEW p \in Ports, NEW n \in WriteCounts, NEW bytes \in [1 .. n -> Sends[p]],
               Write(p, bytes)
        PROVE  TypeOK'
    <2>1. bytes \in Seq(Byte)
      BY SentBytes
    <2> QED
      BY <1>7, <2>1 DEF Write, WriteAnyway
  <1>8. ASSUME NEW p \in Ports, NEW n \in Asked(p), Read(p, n)
        PROVE  TypeOK'
    <2>1. 0 \in 0 .. Size - 1 /\ n \in 0 .. Size - 1 /\ <<>> \in Seq(Byte)
      BY SizeAssumption DEF Asked
    <2> QED
      BY <1>8, <2>1 DEF Read, Asked
  <1>9. CASE UNCHANGED vars
    BY <1>9 DEF vars
  <1> QED
    BY <1>1, <1>2, <1>3, <1>4, <1>5, <1>6, <1>7, <1>8, <1>9 DEF Next

\* A call writes one byte.
LEMMA ByteStep ==
    ASSUME IInv, WriteCounts = {1}, [Next]_vars
    PROVE  OneByteLeft'
  <1> USE DEF IInv, TypeOK, OneByteLeft, ring, writer, reader
  <1>1. ASSUME NEW p \in Ports, Store(p)
        PROVE  OneByteLeft'
    BY <1>1 DEF Store, StoreIn
  <1>2. ASSUME NEW p \in Ports, AdvanceWrite(p)
        PROVE  OneByteLeft'
    BY <1>2 DEF AdvanceWrite
  <1>3. ASSUME NEW p \in Ports, Available(p)
        PROVE  OneByteLeft'
    BY <1>3 DEF Available
  <1>4. ASSUME NEW p \in Ports, Load(p)
        PROVE  OneByteLeft'
    BY <1>4 DEF Load
  <1>5. ASSUME NEW p \in Ports, AdvanceRead(p)
        PROVE  OneByteLeft'
    BY <1>5 DEF AdvanceRead
  <1>6. ASSUME NEW p \in Ports, Open(p)
        PROVE  OneByteLeft'
    BY <1>6 DEF Open
  <1>7. ASSUME NEW p \in Ports, NEW n \in WriteCounts, NEW bytes \in [1 .. n -> Sends[p]],
               Write(p, bytes)
        PROVE  OneByteLeft'
    <2>1. Len(bytes) = 1
      BY SentBytes
    <2> QED
      BY <1>7, <2>1 DEF Write, WriteAnyway
  <1>8. ASSUME NEW p \in Ports, NEW n \in Asked(p), Read(p, n)
        PROVE  OneByteLeft'
    BY <1>8 DEF Read, Asked
  <1>9. CASE UNCHANGED vars
    BY <1>9 DEF vars
  <1> QED
    BY <1>1, <1>2, <1>3, <1>4, <1>5, <1>6, <1>7, <1>8, <1>9 DEF Next

\* The room that was found is there until the byte is stored.
LEMMA RoomStep ==
    ASSUME IInv, [Next]_vars
    PROVE  StoresIntoRoom'
  <1> USE DEF IInv, TypeOK, OneByteLeft, StoresIntoRoom, IsFull, ring, writer, reader, Ports, Peer
  <1>1. ASSUME NEW p \in Ports, Store(p)
        PROVE  StoresIntoRoom'
    BY <1>1 DEF Store, StoreIn
  <1>2. ASSUME NEW p \in Ports, AdvanceWrite(p)
        PROVE  StoresIntoRoom'
    BY <1>2 DEF AdvanceWrite
  <1>3. ASSUME NEW p \in Ports, Available(p)
        PROVE  StoresIntoRoom'
    BY <1>3 DEF Available
  <1>4. ASSUME NEW p \in Ports, Load(p)
        PROVE  StoresIntoRoom'
    BY <1>4 DEF Load
  <1>5. ASSUME NEW p \in Ports, AdvanceRead(p)
        PROVE  StoresIntoRoom'
    <2>1. want[p] >= 1 /\ want[p] <= Count(p)
      BY <1>5 DEF AdvanceRead, AvailableStaysTrue, ReadingWants
    <2>2. Between(write_pos[p], read_pos[p]) # 0
      BY <2>1 DEF Count, Between
    <2>4. write_pos[p] # read_pos[p]
      BY <2>2, NothingBetween
    <2>3. Succ(write_pos[p]) # Succ(read_pos[p])
      BY <2>4, OneLess
    <2> QED
      BY <1>5, <2>3 DEF AdvanceRead
  <1>6. ASSUME NEW p \in Ports, Open(p)
        PROVE  StoresIntoRoom'
    BY <1>6 DEF Open
  <1>7. ASSUME NEW p \in Ports, NEW n \in WriteCounts, NEW bytes \in [1 .. n -> Sends[p]],
               Write(p, bytes)
        PROVE  StoresIntoRoom'
    BY <1>7 DEF Write, WriteAnyway
  <1>8. ASSUME NEW p \in Ports, NEW n \in Asked(p), Read(p, n)
        PROVE  StoresIntoRoom'
    BY <1>8 DEF Read, Asked
  <1>9. CASE UNCHANGED vars
    BY <1>9 DEF vars
  <1> QED
    BY <1>1, <1>2, <1>3, <1>4, <1>5, <1>6, <1>7, <1>8, <1>9 DEF Next

\* What was found available is there until it is read.
LEMMA CountStep ==
    ASSUME IInv, [Next]_vars
    PROVE  (AvailableStaysTrue /\ ReadingWants)'
  <1> USE DEF IInv, TypeOK, AvailableStaysTrue, ReadingWants, ring, writer, reader, Count
  <1>1. ASSUME NEW p \in Ports, Store(p)
        PROVE  (AvailableStaysTrue /\ ReadingWants)'
    BY <1>1 DEF Store, StoreIn
  <1>2. ASSUME NEW p \in Ports, AdvanceWrite(p)
        PROVE  (AvailableStaysTrue /\ ReadingWants)'
    <2>0. PICK b \in Ports : b = Peer(p)
      BY PeerIsPort
    <2>1. b \in Ports /\ Succ(write_pos[b]) # read_pos[b]
      BY <1>2, <2>0 DEF AdvanceWrite, StoresIntoRoom, IsFull
    <2>2. Between(Succ(write_pos[b]), read_pos[b]) = Between(write_pos[b], read_pos[b]) + 1
      BY <2>1, OneMore
    <2>3. /\ write_pos' = [write_pos EXCEPT ![b] = Succ(@)]
          /\ UNCHANGED <<read_pos, avail, want, rpc>>
      BY <1>2, <2>0 DEF AdvanceWrite
    <2>4. \A q \in Ports : Between(write_pos[q], read_pos[q]) <= Between(write_pos'[q], read_pos'[q])
      <3>1. \A q \in Ports : Between(write_pos[q], read_pos[q]) \in Nat
        BY Distance
      <3> QED
        BY <2>1, <2>2, <2>3, <3>1, SMTT(30)
    <2>5. \A q \in Ports : /\ Between(write_pos[q], read_pos[q]) \in Nat
                          /\ Between(write_pos'[q], read_pos'[q]) \in Nat
      <3>1. \A q \in Ports : write_pos'[q] \in Cells /\ read_pos'[q] \in Cells
        BY <2>1, <2>3, Successor
      <3>2. \A q \in Ports : Between(write_pos'[q], read_pos'[q]) \in Nat
        <4> SUFFICES ASSUME NEW q \in Ports PROVE Between(write_pos'[q], read_pos'[q]) \in Nat
          OBVIOUS
        <4>1. write_pos'[q] \in Cells /\ read_pos'[q] \in Cells
          BY <3>1
        <4>2. Between(write_pos'[q], read_pos'[q]) \in 0 .. Size - 1
          BY <4>1, Distance
        <4> QED
          BY <4>2, SizeAssumption
      <3>3. \A q \in Ports : Between(write_pos[q], read_pos[q]) \in Nat
        BY Distance
      <3> QED
        BY <3>2, <3>3
    <2>6. \A q \in Ports : avail[q] <= Between(write_pos[q], read_pos[q])
                          /\ (rpc[q] # "idle" => want[q] <= Between(write_pos[q], read_pos[q]))
      BY DEF Between
    <2>7. \A q \in Ports : avail[q] \in Int /\ want[q] \in Int
      BY SizeAssumption
    <2>8. \A q \in Ports : avail[q] <= Between(write_pos'[q], read_pos'[q])
                          /\ (rpc[q] # "idle" => want[q] <= Between(write_pos'[q], read_pos'[q]))
      BY <2>4, <2>5, <2>6, <2>7, SMTT(30)
    <2> QED
      BY <2>3, <2>8 DEF Between
  <1>3. ASSUME NEW p \in Ports, Available(p)
        PROVE  (AvailableStaysTrue /\ ReadingWants)'
    <2>1. \A q \in Ports : Count(q) \in Nat
      BY Distance DEF Between
    <2> QED
      BY <1>3, <2>1 DEF Available
  <1>4. ASSUME NEW p \in Ports, Load(p)
        PROVE  (AvailableStaysTrue /\ ReadingWants)'
    BY <1>4 DEF Load
  <1>5. ASSUME NEW p \in Ports, AdvanceRead(p)
        PROVE  (AvailableStaysTrue /\ ReadingWants)'
    <2>1. Count(p) \in Nat /\ Count(p) >= want[p] /\ want[p] >= 1 /\ avail[p] = 0
      BY <1>5, Distance DEF AdvanceRead, Between
    <2>2. write_pos[p] # read_pos[p]
      BY <2>1, NothingBetween DEF Between
    <2>3. Between(write_pos[p], Succ(read_pos[p])) = Between(write_pos[p], read_pos[p]) - 1
      BY <2>2, OneLess
    <2>4. Count(p)' = Count(p) - 1
      BY <1>5, <2>3 DEF AdvanceRead, Between
    <2>5. \A q \in Ports \ {p} : Count(q)' = Count(q)
      BY <1>5 DEF AdvanceRead
    <2> HIDE DEF Count
    <2> QED
      BY <1>5, <2>1, <2>4, <2>5, SizeAssumption DEF AdvanceRead
  <1>6. ASSUME NEW p \in Ports, Open(p)
        PROVE  (AvailableStaysTrue /\ ReadingWants)'
    <2>1. Between(0, 0) \in Nat /\ 0 \in Cells
      BY Distance, SizeAssumption DEF Cells
    <2>2. Count(p)' \in Nat
      BY <1>6, <2>1 DEF Open, Between
    <2>3. \A q \in Ports \ {p} : Count(q)' = Count(q)
      BY <1>6 DEF Open
    <2> HIDE DEF Count
    <2> QED
      BY <1>6, <2>2, <2>3 DEF Open
  <1>7. ASSUME NEW p \in Ports, NEW n \in WriteCounts, NEW bytes \in [1 .. n -> Sends[p]],
               Write(p, bytes)
        PROVE  (AvailableStaysTrue /\ ReadingWants)'
    BY <1>7 DEF Write, WriteAnyway
  <1>8. ASSUME NEW p \in Ports, NEW n \in Asked(p), Read(p, n)
        PROVE  (AvailableStaysTrue /\ ReadingWants)'
    <2>1. Count(p) \in Nat /\ Count(p) # 0
      BY <1>8, Distance, NothingBetween DEF Between, Read, Asked, IsEmpty
    <2> HIDE DEF Count
    <2>2. UNCHANGED <<write_pos, read_pos>>
      BY <1>8 DEF Read, Asked
    <2>3. \A q \in Ports : Count(q)' = Count(q)
      BY <2>2 DEF Count
    <2> QED
      BY <1>8, <2>1, <2>3, SizeAssumption DEF Read, Asked
  <1>9. CASE UNCHANGED vars
    BY <1>9 DEF vars
  <1> QED
    BY <1>1, <1>2, <1>3, <1>4, <1>5, <1>6, <1>7, <1>8, <1>9 DEF Next

-----------------------------------------------------------------------------
(* Theorems.                                                               *)

\* The inductive invariant holds in every behaviour of one-byte writes.
LEMMA Inductive ==
    ASSUME WriteCounts = {1}
    PROVE  Spec => []IInv
  <1>1. Init => IInv
    <2> SUFFICES ASSUME Init PROVE IInv
      OBVIOUS
    <2>1. 0 \in Cells /\ 0 \in 0 .. Size - 1 /\ [i \in Cells |-> 0] \in [Cells -> Byte]
      BY SizeAssumption, ByteAssumption DEF Cells
    <2>2. TypeOK
      BY <2>1 DEF Init, TypeOK
    <2>3. \A p \in Ports : Count(p) \in Nat
      BY <2>2, Distance DEF TypeOK, Count, Between
    <2> QED
      BY <2>2, <2>3 DEF Init, IInv, OneByteLeft, StoresIntoRoom, AvailableStaysTrue,
                        ReadingWants
  <1>2. IInv /\ [Next]_vars => IInv'
    BY TypeStep, ByteStep, RoomStep, CountStep DEF IInv
  <1> QED
    BY <1>1, <1>2, PTL DEF Spec

\* Every position of the ring buffers stays inside them.
THEOREM PositionsInRange ==
    ASSUME WriteCounts = {1}
    PROVE  Spec => []TypeOK
  BY Inductive, PTL DEF IInv

\* memcom_write of one byte never stores into a cell the reader has not left,
\* whatever the interleaving with memcom_read on the other port.
THEOREM NoOverrun ==
    ASSUME WriteCounts = {1}
    PROVE  Spec => []StoresIntoRoom
  BY Inductive, PTL DEF IInv

\* What memcom_available reported can be read, whatever is written meanwhile.
THEOREM AvailableIsKept ==
    ASSUME WriteCounts = {1}
    PROVE  Spec => []AvailableStaysTrue
  BY Inductive, PTL DEF IInv
=============================================================================
