---------------------------- MODULE MemComRefines ----------------------------
(***************************************************************************)
(* Both directions of a pair of ports implement BytePipe when callers      *)
(* write one byte per call.                                                *)
(***************************************************************************)
EXTENDS MemComProofs

(* What lies in the ring, as a sequence.                                   *)

\* The n bytes of a buffer from a position on.
Bytes(b, first, n) == [i \in 1 .. n |-> b[(first + i - 1) % Size]]

\* They are bytes, n of them.
LEMMA BytesType ==
    ASSUME NEW b \in [Cells -> Byte], NEW first \in Nat, NEW n \in Nat
    PROVE  /\ Bytes(b, first, n) \in [1 .. n -> Byte]
           /\ Bytes(b, first, n) \in Seq(Byte)
           /\ Len(Bytes(b, first, n)) = n
  <1>1. ASSUME NEW x \in Nat PROVE x % Size \in Cells
    BY SizeAssumption DEF Cells
  <1>2. \A i \in 1 .. n : b[(first + i - 1) % Size] \in Byte
    BY <1>1
  <1>3. Bytes(b, first, n) \in [1 .. n -> Byte]
    BY <1>2 DEF Bytes
  <1> QED
    BY <1>3

\* One more at the end.
LEMMA BytesAppend ==
    ASSUME NEW b \in [Cells -> Byte], NEW first \in Nat, NEW n \in Nat
    PROVE  Bytes(b, first, n + 1) = Append(Bytes(b, first, n), b[(first + n) % Size])
  <1> DEFINE s == Bytes(b, first, n)
             t == Bytes(b, first, n + 1)
             e == b[(first + n) % Size]
  <1>1. s \in Seq(Byte) /\ Len(s) = n
    BY BytesType
  <1>2. t \in Seq(Byte) /\ Len(t) = n + 1
    BY BytesType
  <1>3. \A i \in 1 .. n : t[i] = s[i]
    BY DEF Bytes
  <1>4. t[n + 1] = e
    BY DEF Bytes
  <1>5. e \in Byte
    BY <1>2, <1>4
  <1> HIDE DEF s, t, e
  <1>6. Append(s, e) \in Seq(Byte) /\ Len(Append(s, e)) = n + 1
    BY <1>1, <1>5
  <1>7. \A i \in 1 .. n + 1 : Append(s, e)[i] = IF i = n + 1 THEN e ELSE s[i]
    BY <1>1, <1>5
  <1>8. ASSUME NEW i \in 1 .. n + 1
        PROVE  Append(s, e)[i] = t[i]
    <2>1. Append(s, e)[i] = IF i = n + 1 THEN e ELSE s[i]
      BY <1>7
    <2>2. CASE i = n + 1
      BY <2>1, <2>2, <1>4
    <2>3. CASE i # n + 1
      <3>1. i \in 1 .. n
        BY <2>3
      <3> QED
        BY <2>1, <2>3, <3>1, <1>3
    <2> QED
      BY <2>2, <2>3
  <1>9. t = Append(s, e)
    BY <1>2, <1>6, <1>8, SeqEqual
  <1> QED
    BY <1>9 DEF s, t, e

\* One less at the beginning.
LEMMA BytesTail ==
    ASSUME NEW b \in [Cells -> Byte], NEW first \in Nat, NEW n \in Nat \ {0}
    PROVE  /\ Bytes(b, first, n) # <<>>
           /\ Head(Bytes(b, first, n)) = b[first % Size]
           /\ Tail(Bytes(b, first, n)) = Bytes(b, first + 1, n - 1)
  <1> DEFINE s == Bytes(b, first, n)
             t == Bytes(b, first + 1, n - 1)
  <1>1. s \in Seq(Byte) /\ Len(s) = n
    BY BytesType
  <1>2. t \in Seq(Byte) /\ Len(t) = n - 1
    BY BytesType
  <1>3. s[1] = b[first % Size]
    BY DEF Bytes
  <1>4. \A i \in 1 .. n - 1 : s[i + 1] = t[i]
    BY DEF Bytes
  <1> HIDE DEF s, t
  <1>5. s # <<>> /\ Head(s) = s[1]
    BY <1>1
  <1>6. Tail(s) \in Seq(Byte) /\ Len(Tail(s)) = n - 1
    BY <1>1, <1>5, HeadTailProperties
  <1>7. \A i \in 1 .. n - 1 : Tail(s)[i] = s[i + 1]
    BY <1>1, <1>5
  <1>8. Tail(s) = t
    BY <1>2, <1>4, <1>6, <1>7, SeqEqual
  <1> QED
    BY <1>3, <1>5, <1>8 DEF s, t

\* None.
LEMMA BytesNone ==
    ASSUME NEW b, NEW first \in Nat
    PROVE  Bytes(b, first, 0) = <<>>
  BY DEF Bytes

\* A position is inside the ring.
LEMMA Inside ==
    ASSUME NEW c \in Cells
    PROVE  c % Size = c
  BY NoWrap, SizeAssumption DEF Cells

\* The bytes reach up to the write position and do not touch its cell.
LEMMA UpToWrite ==
    ASSUME NEW w \in Cells, NEW r \in Cells
    PROVE  /\ (r + Between(w, r)) % Size = w
           /\ \A k \in 0 .. Between(w, r) - 1 : (r + k) % Size # w
  <1>1. /\ Between(w, r) = IF w >= r THEN w - r ELSE w + Size - r
        /\ Between(w, r) \in 0 .. Size - 1
    BY Distance
  <1>2. CASE w >= r
    <2>1. r + Between(w, r) = w
      BY <1>1, <1>2 DEF Cells
    <2>2. ASSUME NEW k \in 0 .. Between(w, r) - 1
          PROVE  (r + k) % Size # w
      <3>1. r + k \in 0 .. Size - 1 /\ r + k # w
        BY <1>1, <1>2, SizeAssumption DEF Cells
      <3> QED
        BY <3>1, NoWrap, SizeAssumption
    <2> QED
      BY <2>1, <2>2, NoWrap, SizeAssumption DEF Cells
  <1>3. CASE w < r
    <2>1. r + Between(w, r) = w + Size /\ w + Size \in Size .. 2 * Size - 1
      BY <1>1, <1>3, SizeAssumption DEF Cells
    <2>2. (w + Size) % Size = w
      BY <2>1, Wrap, SizeAssumption DEF Cells
    <2>3. ASSUME NEW k \in 0 .. Between(w, r) - 1
          PROVE  (r + k) % Size # w
      <3>1. CASE r + k < Size
        <4>1. r + k \in 0 .. Size - 1 /\ r + k # w
          BY <1>1, <1>3, <3>1, SizeAssumption DEF Cells
        <4> QED
          BY <4>1, NoWrap, SizeAssumption
      <3>2. CASE r + k >= Size
        <4>1. r + k \in Size .. 2 * Size - 1 /\ (r + k) - Size # w
          BY <1>1, <1>3, <3>2, SizeAssumption DEF Cells
        <4> DEFINE x == r + k
        <4>2. x \in Size .. 2 * Size - 1 /\ Size \in Nat \ {0}
          BY <4>1, SizeAssumption
        <4> HIDE DEF x
        <4>3. x % Size = x - Size
          BY <4>2, Wrap
        <4>4. (r + k) % Size = (r + k) - Size
          BY <4>3 DEF x
        <4> QED
          BY <4>1, <4>4
      <3> QED
        BY <1>1, <3>1, <3>2, SizeAssumption DEF Cells
    <2> QED
      BY <2>1, <2>2, <2>3
  <1> QED
    BY <1>2, <1>3, SizeAssumption DEF Cells

\* Counting from the next position or from one past this one is the same.
LEMMA SuccShift ==
    ASSUME NEW r \in Cells, NEW k \in 0 .. Size - 1
    PROVE  (r + 1 + k) % Size = (Succ(r) + k) % Size
  <1>1. Succ(r) = IF r = Size - 1 THEN 0 ELSE r + 1
    BY Successor
  <1>2. CASE r = Size - 1
    <2>1. r + 1 + k \in Size .. 2 * Size - 1
      BY <1>2, SizeAssumption
    <2>2. (r + 1 + k) % Size = k
      BY <1>2, <2>1, Wrap, SizeAssumption
    <2>3. k % Size = k
      BY NoWrap, SizeAssumption
    <2> QED
      BY <1>1, <1>2, <2>2, <2>3
  <1>3. CASE r # Size - 1
    BY <1>1, <1>3
  <1> QED
    BY <1>2, <1>3

-----------------------------------------------------------------------------
(* The invariant.                                                          *)

\* A byte is in its cell before it is counted.
StoredFirst ==
    \A p \in Ports : wpc[p] = "advance" => buff[Peer(p)][write_pos[Peer(p)]] = Head(todo[p])

PInv == IInv /\ StoredFirst

LEMMA StoredStep ==
    ASSUME PInv, [Next]_vars
    PROVE  StoredFirst'
  <1> USE DEF PInv, IInv, TypeOK, StoredFirst, ring, writer, reader, Ports, Peer
  <1>1. ASSUME NEW p \in Ports, Store(p)
        PROVE  StoredFirst'
    BY <1>1 DEF Store, StoreIn
  <1>2. ASSUME NEW p \in Ports, AdvanceWrite(p)
        PROVE  StoredFirst'
    BY <1>2 DEF AdvanceWrite
  <1>3. ASSUME NEW p \in Ports, Available(p)
        PROVE  StoredFirst'
    BY <1>3 DEF Available
  <1>4. ASSUME NEW p \in Ports, Load(p)
        PROVE  StoredFirst'
    BY <1>4 DEF Load
  <1>5. ASSUME NEW p \in Ports, AdvanceRead(p)
        PROVE  StoredFirst'
    BY <1>5 DEF AdvanceRead
  <1>6. ASSUME NEW p \in Ports, Open(p)
        PROVE  StoredFirst'
    BY <1>6 DEF Open
  <1>7. ASSUME NEW p \in Ports, NEW n \in WriteCounts, NEW bytes \in [1 .. n -> Sends[p]],
               Write(p, bytes)
        PROVE  StoredFirst'
    BY <1>7 DEF Write, WriteAnyway
  <1>8. ASSUME NEW p \in Ports, NEW n \in Asked(p), Read(p, n)
        PROVE  StoredFirst'
    BY <1>8 DEF Read, Asked
  <1>9. CASE UNCHANGED vars
    BY <1>9 DEF vars
  <1> QED
    BY <1>1, <1>2, <1>3, <1>4, <1>5, <1>6, <1>7, <1>8, <1>9 DEF Next

LEMMA PipeInductive ==
    ASSUME WriteCounts = {1}
    PROVE  Spec => []PInv
  <1>1. Init => StoredFirst
    BY DEF Init, StoredFirst
  <1>2. PInv /\ [Next]_vars => StoredFirst'
    BY StoredStep
  <1> QED
    BY <1>1, <1>2, Inductive, PTL DEF Spec, PInv

-----------------------------------------------------------------------------
(* The pipe of one port.                                                   *)

\* The byte the reader has copied is not under way any more.
Copied(p) == IF rpc[p] = "advance" THEN 1 ELSE 0

\* UnderWay in the words of Bytes; a reading port has a byte in the ring.
LEMMA UnderWayIs ==
    ASSUME PInv, NEW p \in Ports
    PROVE  /\ UnderWay(p) = Bytes(buff[p], read_pos[p] + Copied(p), Count(p) - Copied(p))
           /\ Count(p) = Between(write_pos[p], read_pos[p])
           /\ Count(p) \in 0 .. Size - 1
           /\ Count(p) - Copied(p) \in Nat
           /\ rpc[p] # "idle" => Count(p) >= 1
           /\ read_pos[p] \in Cells /\ write_pos[p] \in Cells /\ buff[p] \in [Cells -> Byte]
           /\ read_pos[p] \in Nat
  <1>1. read_pos[p] \in Cells /\ write_pos[p] \in Cells /\ buff[p] \in [Cells -> Byte]
    BY DEF PInv, IInv, TypeOK
  <1>2. Count(p) = Between(write_pos[p], read_pos[p])
    BY DEF Count, Between
  <1>3. Count(p) \in 0 .. Size - 1
    BY <1>1, <1>2, Distance
  <1>4. rpc[p] # "idle" => Count(p) >= 1
    <2>1. want[p] \in Int
      BY SizeAssumption DEF PInv, IInv, TypeOK
    <2> QED
      BY <2>1, <1>3, SizeAssumption DEF PInv, IInv, AvailableStaysTrue, ReadingWants
  <1>5. Count(p) - Copied(p) \in Nat
    BY <1>3, <1>4, SizeAssumption DEF Copied
  <1>6. UnderWay(p) = Bytes(buff[p], read_pos[p] + Copied(p), Count(p) - Copied(p))
    BY DEF UnderWay, Bytes, Copied
  <1> QED
    BY <1>1, <1>2, <1>3, <1>4, <1>5, <1>6 DEF Cells

\* A step of a pipe, or none.
PipePut(p)   == \E byte \in Byte : /\ Len(UnderWay(p)) < Size - 1
                                  /\ UnderWay(p)' = Append(UnderWay(p), byte)
                                  /\ got'[p] = got[p]
PipeTake(p)  == /\ UnderWay(p) # <<>> /\ UnderWay(p)' = Tail(UnderWay(p))
                /\ got'[p] = Append(got[p], Head(UnderWay(p)))
PipeBegin(p) == got'[p] = <<>> /\ UnderWay(p)' = UnderWay(p)
PipeReset(p) == UnderWay(p)' = <<>> /\ got'[p] = got[p]
PipeRests(p) == UnderWay(p)' = UnderWay(p) /\ got'[p] = got[p]

\* A port whose reader and whose buffer stay as they are rests.
LEMMA Untouched ==
    ASSUME NEW p \in Ports, buff'[p] = buff[p], read_pos'[p] = read_pos[p],
           write_pos'[p] = write_pos[p], rpc'[p] = rpc[p], got'[p] = got[p]
    PROVE  PipeRests(p)
  BY DEF PipeRests, UnderWay, Count

\* Storing a byte changes nothing that is under way.
LEMMA StoreRests ==
    ASSUME PInv, NEW p \in Ports, Store(Peer(p))
    PROVE  PipeRests(p)
  <1> DEFINE w == write_pos[p]
             r == read_pos[p]
             f == r + Copied(p)
             n == Count(p) - Copied(p)
  <1>1. /\ UnderWay(p) = Bytes(buff[p], f, n)
        /\ Count(p) = Between(w, r) /\ Count(p) \in 0 .. Size - 1
        /\ n \in Nat /\ r \in Cells /\ w \in Cells /\ buff[p] \in [Cells -> Byte]
        /\ r \in Nat
    BY UnderWayIs
  <1>2. /\ buff' = [buff EXCEPT ![p][w] = Head(todo[Peer(p)])]
        /\ UNCHANGED <<size, write_pos, read_pos, todo, reader>>
    BY PeerIsPort DEF Store, StoreIn
  <1>3. \A c \in Cells \ {w} : buff'[p][c] = buff[p][c]
    BY <1>1, <1>2 DEF PInv, IInv, TypeOK
  <1>4. UnderWay(p)' = Bytes(buff'[p], f, n)
    BY <1>2 DEF UnderWay, Bytes, Copied, Count, reader
  <1>5. ASSUME NEW i \in 1 .. n
        PROVE  buff'[p][(f + i - 1) % Size] = buff[p][(f + i - 1) % Size]
    <2>1. f + i - 1 \in Nat
      BY <1>1 DEF Copied
    <2>2. (f + i - 1) % Size \in Cells
      BY <2>1, SizeAssumption DEF Cells
    <2>3. PICK k \in 0 .. Between(w, r) - 1 : f + i - 1 = r + k
      <3>1. Copied(p) + i - 1 \in 0 .. Between(w, r) - 1
        BY <1>1 DEF Copied
      <3> QED
        BY <1>1, <3>1 DEF Copied
    <2>4. (r + k) % Size # w
      BY <1>1, <2>3, UpToWrite
    <2> QED
      BY <1>3, <2>2, <2>3, <2>4
  <1>6. Bytes(buff'[p], f, n) = Bytes(buff[p], f, n)
    BY <1>5 DEF Bytes
  <1> QED
    BY <1>1, <1>2, <1>4, <1>6 DEF PipeRests, reader

\* Counting the byte puts it into the pipe.
LEMMA AdvancePuts ==
    ASSUME PInv, NEW p \in Ports, AdvanceWrite(Peer(p))
    PROVE  PipePut(p)
  <1> DEFINE w == write_pos[p]
             r == read_pos[p]
             f == r + Copied(p)
             n == Count(p) - Copied(p)
             byte == Head(todo[Peer(p)])
  <1>1. /\ UnderWay(p) = Bytes(buff[p], f, n)
        /\ Count(p) = Between(w, r) /\ Count(p) \in 0 .. Size - 1
        /\ n \in Nat /\ r \in Cells /\ w \in Cells /\ buff[p] \in [Cells -> Byte]
        /\ r \in Nat
    BY UnderWayIs
  <1>2. /\ wpc[Peer(p)] = "advance"
        /\ write_pos' = [write_pos EXCEPT ![p] = Succ(@)]
        /\ UNCHANGED <<size, read_pos, buff, reader>>
    BY PeerIsPort DEF AdvanceWrite
  <1>3. buff[p][w] = byte /\ byte \in Byte
    <2>1. todo[Peer(p)] \in Seq(Byte) /\ Len(todo[Peer(p)]) = 1
      BY <1>2, PeerIsPort DEF PInv, IInv, TypeOK, OneByteLeft
    <2> QED
      BY <1>2, <2>1, LastByte, PeerIsPort DEF PInv, StoredFirst
  <1>4. Succ(w) # r
    BY <1>2, PeerIsPort DEF PInv, IInv, StoresIntoRoom, IsFull
  <1>5. write_pos'[p] = Succ(w)
    BY <1>2 DEF PInv, IInv, TypeOK
  <1>6. Count(p)' = Count(p) + 1
    <2>1. Between(Succ(w), r) = Between(w, r) + 1
      BY <1>1, <1>4, OneMore
    <2>2. Count(p)' = Between(Succ(w), r)
      BY <1>2, <1>5 DEF Count, Between
    <2> QED
      BY <1>1, <2>1, <2>2
  <1>7. Count(p) + 1 \in 0 .. Size - 1
    <2>1. Succ(w) \in Cells /\ Count(p)' = Between(Succ(w), r)
      BY <1>1, <1>2, <1>5, Successor DEF Count, Between
    <2> QED
      BY <1>1, <1>6, <2>1, Distance
  <1>8. UnderWay(p)' = Bytes(buff[p], f, n + 1)
    <2>1. Copied(p)' = Copied(p)
      BY <1>2 DEF Copied, reader
    <2>2. UnderWay(p)' = Bytes(buff[p], read_pos[p] + Copied(p), (Count(p) + 1) - Copied(p))
      BY <1>2, <1>6, <2>1 DEF UnderWay, Bytes, Copied
    <2>3. (Count(p) + 1) - Copied(p) = n + 1
      BY <1>1 DEF Copied
    <2> QED
      BY <2>2, <2>3
  <1>9. f \in Nat
    BY <1>1 DEF Copied
  <1>10. buff[p][(f + n) % Size] = byte
    <2>1. f + n = r + Between(w, r)
      BY <1>1 DEF Copied
    <2>2. (r + Between(w, r)) % Size = w
      BY <1>1, UpToWrite
    <2> QED
      BY <1>3, <2>1, <2>2
  <1>11. UnderWay(p)' = Append(UnderWay(p), byte)
    BY <1>1, <1>8, <1>9, <1>10, BytesAppend
  <1>12. Len(UnderWay(p)) < Size - 1
    <2>1. Len(UnderWay(p)) = n
      BY <1>1, <1>9, BytesType
    <2> QED
      BY <1>1, <1>7, <2>1, SizeAssumption DEF Copied
  <1>13. got'[p] = got[p]
    BY <1>2 DEF reader
  <1> QED
    BY <1>3, <1>11, <1>12, <1>13 DEF PipePut

\* Copying a byte takes it.
LEMMA LoadTakes ==
    ASSUME PInv, NEW p \in Ports, Load(p)
    PROVE  PipeTake(p)
  <1> DEFINE r == read_pos[p]
             n == Count(p)
  <1>1. rpc[p] = "load" /\ rpc'[p] = "advance" /\ UNCHANGED <<ring, writer>>
    BY DEF Load, PInv, IInv, TypeOK
  <1>2. /\ UnderWay(p) = Bytes(buff[p], r + Copied(p), n - Copied(p))
        /\ n \in 0 .. Size - 1 /\ n >= 1
        /\ r \in Cells /\ buff[p] \in [Cells -> Byte] /\ r \in Nat
    BY <1>1, UnderWayIs
  <1>3. n \in Nat \ {0} /\ UnderWay(p) = Bytes(buff[p], r, n)
    BY <1>1, <1>2, SizeAssumption DEF Copied
  <1>4. UnderWay(p)' = Bytes(buff[p], r + 1, n - 1)
    BY <1>1 DEF UnderWay, Bytes, Count, ring
  <1>5. r % Size = r
    BY <1>2, Inside
  <1>6. got'[p] = Append(got[p], buff[p][r])
    BY DEF Load, PInv, IInv, TypeOK
  <1>7. /\ UnderWay(p) # <<>> /\ Head(UnderWay(p)) = buff[p][r]
        /\ Tail(UnderWay(p)) = Bytes(buff[p], r + 1, n - 1)
    <2> HIDE DEF r, n
    <2>1. /\ Bytes(buff[p], r, n) # <<>>
          /\ Head(Bytes(buff[p], r, n)) = buff[p][r % Size]
          /\ Tail(Bytes(buff[p], r, n)) = Bytes(buff[p], r + 1, n - 1)
      BY <1>2, <1>3, BytesTail
    <2> QED
      BY <2>1, <1>3, <1>5
  <1> QED
    BY <1>4, <1>6, <1>7 DEF PipeTake

\* Passing a copied byte changes nothing that is under way.
LEMMA AdvanceRests ==
    ASSUME PInv, NEW p \in Ports, AdvanceRead(p)
    PROVE  PipeRests(p)
  <1> DEFINE w == write_pos[p]
             r == read_pos[p]
             n == Count(p)
  <1>1. /\ rpc[p] = "advance" /\ rpc'[p] # "advance" /\ read_pos'[p] = Succ(r)
        /\ UNCHANGED <<size, write_pos, buff, writer, got, avail>>
    BY DEF AdvanceRead, PInv, IInv, TypeOK
  <1>2. /\ UnderWay(p) = Bytes(buff[p], r + Copied(p), n - Copied(p))
        /\ n = Between(w, r) /\ n \in 0 .. Size - 1 /\ n >= 1
        /\ r \in Cells /\ w \in Cells /\ buff[p] \in [Cells -> Byte] /\ r \in Nat
    BY <1>1, UnderWayIs
  <1>3. UnderWay(p) = Bytes(buff[p], r + 1, n - 1)
    BY <1>1, <1>2 DEF Copied
  <1>4. Count(p)' = n - 1
    <2>1. w # r
      BY <1>2, NothingBetween
    <2>2. Between(w, Succ(r)) = Between(w, r) - 1
      BY <1>2, <2>1, OneLess
    <2> QED
      BY <1>1, <1>2, <2>2 DEF Count, Between
  <1>5. UnderWay(p)' = Bytes(buff[p], Succ(r), n - 1)
    <2>1. UnderWay(p)' = Bytes(buff[p], Succ(r) + 0, (n - 1) - 0)
      BY <1>1, <1>4 DEF UnderWay, Bytes
    <2>2. Succ(r) \in Nat
      BY <1>2, Successor, SizeAssumption DEF Cells
    <2>3. Succ(r) + 0 = Succ(r) /\ (n - 1) - 0 = n - 1
      BY <1>2, <2>2
    <2> QED
      BY <2>1, <2>3
  <1>6. ASSUME NEW i \in 1 .. n - 1
        PROVE  ((r + 1) + i - 1) % Size = (Succ(r) + i - 1) % Size
    <2>1. i - 1 \in 0 .. Size - 1
      BY <1>2, SizeAssumption
    <2>2. (r + 1 + (i - 1)) % Size = (Succ(r) + (i - 1)) % Size
      BY <1>2, <2>1, SuccShift
    <2>3. Succ(r) \in Nat
      BY <1>2, Successor, SizeAssumption DEF Cells
    <2>4. r + 1 + (i - 1) = (r + 1) + i - 1 /\ Succ(r) + (i - 1) = Succ(r) + i - 1
      BY <1>2, <2>3
    <2> QED
      BY <2>2, <2>4
  <1>7. Bytes(buff[p], r + 1, n - 1) = Bytes(buff[p], Succ(r), n - 1)
    BY <1>6 DEF Bytes
  <1> QED
    BY <1>1, <1>3, <1>5, <1>7 DEF PipeRests

\* Opening a port empties its pipe.
LEMMA OpenResets ==
    ASSUME PInv, NEW p \in Ports, Open(p)
    PROVE  PipeReset(p)
  <1>1. /\ rpc'[p] = "idle" /\ write_pos'[p] = 0 /\ read_pos'[p] = 0 /\ got'[p] = got[p]
    BY DEF Open, PInv, IInv, TypeOK
  <1>2. Count(p)' = 0
    BY <1>1, NoWrap, Wrap, SizeAssumption DEF Count
  <1>3. UnderWay(p)' = <<>>
    BY <1>1, <1>2 DEF UnderWay
  <1> QED
    BY <1>1, <1>3 DEF PipeReset

\* A read call that begins has collected nothing.
LEMMA ReadBegins ==
    ASSUME PInv, NEW p \in Ports, NEW n \in Asked(p), Read(p, n)
    PROVE  PipeBegin(p)
  <1>1. /\ rpc[p] # "advance" /\ rpc'[p] # "advance" /\ got'[p] = <<>>
        /\ UNCHANGED <<ring, writer>>
    BY DEF Read, Asked, PInv, IInv, TypeOK
  <1> QED
    BY <1>1 DEF PipeBegin, UnderWay, Count, ring

-----------------------------------------------------------------------------
(* The refinement.                                                         *)

\* Every step of the ports is a step of each pipe, or leaves it alone.
LEMMA PipeSteps ==
    ASSUME PInv, [Next]_vars, NEW p \in Ports
    PROVE  PipePut(p) \/ PipeTake(p) \/ PipeBegin(p) \/ PipeReset(p) \/ PipeRests(p)
  <1> USE DEF ring, writer, reader
  <1>0. ASSUME NEW q \in Ports, q # Peer(p)
        PROVE  q = p
    BY <1>0 DEF Ports, Peer
  <1>1. ASSUME NEW q \in Ports, Store(q)
        PROVE  PipeRests(p)
    <2>1. CASE q = Peer(p)
      BY <1>1, <2>1, StoreRests
    <2>2. CASE q # Peer(p)
      <3>1. Peer(q) # p /\ Peer(q) \in Ports
        BY <1>0, <2>2, PeerIsPort
      <3> QED
        BY <1>1, <3>1, Untouched DEF Store, StoreIn, PInv, IInv, TypeOK
    <2> QED
      BY <2>1, <2>2
  <1>2. ASSUME NEW q \in Ports, AdvanceWrite(q)
        PROVE  PipePut(p) \/ PipeRests(p)
    <2>1. CASE q = Peer(p)
      BY <1>2, <2>1, AdvancePuts
    <2>2. CASE q # Peer(p)
      <3>1. Peer(q) # p /\ Peer(q) \in Ports
        BY <1>0, <2>2, PeerIsPort
      <3> QED
        BY <1>2, <3>1, Untouched DEF AdvanceWrite, PInv, IInv, TypeOK
    <2> QED
      BY <2>1, <2>2
  <1>3. ASSUME NEW q \in Ports, Available(q)
        PROVE  PipeRests(p)
    BY <1>3, Untouched DEF Available
  <1>4. ASSUME NEW q \in Ports, Load(q)
        PROVE  PipeTake(p) \/ PipeRests(p)
    <2>1. CASE q = p
      BY <1>4, <2>1, LoadTakes
    <2>2. CASE q # p
      BY <1>4, <2>2, Untouched DEF Load, PInv, IInv, TypeOK
    <2> QED
      BY <2>1, <2>2
  <1>5. ASSUME NEW q \in Ports, AdvanceRead(q)
        PROVE  PipeRests(p)
    <2>1. CASE q = p
      BY <1>5, <2>1, AdvanceRests
    <2>2. CASE q # p
      BY <1>5, <2>2, Untouched DEF AdvanceRead, PInv, IInv, TypeOK
    <2> QED
      BY <2>1, <2>2
  <1>6. ASSUME NEW q \in Ports, Open(q)
        PROVE  PipeReset(p) \/ PipeRests(p)
    <2>1. CASE q = p
      BY <1>6, <2>1, OpenResets
    <2>2. CASE q # p
      BY <1>6, <2>2, Untouched DEF Open, PInv, IInv, TypeOK
    <2> QED
      BY <2>1, <2>2
  <1>7. ASSUME NEW q \in Ports, NEW n \in WriteCounts, NEW bytes \in [1 .. n -> Sends[q]],
               Write(q, bytes)
        PROVE  PipeRests(p)
    BY <1>7, Untouched DEF Write, WriteAnyway
  <1>8. ASSUME NEW q \in Ports, NEW n \in Asked(q), Read(q, n)
        PROVE  PipeBegin(p) \/ PipeRests(p)
    <2>1. CASE q = p
      BY <1>8, <2>1, ReadBegins
    <2>2. CASE q # p
      BY <1>8, <2>2, Untouched DEF Read, Asked, PInv, IInv, TypeOK
    <2> QED
      BY <2>1, <2>2
  <1>9. CASE UNCHANGED vars
    BY <1>9, Untouched DEF vars
  <1> QED
    BY <1>1, <1>2, <1>3, <1>4, <1>5, <1>6, <1>7, <1>8, <1>9 DEF Next

\* At first nothing is under way.
LEMMA PipeStarts ==
    ASSUME Init, NEW p \in Ports
    PROVE  UnderWay(p) = <<>> /\ got[p] = <<>>
  <1>1. write_pos[p] = 0 /\ read_pos[p] = 0 /\ rpc[p] = "idle" /\ got[p] = <<>>
    BY DEF Init
  <1>2. Count(p) = 0
    BY <1>1, NoWrap, Wrap, SizeAssumption DEF Count
  <1> QED
    BY <1>1, <1>2 DEF UnderWay

\* Each direction is a bounded pipe: bytes arrive in the order they were sent,
\* none is lost, none is made up, whatever the two ports do between two accesses.
THEOREM PortsImplementPipes ==
    ASSUME WriteCounts = {1}
    PROVE  Spec => PortsArePipes
  <1>1. Init => ToZero!Init /\ ToOne!Init
    BY PipeStarts DEF ToZero!Init, ToOne!Init, Ports
  <1>2. PInv /\ [Next]_vars => [ToZero!Next]_<<UnderWay(0), got[0]>>
    <2> SUFFICES ASSUME PInv, [Next]_vars
                 PROVE  [ToZero!Next]_<<UnderWay(0), got[0]>>
      OBVIOUS
    <2>1. PipePut(0) \/ PipeTake(0) \/ PipeBegin(0) \/ PipeReset(0) \/ PipeRests(0)
      BY PipeSteps DEF Ports
    <2> QED
      BY <2>1 DEF PipePut, PipeTake, PipeBegin, PipeReset, PipeRests,
                  ToZero!Next, ToZero!Put, ToZero!Take, ToZero!Begin, ToZero!Reset
  <1>3. PInv /\ [Next]_vars => [ToOne!Next]_<<UnderWay(1), got[1]>>
    <2> SUFFICES ASSUME PInv, [Next]_vars
                 PROVE  [ToOne!Next]_<<UnderWay(1), got[1]>>
      OBVIOUS
    <2>1. PipePut(1) \/ PipeTake(1) \/ PipeBegin(1) \/ PipeReset(1) \/ PipeRests(1)
      BY PipeSteps DEF Ports
    <2> QED
      BY <2>1 DEF PipePut, PipeTake, PipeBegin, PipeReset, PipeRests,
                  ToOne!Next, ToOne!Put, ToOne!Take, ToOne!Begin, ToOne!Reset
  <1> QED
    BY <1>1, <1>2, <1>3, PipeInductive, PTL DEF Spec, ToZero!Spec, ToOne!Spec, PortsArePipes
=============================================================================
