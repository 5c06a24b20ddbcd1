-------------------------- MODULE FsBackendsProofs --------------------------
(***************************************************************************)
(* Theorems about FsBackends, for any set of backends and any size of the  *)
(* file.                                                                   *)
(***************************************************************************)
EXTENDS FsBackends, TLAPS

-----------------------------------------------------------------------------
(* Transfers.                                                              *)

\* What a transfer of at most count bytes does: the position advances by n, and
\* the caller is told of no more than that.
LEMMA TransferMoves ==
    ASSUME TypeOK, NEW count \in Nat, Transfer(count)
    PROVE  \E n \in 0 .. count :
              /\ pos' = pos + n
              /\ told' = told \/ (n > 0 /\ told' = Larger(told, pos + n))
  <1>1. PICK n \in 0 .. count, ok \in BOOLEAN :
           /\ pos' = pos + n
           /\ told' = LET r == Reported(IF ok THEN n ELSE -1)
                      IN  IF r > 0 THEN Larger(told, pos + r) ELSE told
    BY DEF Transfer
  <1>2. CASE ok
    BY <1>1, <1>2 DEF Reported
  <1>3. CASE ~ok
    BY <1>1, <1>3 DEF Reported
  <1> QED
    BY <1>1, <1>2, <1>3

\* The status members after a transfer.
LEMMA TransferStatus ==
    ASSUME TypeOK, NEW count \in Nat, Transfer(count)
    PROVE  /\ stat_init' = stat_init
           /\ stat_last' \in {"UNSET", "OK", "ERR"} /\ stat_err' \in {"OK", "ERR"}
  <1>1. PICK ok \in BOOLEAN : CheckTransfer(ok)
    BY DEF Transfer
  <1> QED
    BY <1>1 DEF CheckTransfer, Check, status, TypeOK

\* A write stays inside the file's bound and makes the file long enough.
LEMMA WriteKeeps ==
    ASSUME TypeOK, Write
    PROVE  /\ pos' \in 0 .. MaxSize /\ size' \in 0 .. MaxSize /\ told' \in 0 .. MaxSize
           /\ told <= size => told' <= size'
  <1>1. MaxSize - pos \in Nat /\ pos \in Nat /\ size \in Nat /\ told \in Nat /\ MaxSize \in Nat
    BY SizeAssumption DEF TypeOK
  <1>2. PICK n \in 0 .. MaxSize - pos :
           /\ pos' = pos + n
           /\ told' = told \/ (n > 0 /\ told' = Larger(told, pos + n))
    BY <1>1, TransferMoves DEF Write
  <1>3. size' = IF pos' > pos THEN Larger(size, pos') ELSE size
    BY DEF Write
  <1> QED
    BY <1>1, <1>2, <1>3 DEF Larger, TypeOK

\* A read does not go beyond the end of the file.
LEMMA ReadKeeps ==
    ASSUME TypeOK, Read
    PROVE  /\ pos' \in 0 .. MaxSize /\ size' = size /\ told' \in 0 .. MaxSize
           /\ told <= size => told' <= size
  <1>1. pos \in Nat /\ size \in Nat /\ told \in Nat /\ MaxSize \in Nat
    BY SizeAssumption DEF TypeOK
  <1>2. Larger(size - pos, 0) \in Nat
    BY <1>1 DEF Larger
  <1>3. PICK n \in 0 .. Larger(size - pos, 0) :
           /\ pos' = pos + n
           /\ told' = told \/ (n > 0 /\ told' = Larger(told, pos + n))
    BY <1>2, TransferMoves DEF Read
  <1>4. size' = size
    BY DEF Read
  <1> QED
    BY <1>1, <1>3, <1>4 DEF Larger, TypeOK

-----------------------------------------------------------------------------
(* The inductive invariant.                                                *)

\* yaffs mounts on a device only, a device is not given back, and an open file is
\* on a mounted volume.
MountedHasDevice ==
    backend = "yaffs" => /\ mounted => device
                         /\ call \in {"wipe", "detached", "erased"} => device
                         /\ file = "open" => mounted

\* Only yaffs calls have several steps; the collector stands still meanwhile.
CallStopsGc == ~Idle => backend = "yaffs" /\ ~gc

IInv == /\ TypeOK /\ MountedHasDevice /\ CallStopsGc
        /\ MountedIsCollected /\ ReportedIsThere

\* A write or a read changes only the file and, with it, the status.
LEMMA TransferStep ==
    ASSUME TypeOK, Write \/ Read
    PROVE  /\ UNCHANGED <<backend, volume, file>>
           /\ TypeOK' /\ (told <= size => told' <= size')
  <1>1. MaxSize - pos \in Nat /\ Larger(size - pos, 0) \in Nat
    BY SizeAssumption DEF TypeOK, Larger
  <1>2. UNCHANGED <<backend, volume, file>>
    BY DEF Write, Read
  <1>3. /\ stat_init' = stat_init
        /\ stat_last' \in {"UNSET", "OK", "ERR"} /\ stat_err' \in {"OK", "ERR"}
    BY <1>1, TransferStatus DEF Write, Read
  <1>4. /\ pos' \in 0 .. MaxSize /\ size' \in 0 .. MaxSize /\ told' \in 0 .. MaxSize
        /\ told <= size => told' <= size'
    BY WriteKeeps, ReadKeeps DEF TypeOK
  <1> QED
    BY <1>2, <1>3, <1>4 DEF TypeOK, volume

\* Every step keeps to the types.
LEMMA TypeStep ==
    ASSUME TypeOK, [Next]_vars
    PROVE  TypeOK'
  <1> USE DEF TypeOK, volume, status, handle
  <1>1. CASE y_init
    <2>1. gc' \in BOOLEAN /\ device' \in BOOLEAN
      BY <1>1, ZenonT(40) DEF y_init
    <2>2. UNCHANGED <<backend, mounted, call, halted, status, handle>>
      BY <1>1 DEF y_init
    <2> QED
      BY <2>1, <2>2
  <1>2. CASE ff_init
    BY <1>2 DEF ff_init
  <1>3. CASE y_mount
    BY <1>3 DEF y_mount, Mount
  <1>4. CASE ff_mount
    BY <1>4 DEF ff_mount, Lost
  <1>5. CASE posix_mount
    BY <1>5 DEF posix_mount
  <1>6. CASE y_unmount
    BY <1>6 DEF y_unmount, StopGc
  <1>7. CASE Unmount
    BY <1>7 DEF Unmount
  <1>8. CASE ff_unmount
    BY <1>8 DEF ff_unmount, Lost
  <1>9. CASE Format
    <2>1. /\ device' \in BOOLEAN /\ mounted' \in BOOLEAN /\ size' \in {0, size}
          /\ UNCHANGED <<backend, gc, call, halted, stat_last, stat_err>>
      BY <1>9 DEF Format
    <2>2. stat_init' \in {stat_init, "OK", "ERR"} /\ file' \in {file, "lost"}
          /\ UNCHANGED <<pos, told>>
      BY <1>9 DEF Format, Lost
    <2> QED
      BY <2>1, <2>2, SizeAssumption
  <1>10. CASE y_wipe
    BY <1>10 DEF y_wipe, StopGc
  <1>11. CASE WipeCrashes
    BY <1>11 DEF WipeCrashes
  <1>12. CASE Detach \/ Erase
    <2>1. CASE Detach
      BY <2>1 DEF Detach, Lost
    <2>2. CASE Erase
      <3>1. /\ call' \in {"erased", "idle"} /\ halted' \in {halted, mounted}
            /\ size' \in {0, size}
            /\ UNCHANGED <<backend, device, mounted, gc, status, file, pos, told>>
        BY <2>2 DEF Erase
      <3>2. halted' \in BOOLEAN
        BY <3>1, Zenon
      <3>3. size' \in 0 .. MaxSize
        BY <3>1, SizeAssumption
      <3> QED
        BY <3>1, <3>2, <3>3
    <2> QED
      BY <1>12, <2>1, <2>2
  <1>13. CASE WipeEnds
    BY <1>13 DEF WipeEnds
  <1>14. CASE Open
    BY <1>14, SizeAssumption DEF Open
  <1>15. CASE Close
    BY <1>15 DEF Close
  <1>16. CASE Write \/ Read
    BY <1>16, TransferStep
  <1>17. CASE Seek
    BY <1>17, SizeAssumption DEF Seek
  <1>18. CASE posix_eof_size
    BY <1>18 DEF posix_eof_size
  <1>19. CASE ff_asks
    BY <1>19 DEF ff_asks, Check
  <1>20. CASE UNCHANGED vars
    BY <1>20 DEF vars
  <1> QED
    BY <1>1, <1>2, <1>3, <1>4, <1>5, <1>6, <1>7, <1>8, <1>9, <1>10, <1>11,
       <1>12, <1>13, <1>14, <1>15, <1>16, <1>17, <1>18, <1>19, <1>20
       DEF Next, VolumeCall, FileCall

\* A mounted volume keeps its device.
LEMMA DeviceStep ==
    ASSUME TypeOK, MountedHasDevice, [Next]_vars
    PROVE  MountedHasDevice'
  <1> USE DEF MountedHasDevice, volume, handle, Idle
  <1>1. CASE y_init
    BY <1>1 DEF y_init
  <1>2. CASE ff_init
    BY <1>2 DEF ff_init
  <1>3. CASE y_mount
    <2>1. PICK ok \in BOOLEAN :
             /\ ok => device /\ ~mounted
             /\ mounted' = (mounted \/ ok)
             /\ UNCHANGED <<backend, device, call, file>>
      BY <1>3 DEF y_mount, Mount
    <2>2. CASE ok
      BY <2>1, <2>2, Zenon
    <2>3. CASE ~ok
      <3>1. mounted' = mounted
        BY <2>1, <2>3, Zenon DEF TypeOK
      <3> QED
        BY <2>1, <3>1
    <2> QED
      BY <2>2, <2>3
  <1>4. CASE ff_mount
    BY <1>4 DEF ff_mount, Lost
  <1>5. CASE posix_mount
    BY <1>5 DEF posix_mount
  <1>6. CASE y_unmount
    BY <1>6 DEF y_unmount, StopGc
  <1>7. CASE Unmount
    BY <1>7 DEF Unmount
  <1>8. CASE ff_unmount
    BY <1>8 DEF ff_unmount, Lost
  <1>9. CASE Format
    <2>1. backend = "yaffs" => device' = device
      BY <1>9 DEF Format
    <2>2. UNCHANGED <<backend, call>> /\ Idle
      BY <1>9 DEF Format
    <2>3. \/ UNCHANGED <<mounted, file>>
          \/ UNCHANGED mounted /\ file' # "open"
          \/ mounted' = FALSE /\ file' # "open"
      BY <1>9 DEF Format, Lost
    <2> QED
      BY <2>1, <2>2, <2>3
  <1>10. CASE y_wipe
    BY <1>10 DEF y_wipe, StopGc
  <1>11. CASE WipeCrashes
    BY <1>11 DEF WipeCrashes
  <1>12. CASE Detach \/ Erase
    BY <1>12 DEF Detach, Erase, Lost
  <1>13. CASE WipeEnds
    BY <1>13 DEF WipeEnds
  <1>14. CASE Open
    BY <1>14 DEF Open
  <1>15. CASE Close
    BY <1>15 DEF Close
  <1>16. CASE Write \/ Read
    BY <1>16, TransferStep
  <1>17. CASE Seek
    BY <1>17 DEF Seek
  <1>18. CASE posix_eof_size
    BY <1>18 DEF posix_eof_size
  <1>19. CASE ff_asks
    BY <1>19 DEF ff_asks, Check
  <1>20. CASE UNCHANGED vars
    BY <1>20 DEF vars
  <1> QED
    BY <1>1, <1>2, <1>3, <1>4, <1>5, <1>6, <1>7, <1>8, <1>9, <1>10, <1>11,
       <1>12, <1>13, <1>14, <1>15, <1>16, <1>17, <1>18, <1>19, <1>20
       DEF Next, VolumeCall, FileCall

\* The collector stands still during a call.
LEMMA GcStep ==
    ASSUME TypeOK, CallStopsGc, [Next]_vars
    PROVE  CallStopsGc'
  <1> USE DEF CallStopsGc, volume, Idle
  <1>1. CASE y_init
    BY <1>1 DEF y_init
  <1>2. CASE ff_init
    BY <1>2 DEF ff_init
  <1>3. CASE y_mount
    BY <1>3 DEF y_mount, Mount
  <1>4. CASE ff_mount
    BY <1>4 DEF ff_mount, Lost
  <1>5. CASE posix_mount
    BY <1>5 DEF posix_mount
  <1>6. CASE y_unmount
    BY <1>6 DEF y_unmount, StopGc
  <1>7. CASE Unmount
    BY <1>7 DEF Unmount
  <1>8. CASE ff_unmount
    BY <1>8 DEF ff_unmount, Lost
  <1>9. CASE Format
    BY <1>9 DEF Format, Lost
  <1>10. CASE y_wipe
    BY <1>10 DEF y_wipe, StopGc
  <1>11. CASE WipeCrashes
    BY <1>11 DEF WipeCrashes
  <1>12. CASE Detach \/ Erase
    BY <1>12 DEF Detach, Erase, Lost
  <1>13. CASE WipeEnds
    BY <1>13 DEF WipeEnds
  <1>14. CASE Open
    BY <1>14 DEF Open
  <1>15. CASE Close
    BY <1>15 DEF Close
  <1>16. CASE Write \/ Read
    BY <1>16, TransferStep
  <1>17. CASE Seek
    BY <1>17 DEF Seek
  <1>18. CASE posix_eof_size
    BY <1>18 DEF posix_eof_size
  <1>19. CASE ff_asks
    BY <1>19 DEF ff_asks, Check
  <1>20. CASE UNCHANGED vars
    BY <1>20 DEF vars
  <1> QED
    BY <1>1, <1>2, <1>3, <1>4, <1>5, <1>6, <1>7, <1>8, <1>9, <1>10, <1>11,
       <1>12, <1>13, <1>14, <1>15, <1>16, <1>17, <1>18, <1>19, <1>20
       DEF Next, VolumeCall, FileCall

\* A mounted volume is collected when a call is over.
LEMMA CollectedStep ==
    ASSUME IInv, [Next]_vars
    PROVE  MountedIsCollected'
  <1> USE DEF IInv, MountedHasDevice, MountedIsCollected, volume, Idle
  <1>1. CASE y_init
    BY <1>1 DEF y_init
  <1>2. CASE ff_init
    BY <1>2 DEF ff_init
  <1>3. CASE y_mount
    BY <1>3 DEF y_mount, Mount
  <1>4. CASE ff_mount
    BY <1>4 DEF ff_mount, Lost
  <1>5. CASE posix_mount
    BY <1>5 DEF posix_mount
  <1>6. CASE y_unmount
    BY <1>6 DEF y_unmount, StopGc
  <1>7. CASE Unmount
    BY <1>7 DEF Unmount
  <1>8. CASE ff_unmount
    BY <1>8 DEF ff_unmount, Lost
  <1>9. CASE Format
    BY <1>9 DEF Format, Lost
  <1>10. CASE y_wipe
    BY <1>10 DEF y_wipe, StopGc
  <1>11. CASE WipeCrashes
    BY <1>11 DEF WipeCrashes
  <1>12. CASE Detach \/ Erase
    <2>1. CASE Detach
      BY <2>1 DEF Detach
    <2>2. CASE Erase
      <3>1. ~gc' /\ (Idle' => halted' = mounted')
        BY <2>2 DEF Erase, CallStopsGc
      <3> QED
        BY <3>1, Zenon
    <2> QED
      BY <1>12, <2>1, <2>2
  <1>13. CASE WipeEnds
    BY <1>13 DEF WipeEnds
  <1>14. CASE Open
    BY <1>14 DEF Open
  <1>15. CASE Close
    BY <1>15 DEF Close
  <1>16. CASE Write \/ Read
    BY <1>16, TransferStep
  <1>17. CASE Seek
    BY <1>17 DEF Seek
  <1>18. CASE posix_eof_size
    BY <1>18 DEF posix_eof_size
  <1>19. CASE ff_asks
    BY <1>19 DEF ff_asks, Check
  <1>20. CASE UNCHANGED vars
    BY <1>20 DEF vars
  <1> QED
    BY <1>1, <1>2, <1>3, <1>4, <1>5, <1>6, <1>7, <1>8, <1>9, <1>10, <1>11,
       <1>12, <1>13, <1>14, <1>15, <1>16, <1>17, <1>18, <1>19, <1>20
       DEF Next, VolumeCall, FileCall

\* Reported bytes stay inside the file.
LEMMA ReportedStep ==
    ASSUME IInv, [Next]_vars
    PROVE  ReportedIsThere'
  <1> USE DEF IInv, TypeOK, ReportedIsThere, volume, status, handle, Idle
  <1>1. CASE y_init
    BY <1>1 DEF y_init
  <1>2. CASE ff_init
    BY <1>2 DEF ff_init
  <1>3. CASE y_mount
    BY <1>3 DEF y_mount, Mount
  <1>4. CASE ff_mount
    BY <1>4 DEF ff_mount, Lost
  <1>5. CASE posix_mount
    BY <1>5 DEF posix_mount
  <1>6. CASE y_unmount
    BY <1>6 DEF y_unmount, StopGc
  <1>7. CASE Unmount
    BY <1>7 DEF Unmount
  <1>8. CASE ff_unmount
    BY <1>8 DEF ff_unmount, Lost
  <1>9. CASE Format
    BY <1>9 DEF Format, Lost
  <1>10. CASE y_wipe
    BY <1>10 DEF y_wipe, StopGc
  <1>11. CASE WipeCrashes
    BY <1>11 DEF WipeCrashes
  <1>12. CASE Detach \/ Erase
    <2>1. CASE Detach
      BY <2>1 DEF Detach, Lost
    <2>2. CASE Erase
      <3>1. backend = "yaffs" /\ (file = "open" => mounted)
        BY <2>2 DEF Erase, CallStopsGc, MountedHasDevice
      <3> QED
        BY <2>2, <3>1 DEF Erase
    <2> QED
      BY <1>12, <2>1, <2>2
  <1>13. CASE WipeEnds
    BY <1>13 DEF WipeEnds
  <1>14. CASE Open
    BY <1>14, SizeAssumption DEF Open
  <1>15. CASE Close
    BY <1>15 DEF Close
  <1>16. CASE Write \/ Read
    BY <1>16, TransferStep
  <1>17. CASE Seek
    BY <1>17 DEF Seek
  <1>18. CASE posix_eof_size
    BY <1>18 DEF posix_eof_size
  <1>19. CASE ff_asks
    BY <1>19 DEF ff_asks, Check
  <1>20. CASE UNCHANGED vars
    BY <1>20 DEF vars
  <1> QED
    BY <1>1, <1>2, <1>3, <1>4, <1>5, <1>6, <1>7, <1>8, <1>9, <1>10, <1>11,
       <1>12, <1>13, <1>14, <1>15, <1>16, <1>17, <1>18, <1>19, <1>20
       DEF Next, VolumeCall, FileCall

-----------------------------------------------------------------------------
(* Theorems.                                                               *)

\* The invariant holds in every behaviour.
LEMMA Inductive == Spec => []IInv
  <1>1. Init => IInv
    <2> SUFFICES ASSUME Init PROVE IInv
      OBVIOUS
    <2>1. TypeOK
      <3>1. device \in BOOLEAN /\ mounted \in BOOLEAN /\ gc \in BOOLEAN /\ halted \in BOOLEAN
        BY DEF Init
      <3>2. pos \in 0 .. MaxSize /\ size \in 0 .. MaxSize /\ told \in 0 .. MaxSize
        BY SizeAssumption DEF Init
      <3> QED
        BY <3>1, <3>2 DEF Init, TypeOK
    <2>2. MountedHasDevice /\ CallStopsGc /\ MountedIsCollected
      BY DEF Init, MountedHasDevice, CallStopsGc, MountedIsCollected, Idle
    <2>3. ReportedIsThere
      BY DEF Init, ReportedIsThere
    <2> QED
      BY <2>1, <2>2, <2>3 DEF IInv
  <1>2. IInv /\ [Next]_vars => IInv'
    BY TypeStep, DeviceStep, GcStep, CollectedStep, ReportedStep DEF IInv
  <1> QED
    BY <1>1, <1>2, PTL DEF Spec

\* Every variable keeps to its type; the position never leaves the file's bound.
THEOREM FileTypeCorrect == Spec => []TypeOK
  BY Inductive, PTL DEF IInv

\* Whatever yaffs refuses, a volume that is mounted between two calls has a running
\* collector, unless a y_wipe found itself unable to take it off and to erase the
\* chip and no call started the collector since: then it has none.
THEOREM MountedCollected == Spec => []MountedIsCollected
  BY Inductive, PTL DEF IInv

\* No backend reports bytes that are not in the file, for any results of the file
\* systems below.
THEOREM ReportedThere == Spec => []ReportedIsThere
  BY Inductive, PTL DEF IInv
=============================================================================
