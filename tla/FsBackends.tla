----------------------------- MODULE FsBackends -----------------------------
(***************************************************************************)
(* The three file-system backends behind service_filesystem.h:             *)
(* yaffs_backend.c, fatfs_backend.c and posix_backend.c.  One caller works *)
(* on the volume and on one file; the file systems themselves are outside  *)
(* the repository and may refuse any call.  What is modelled is what the   *)
(* backends add: when the yaffs garbage collector runs, what is kept of    *)
(* errors, and what the caller is told of a transfer.  The calls that pass *)
(* a path on and keep nothing (stat, unlink, mkdir, ...) are left out.     *)
(***************************************************************************)
EXTENDS Integers

CONSTANTS
    Backends,   \* of "yaffs", "fatfs", "posix"
    MaxSize,    \* bound: bytes of the file
    SizeMod     \* values of a size_t

ASSUME SizeAssumption == MaxSize \in Nat /\ SizeMod \in Nat /\ SizeMod > MaxSize + 1

VARIABLES
    backend,    \* the backend in use
    device,     \* yaffs_device is set; for FatFs, work is allocated
    mounted,    \* the volume is mounted
    gc,         \* the collector thread runs
    call,       \* idle, or where y_unmount or y_wipe is
    halted,     \* history: a wipe that failed on a volume it could not take off
                \* stopped the collector, and no call started it since
    stat_init, stat_last, stat_err,  \* of the backend structure
    file,       \* the caller's handle: closed, open, or open on a lost volume
    pos, size,  \* its position and the size of the file
    told        \* history: the end of the last bytes a write reported

volume == <<device, mounted, gc, call, halted>>
status == <<stat_init, stat_last, stat_err>>
handle == <<file, pos, size, told>>
vars   == <<backend, volume, status, handle>>

Idle == call = "idle"
Lost == IF file = "open" THEN "lost" ELSE file

-----------------------------------------------------------------------------
(* The status members.                                                     *)

\* y_check, ff_check, posix_check.
Check(ok) ==
    /\ stat_last' = IF ok THEN "OK" ELSE "ERR"
    /\ stat_err'  = IF ok THEN stat_err ELSE "ERR"

\* posix looks at failed transfers only, yaffs at none of its own.
CheckTransfer(ok) ==
    IF backend = "fatfs" \/ (backend = "posix" /\ ~ok)
    THEN Check(ok) /\ UNCHANGED stat_init
    ELSE UNCHANGED status

-----------------------------------------------------------------------------
(* The volume.                                                             *)

\* y_init: the collector may start with it; the chip may not be there.
y_init ==
    /\ backend = "yaffs" /\ Idle /\ ~device
    /\ gc' \in {gc, TRUE} /\ device' \in BOOLEAN
    /\ UNCHANGED <<backend, mounted, call, halted, status, handle>>

ff_init ==
    /\ backend = "fatfs" /\ Idle /\ ~device /\ device' \in BOOLEAN
    /\ UNCHANGED <<backend, mounted, gc, call, halted, status, handle>>

Mount(takes) ==
    \E ok \in BOOLEAN :
        /\ ok => takes
        /\ mounted' = (mounted \/ ok)
        /\ stat_init' = IF ok THEN "OK" ELSE "ERR"
        /\ UNCHANGED <<backend, device, call, stat_last, stat_err, handle>>

\* y_mount: a volume is not mounted twice; the collector starts if it took.
y_mount ==
    /\ backend = "yaffs" /\ Idle /\ Mount(device /\ ~mounted)
    /\ gc' = (gc \/ stat_init' = "OK") /\ halted' = (halted /\ stat_init' = "ERR")

\* f_mount takes the volume again; handles of the old one are void.
ff_mount ==
    /\ backend = "fatfs" /\ Idle
    /\ \E ok \in BOOLEAN :
          /\ mounted' = ok /\ stat_init' = IF ok THEN "OK" ELSE "ERR"
    /\ file' = Lost
    /\ UNCHANGED <<backend, device, gc, call, halted, stat_last, stat_err, pos, size, told>>

posix_mount ==
    /\ backend = "posix" /\ Idle /\ mounted' = TRUE /\ stat_init' = "OK"
    /\ UNCHANGED <<backend, device, gc, call, halted, stat_last, stat_err, handle>>

StopGc(next) ==
    /\ backend = "yaffs" /\ Idle /\ gc' = FALSE /\ call' = next
    /\ UNCHANGED <<backend, device, mounted, halted, status, handle>>

\* y_unmount: the collector stops, and yaffs refuses while files are open.
y_unmount == StopGc("unmount")

\* Fault: the collector is started again only if the volume came off.
UnmountOrLeave ==
    /\ call = "unmount" /\ call' = "idle"
    /\ \/ mounted /\ file = "closed" /\ mounted' = FALSE /\ gc' = TRUE
       \/ UNCHANGED <<mounted, gc>>
    /\ UNCHANGED <<backend, device, halted, status, handle>>

Unmount ==
    /\ call = "unmount" /\ call' = "idle" /\ gc' = TRUE /\ halted' = FALSE
    /\ \/ mounted /\ file = "closed" /\ mounted' = FALSE
       \/ UNCHANGED mounted
    /\ UNCHANGED <<backend, device, status, handle>>

ff_unmount ==
    /\ backend = "fatfs" /\ Idle
    /\ mounted' = FALSE /\ file' = Lost
    /\ UNCHANGED <<backend, device, gc, call, halted, status, pos, size, told>>

\* y_format and ff_format.  yaffs takes a mounted volume off by force and mounts
\* it again; FatFs voids the handles, and the f_mount after f_mkfs is never reached.
Format ==
    /\ backend \in {"yaffs", "fatfs"} /\ Idle
    /\ device' \in IF backend = "fatfs" THEN {device, TRUE} ELSE {device}
    /\ \/ ~device' /\ UNCHANGED <<mounted, stat_init, handle>>
       \/ /\ device' /\ stat_init' = "OK" /\ file' = Lost /\ size' = 0
          /\ UNCHANGED <<mounted, pos, told>>
       \/ /\ device' /\ stat_init' = "ERR" /\ UNCHANGED <<pos, size, told>>
          /\ \/ UNCHANGED <<mounted, file>>
             \/ /\ file' = Lost
                /\ mounted' \in {mounted} \union IF backend = "yaffs" THEN {FALSE} ELSE {}
    /\ UNCHANGED <<backend, gc, call, halted, stat_last, stat_err>>

\* y_wipe; without a device it reads through a null pointer.
y_wipe == device /\ StopGc("wipe")

WipeCrashes ==
    /\ backend = "yaffs" /\ Idle /\ ~device
    /\ gc' = FALSE /\ file' = "closed"
    /\ stat_init' = "UNSET" /\ stat_last' = "UNSET" /\ stat_err' = "OK"
    /\ UNCHANGED <<backend, device, mounted, call, halted, pos, size, told>>

\* A mounted volume is taken off by force; that this was refused is not looked at.
Detach ==
    /\ call = "wipe" /\ call' = "detached"
    /\ \/ mounted /\ mounted' = FALSE /\ file' = Lost
       \/ UNCHANGED <<mounted, file>>
    /\ UNCHANGED <<backend, device, gc, halted, status, pos, size, told>>

\* A chip that could not be erased leaves the collector stopped.  A volume that is
\* still mounted keeps its handles and what it knows of the file.
Erase ==
    /\ call = "detached"
    /\ \/ /\ call' = "erased" /\ UNCHANGED halted
          /\ size' = IF mounted THEN size ELSE 0
       \/ call' = "idle" /\ halted' = mounted /\ UNCHANGED size
    /\ UNCHANGED <<backend, device, mounted, gc, status, file, pos, told>>

\* The result of yaffs_mount_reldev is not looked at, nor kept in stat_init.
WipeEnds ==
    /\ call = "erased" /\ call' = "idle"
    /\ mounted' \in {mounted, TRUE} /\ gc' = TRUE /\ halted' = FALSE
    /\ UNCHANGED <<backend, device, status, handle>>

-----------------------------------------------------------------------------
(* The file.                                                               *)

Larger(m, n) == IF m > n THEN m ELSE n

\* open: the flags may truncate the file.
Open ==
    /\ Idle /\ file = "closed" /\ (mounted \/ backend = "posix")
    /\ file' = "open" /\ pos' = 0 /\ told' = 0 /\ size' \in {0, size}
    /\ UNCHANGED <<backend, volume, status>>

Close ==
    /\ Idle /\ file # "closed" /\ file' = "closed"
    /\ UNCHANGED <<backend, volume, status, pos, size, told>>

\* Fault: a negative result is cast to size_t.
Cast(rv) == rv % SizeMod

\* What the caller is told of the result of a transfer.
Reported(rv) == IF rv < 0 THEN 0 ELSE rv

\* count bytes at most; FatFs may have moved some when it fails.
Transfer(count) ==
    \E n \in 0 .. count, ok \in BOOLEAN :
        /\ file = "lost" => ~ok
        /\ ~ok => n = 0 \/ (backend = "fatfs" /\ file = "open")
        /\ pos' = pos + n
        /\ LET r == Reported(IF ok THEN n ELSE -1)
           IN  told' = IF r > 0 THEN Larger(told, pos + r) ELSE told
        /\ CheckTransfer(ok)

Write ==
    /\ Idle /\ file # "closed" /\ Transfer(MaxSize - pos)
    /\ size' = IF pos' > pos THEN Larger(size, pos') ELSE size
    /\ UNCHANGED <<backend, volume, file>>

Read ==
    /\ Idle /\ file # "closed" /\ Transfer(Larger(size - pos, 0))
    /\ UNCHANGED <<backend, volume, file, size>>

Seek ==
    /\ Idle /\ file = "open" /\ pos' \in 0 .. MaxSize
    /\ UNCHANGED <<backend, volume, status, file, size, told>>

\* posix_eof and posix_size leave the position at the end of the file.
posix_eof_size ==
    /\ backend = "posix" /\ Idle /\ file = "open" /\ pos' = size
    /\ UNCHANGED <<backend, volume, status, file, size, told>>

\* ff_get_free_space and ff_readdir keep their results.
ff_asks ==
    /\ backend = "fatfs" /\ Idle /\ \E ok \in BOOLEAN : Check(ok)
    /\ UNCHANGED <<backend, volume, stat_init, handle>>

-----------------------------------------------------------------------------
Init ==
    /\ backend \in Backends
    /\ device = FALSE /\ mounted = FALSE /\ gc = FALSE /\ call = "idle" /\ halted = FALSE
    /\ stat_init = "UNSET" /\ stat_last = "UNSET" /\ stat_err = "OK"
    /\ file = "closed" /\ pos = 0 /\ size = 0 /\ told = 0

VolumeCall ==
    \/ y_init \/ ff_init \/ y_mount \/ ff_mount \/ posix_mount
    \/ y_unmount \/ Unmount \/ ff_unmount \/ Format
    \/ y_wipe \/ WipeCrashes \/ Detach \/ Erase \/ WipeEnds

FileCall == Open \/ Close \/ Write \/ Read \/ Seek \/ posix_eof_size \/ ff_asks

Next == VolumeCall \/ FileCall

Spec == Init /\ [][Next]_vars

-----------------------------------------------------------------------------
(* Properties.                                                             *)

\* Every variable keeps to its type; in particular the position, which every
\* transfer advances by what was moved, stays inside the file's bound.
TypeOK ==
    /\ backend \in Backends
    /\ device \in BOOLEAN /\ mounted \in BOOLEAN /\ gc \in BOOLEAN
    /\ call \in {"idle", "unmount", "wipe", "detached", "erased"} /\ halted \in BOOLEAN
    /\ stat_init \in {"UNSET", "OK", "ERR"} /\ stat_last \in {"UNSET", "OK", "ERR"}
    /\ stat_err \in {"OK", "ERR"}
    /\ file \in {"closed", "open", "lost"}
    /\ pos \in 0 .. MaxSize /\ size \in 0 .. MaxSize /\ told \in 0 .. MaxSize

\* Between calls a mounted yaffs volume is collected, although y_unmount and y_wipe
\* stop the collector before they know whether the volume comes off; except after
\* a y_wipe that could neither take it off nor erase the chip, until a call starts
\* the collector again (y_format does not).
MountedIsCollected == backend = "yaffs" /\ Idle /\ mounted => (gc <=> ~halted)

\* Bytes a write or a read reported lie inside the file, as long as the volume it
\* was opened on is there, also when transfers fail or are short.
ReportedIsThere == file = "open" => told <= size
=============================================================================
