------------------------------- MODULE DynStr -------------------------------
(***************************************************************************)
(* The growable string of payloads_pretty_print.c, as bookkeeping of its   *)
(* buffer: how large it is, how much the code believes is left, where the  *)
(* next byte goes and, as history, up to where bytes have been written.    *)
(***************************************************************************)
EXTENDS Integers

CONSTANTS
    MinAlloc,      \* STR_MIN_ALLOC
    DefCapacity,   \* STR_DEF_CAPACITY
    HeaderSize,    \* sizeof(struct dynstr)
    Lengths        \* lengths of what is pushed

ASSUME AllocAssumption  == MinAlloc \in Nat \ {0} /\ DefCapacity \in Nat \ {0}
ASSUME HeaderAssumption == HeaderSize \in Nat
ASSUME LengthAssumption == Lengths \subseteq Nat

VARIABLES
    capacity,   \* 0 when there is no string
    remains,
    wp,         \* the write pointer, from the start of the buffer
    top         \* history: the end of what was written, terminator included

str == <<capacity, remains, wp, top>>

Larger(a, b) == IF a >= b THEN a ELSE b

Allocated(initial_capacity) ==
    Larger(IF initial_capacity = 0 THEN DefCapacity ELSE initial_capacity, MinAlloc)

\* The second bzero clears as many bytes of the buffer as a struct dynstr has,
\* however many the buffer has.
dstr_new(initial_capacity) ==
    /\ capacity' = Allocated(initial_capacity) /\ remains' = Allocated(initial_capacity)
    /\ wp' = 0 /\ top' = HeaderSize

\* dstr_free and dstr_into_raw: the builder is gone.
dstr_free == capacity' = 0 /\ remains' = 0 /\ wp' = 0 /\ top' = 0

\* Fault: the terminator is forgotten.
NeededBare(len) == len

Needed(len) == len + 1

\* enough_space: the bytes and the terminator are copied to the write pointer.
CopyAt(p, len, room) ==
    wp' = p + len /\ top' = Larger(top, p + len + 1) /\ remains' = room - len

\* dstr_pushn that finds enough space.
PushInto(len) ==
    /\ capacity # 0 /\ remains >= Needed(len)
    /\ CopyAt(wp, len, remains) /\ UNCHANGED capacity

\* dstr_pushn that has to grow the buffer first.  When realloc_clear gets no
\* memory the string is left as it was.
PushGrowing(len) ==
    LET to_add == Larger(Needed(len) - remains, MinAlloc) IN
    /\ capacity # 0 /\ remains < Needed(len)
    /\ capacity' = capacity + to_add
    /\ CopyAt(capacity - remains, len, remains + to_add)

dstr_pushn(len) == PushInto(len) \/ PushGrowing(len)

StrInit == capacity = 0 /\ remains = 0 /\ wp = 0 /\ top = 0

\* dstr_new does not ask whether its buffer has room for what it clears; that is
\* left to who calls it.
StrNext ==
    \/ capacity = 0 /\ \E c \in Nat : Allocated(c) >= HeaderSize /\ dstr_new(c)
    \/ \E len \in Lengths : dstr_pushn(len)
    \/ dstr_free

StrSpec == StrInit /\ [][StrNext]_str

\* What was written, what dstr_new clears and every terminator included, lies
\* inside the buffer, and remains is what is left of it behind the write pointer.
TextFits == capacity # 0 => top <= capacity /\ wp + remains = capacity
=============================================================================
