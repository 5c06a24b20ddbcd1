--------------------------- MODULE PayloadsProofs ---------------------------
(*************************************************************************)
(* The way of a packet through the library, for every base, any capacity *)
(* that holds a struct dynstr, all data, all peers and whichever         *)
(* allocations fail: the growable string never overflows, an export that *)
(* fails loses next to nothing, what is built is recognised, served and  *)
(* parsed as what it is, and a print shows every member of it.           *)
(*************************************************************************)
EXTENDS Payloads, PldCodecProofs

-----------------------------------------------------------------------------
(* The string by itself, for any lengths pushed and any capacities that    *)
(* hold what dstr_new clears.                                              *)

\* The bookkeeping of the buffer: there is always room for the terminator that
\* was written last, and growing never starts from a string that lost bytes.
StrInv ==
    /\ capacity \in Nat /\ remains \in Nat /\ wp \in Nat /\ top \in Nat
    /\ capacity # 0 => wp + remains = capacity /\ top <= capacity

\* A new string has the whole of its buffer left, and nothing was cleared behind it.
LEMMA NewStep ==
    ASSUME StrInv, NEW c \in Nat, Allocated(c) >= HeaderSize, dstr_new(c)
    PROVE  StrInv'
  BY AllocAssumption, HeaderAssumption DEF StrInv, dstr_new, Allocated, Larger

\* A push that finds room stays inside the buffer.
LEMMA PushIntoStep ==
    ASSUME StrInv, NEW len \in Nat, PushInto(len)
    PROVE  StrInv'
  BY DEF StrInv, PushInto, CopyAt, Needed, Larger

\* A push that grows the buffer gets at least what it lacks.
LEMMA PushGrowingStep ==
    ASSUME StrInv, NEW len \in Nat, PushGrowing(len)
    PROVE  StrInv'
  <1> DEFINE to_add == Larger(Needed(len) - remains, MinAlloc)
  <1>1. to_add \in Nat /\ to_add >= len + 1 - remains
    BY AllocAssumption DEF StrInv, PushGrowing, Larger, Needed
  <1>2. capacity' = capacity + to_add /\ CopyAt(capacity - remains, len, remains + to_add)
    BY DEF PushGrowing
  <1>3. capacity # 0
    BY DEF PushGrowing
  <1> HIDE DEF to_add
  <1> QED
    BY <1>1, <1>2, <1>3 DEF StrInv, CopyAt, Larger

\* The invariant holds in every behaviour of the string.
LEMMA StrInductive == StrSpec => []StrInv
  <1>1. StrInit => StrInv
    BY DEF StrInit, StrInv
  <1>2. StrInv /\ [StrNext]_str => StrInv'
    <2> SUFFICES ASSUME StrInv, [StrNext]_str PROVE StrInv'
      OBVIOUS
    <2>1. ASSUME NEW c \in Nat, Allocated(c) >= HeaderSize, dstr_new(c) PROVE StrInv'
      BY <2>1, NewStep
    <2>2. ASSUME NEW len \in Lengths, dstr_pushn(len) PROVE StrInv'
      BY <2>2, LengthAssumption, PushIntoStep, PushGrowingStep DEF dstr_pushn
    <2>3. CASE dstr_free
      BY <2>3 DEF dstr_free, StrInv
    <2>4. CASE UNCHANGED str
      BY <2>4 DEF str, StrInv
    <2> QED
      BY <2>1, <2>2, <2>3, <2>4 DEF StrNext
  <1> QED
    BY <1>1, <1>2, PTL DEF StrSpec

\* Neither dstr_new nor dstr_pushn writes outside the buffer, terminator included,
\* however the string was built and grown, if the capacity it began with holds a
\* struct dynstr.
THEOREM StringFits == StrSpec => []TextFits
  <1>1. StrInv => TextFits
    BY DEF StrInv, TextFits
  <1> QED
    BY <1>1, StrInductive, PTL

-----------------------------------------------------------------------------
(* The string in a print.                                                  *)

\* There is a string only while something is printed.
StringWhilePrinting == stage # "print" => capacity = 0

\* A push that a print makes keeps the string sound.
LEMMA PushStep ==
    ASSUME StrInv, Push
    PROVE  StrInv'
  <1>1. Length(Head(todo)) \in Nat
    BY DEF Length
  <1> QED
    BY <1>1, PushIntoStep, PushGrowingStep DEF Push, dstr_pushn

\* A step that leaves the string alone keeps it sound.
LEMMA AloneStep ==
    ASSUME StrInv, UNCHANGED str
    PROVE  StrInv'
  BY DEF StrInv, str

\* A freed string is sound.
LEMMA FreeStep ==
    ASSUME dstr_free
    PROVE  StrInv' /\ capacity' = 0
  BY DEF StrInv, dstr_free

\* Building and parsing have nothing to do with the string.
LEMMA CodecStep ==
    ASSUME NEW kind, NEW data, NEW error, NEW peer, NEW how, NEW blocks,
           Built(kind, data, error, peer) \/ Parsed(kind, error, how, blocks)
    PROVE  UNCHANGED str /\ stage # "print" /\ stage' # "print"
  BY DEF Built, Parsed, Return

\* What every step does to the string.
LEMMA StringSteps ==
    ASSUME Next
    PROVE  \/ UNCHANGED str /\ stage # "print" /\ stage' # "print"
           \/ UNCHANGED str /\ stage = "print" /\ stage' = "print"
           \/ PrettyPrint
           \/ Push
           \/ dstr_free
  <1> DEFINE Quiet == UNCHANGED str /\ stage # "print" /\ stage' # "print"
             Waits == UNCHANGED str /\ stage = "print" /\ stage' = "print"
  <1>1. ASSUME NEW kind, NEW data, NEW id, NEW null, NEW room, NEW lookup, NEW peer,
               BuildStatic(kind, data, id, null, room, lookup, peer)
        PROVE  Quiet
    BY <1>1, CodecStep DEF BuildStatic
  <1>2. ASSUME NEW kind, NEW data, NEW id, NEW null, NEW memory, NEW lookup, NEW peer,
               Build(kind, data, id, null, memory, lookup, peer)
        PROVE  Quiet
    BY <1>2, CodecStep DEF Build
  <1>3. ASSUME NEW memory, ParseRecognized(memory)
        PROVE  Quiet
    BY <1>3, CodecStep DEF ParseRecognized
  <1>4. ASSUME NEW kind, NEW null, NEW memory, ParseAs(kind, null, memory)
        PROVE  Quiet
    BY <1>4, CodecStep DEF ParseAs
  <1>5. CASE Serve
    BY <1>5, CodecStep DEF Serve
  <1>6. ASSUME NEW how, ToJson(how)
        PROVE  Quiet
    BY <1>6 DEF ToJson
  <1>7. CASE AllocItem \/ DataStrays \/ AllocFails \/ ToJsonReturns
    BY <1>7 DEF AllocItem, DataStrays, AllocFails, ToJsonReturns, Return
  <1>8. CASE PrintCrashes \/ Release \/ Restart
    BY <1>8 DEF PrintCrashes, Release, Restart
  <1>9. CASE MakeRepr \/ MakeStringified
    <2>1. PICK kind, block : MakeText(kind, block)
      BY <1>9 DEF MakeRepr, MakeStringified
    <2>2. stage = "print" /\ stage' = "print" /\ str' = str
      BY <2>1 DEF MakeText
    <2> QED
      BY <2>2
  <1>10. CASE PushFails
    BY <1>10 DEF PushFails, Pushable
  <1>11. CASE PrintReturns
    BY <1>11 DEF PrintReturns
  <1> QED
    BY <1>1, <1>2, <1>3, <1>4, <1>5, <1>6, <1>7, <1>8, <1>9, <1>10, <1>11 DEF Next

\* The string is sound, and gone when nothing is printed.
LEMMA StringInductive == Spec => [](StrInv /\ StringWhilePrinting)
  <1> DEFINE I == StrInv /\ StringWhilePrinting
  <1>1. Init => I
    <2>1. Init => StrInit
      BY DEF Init
    <2>2. StrInit => I
      BY DEF StrInit, StrInv, StringWhilePrinting
    <2> QED
      BY <2>1, <2>2
  <1>2. I /\ [Next]_vars => I'
    <2> SUFFICES ASSUME StrInv, StringWhilePrinting, [Next]_vars
                 PROVE  StrInv' /\ StringWhilePrinting'
      OBVIOUS
    <2>1. CASE UNCHANGED str /\ stage # "print" /\ stage' # "print"
      BY <2>1, AloneStep DEF StringWhilePrinting, str
    <2>2. CASE UNCHANGED str /\ stage = "print" /\ stage' = "print"
      BY <2>2, AloneStep DEF StringWhilePrinting
    <2>3. CASE PrettyPrint
      <3>1. Capacity \in Nat /\ Allocated(Capacity) >= HeaderSize
        BY CapacityAssumption, AllocAssumption, HeaderAssumption DEF Allocated, Larger
      <3> QED
        BY <2>3, <3>1, NewStep DEF PrettyPrint, StringWhilePrinting
    <2>4. CASE Push
      BY <2>4, PushStep DEF Push, Pushable, StringWhilePrinting
    <2>5. CASE dstr_free
      BY <2>5, FreeStep DEF StringWhilePrinting
    <2>6. CASE UNCHANGED vars
      <3>1. UNCHANGED str /\ UNCHANGED stage
        BY <2>6 DEF vars
      <3> QED
        BY <3>1, AloneStep DEF StringWhilePrinting, str
    <2> QED
      BY <2>1, <2>2, <2>3, <2>4, <2>5, <2>6, StringSteps
  <1> QED
    BY <1>1, <1>2, PTL DEF Spec

\* pld_pretty_print never writes outside the buffer of its string, terminator
\* included, for any packets, any styles, any capacity that holds a struct dynstr
\* and any failing allocation.
THEOREM PrintedTextFits == Spec => []TextFits
  <1>1. StrInv => TextFits
    BY DEF StrInv, TextFits
  <1> QED
    BY <1>1, StringInductive, PTL

-----------------------------------------------------------------------------
(* What is allocated.                                                      *)

Blocks == {"packet", "struct", "builder", "buffer", "repr", "stringified"}

\* The string builder and its buffer live as long as the print.
BuilderWhilePrinting ==
    heap \subseteq Blocks /\ (stage # "print" => heap \cap {"builder", "buffer"} = {})

\* An export that failed has given back every item; before an export, and after a
\* call that failed, there is none.
NoItems ==
    /\ stage \in {"idle", "sent", "parsed", "failed"} \/ rv # "OK" => json = <<>>
    /\ stage \in {"parsed", "export"} => rv = "OK"

MemInv == BuilderWhilePrinting /\ NoItems /\ LosesNothingElse

\* Building takes a packet.
LEMMA BuiltStep ==
    ASSUME MemInv, NEW kind, NEW data, NEW error, NEW peer, Built(kind, data, error, peer),
           heap' \subseteq heap \cup {"packet"}
    PROVE  MemInv'
  <1>1. stage = "idle" /\ stage' \in {"sent", "failed"} /\ json' = json /\ lost' = {}
    BY DEF Built, Return
  <1> QED
    BY <1>1 DEF MemInv, BuilderWhilePrinting, NoItems, LosesNothingElse, Blocks

\* Parsing takes a struct.
LEMMA ParsedStep ==
    ASSUME MemInv, NEW kind, NEW error, NEW how, NEW blocks, Parsed(kind, error, how, blocks),
           blocks \subseteq {"struct"}
    PROVE  MemInv'
  <1>1. /\ stage = "sent" /\ json' = json /\ lost' = lost /\ heap' = heap \cup blocks
        /\ rv' = error /\ stage' = IF error = "OK" THEN "parsed" ELSE "failed"
    BY DEF Parsed, Return
  <1> QED
    BY <1>1 DEF MemInv, BuilderWhilePrinting, NoItems, LosesNothingElse, Blocks

\* The steps of an export.
LEMMA ExportStep ==
    ASSUME MemInv,
           (\E how \in Styles : ToJson(how)) \/ AllocItem \/ DataStrays \/ AllocFails
           \/ ToJsonReturns
    PROVE  MemInv'
  <1>1. /\ heap' = heap /\ lost' = lost /\ stage \in {"parsed", "export"}
        /\ stage' \in {"export", "exported", "failed"}
        /\ rv' \in {rv, "OK"} \/ (stage' = "failed" /\ json' = <<>>)
        /\ stage' = "failed" => json' = <<>>
    BY DEF ToJson, AllocItem, DataStrays, AllocFails, DeleteOutput, ToJsonReturns, Return
  <1> QED
    BY <1>1 DEF MemInv, BuilderWhilePrinting, NoItems, LosesNothingElse, Blocks

\* The steps of a print.
LEMMA PrintStep ==
    ASSUME MemInv,
           PrettyPrint \/ PrintCrashes \/ MakeRepr \/ MakeStringified
           \/ Push \/ PushFails \/ PrintReturns
    PROVE  MemInv'
  <1>1. /\ json' = json /\ rv' = rv /\ lost' = lost
        /\ stage' \in {"print", "printed", "crashed"}
    BY DEF PrettyPrint, PrintCrashes, MakeRepr, MakeStringified, MakeText, Push, Pushable,
           PushFails, PrintReturns
  <1>2. heap' \subseteq heap \cup {"builder", "buffer", "repr", "stringified"}
    BY DEF PrettyPrint, PrintCrashes, MakeRepr, MakeStringified, MakeText, Push, Pushable,
           PushFails, PrintReturns
  <1>3. stage' # "print" => heap' \cap {"builder", "buffer"} = {}
    BY DEF PrettyPrint, PrintCrashes, MakeRepr, MakeStringified, MakeText, Push, Pushable,
           PushFails, PrintReturns, MemInv, BuilderWhilePrinting
  <1> QED
    BY <1>1, <1>2, <1>3 DEF MemInv, BuilderWhilePrinting, NoItems, LosesNothingElse, Blocks

\* The caller frees what it was given, or starts again.
LEMMA ReleaseStep ==
    ASSUME MemInv, Release \/ Restart
    PROVE  MemInv'
  <1>1. /\ stage' = "idle" /\ rv' = "OK" /\ heap' = {} /\ json' = <<>>
        /\ lost' \subseteq (heap \ {"packet", "struct"}) \cup {"data"}
                           \cup (IF rv # "OK" /\ json # <<>> THEN {"json"} ELSE {})
        /\ stage # "print"
    BY DEF Release, Restart
  <1> QED
    BY <1>1 DEF MemInv, BuilderWhilePrinting, NoItems, LosesNothingElse, Blocks

LEMMA MemStep == MemInv /\ [Next]_vars => MemInv'
  <1> SUFFICES ASSUME MemInv, [Next]_vars PROVE MemInv'
    OBVIOUS
  <1>1. ASSUME NEW kind, NEW data, NEW id, NEW null, NEW room, NEW lookup, NEW peer,
               BuildStatic(kind, data, id, null, room, lookup, peer)
        PROVE  MemInv'
    BY <1>1, BuiltStep DEF BuildStatic
  <1>2. ASSUME NEW kind, NEW data, NEW id, NEW null, NEW memory, NEW lookup, NEW peer,
               Build(kind, data, id, null, memory, lookup, peer)
        PROVE  MemInv'
    BY <1>2, BuiltStep DEF Build
  <1>3. ASSUME NEW memory, ParseRecognized(memory)
        PROVE  MemInv'
    BY <1>3, ParsedStep DEF ParseRecognized
  <1>4. ASSUME NEW kind, NEW null, NEW memory, ParseAs(kind, null, memory)
        PROVE  MemInv'
    BY <1>4, ParsedStep DEF ParseAs
  <1>5. CASE Serve
    BY <1>5, ParsedStep DEF Serve
  <1>6. CASE UNCHANGED vars
    BY <1>6 DEF vars, MemInv, BuilderWhilePrinting, NoItems, LosesNothingElse
  <1> QED
    BY <1>1, <1>2, <1>3, <1>4, <1>5, <1>6, ExportStep, PrintStep, ReleaseStep DEF Next

\* Whichever allocations fail, in whatever order the calls come, all that can be
\* lost is the data object whose key could not be copied and a text whose push
\* failed: an export that fails leaves nothing of its object behind.
THEOREM LittleIsLost == Spec => []LosesNothingElse
  <1>1. Init => MemInv
    BY DEF Init, MemInv, BuilderWhilePrinting, NoItems, LosesNothingElse
  <1>2. MemInv => LosesNothingElse
    BY DEF MemInv
  <1> QED
    BY <1>1, <1>2, MemStep, PTL DEF Spec

-----------------------------------------------------------------------------
(* What is built, recognised, served and parsed.                           *)

Stages == {"idle", "sent", "parsed", "export", "exported", "print", "printed",
           "failed", "crashed"}

\* The members of a parsed struct have their C types.
ParsedInType ==
    parsed.kind # NONE =>
        /\ parsed.kind \in Kinds
        /\ \A i \in 1 .. Size(parsed.kind) :
               parsed.data[Structs[parsed.kind][i].name] \in ValuesOf(Structs[parsed.kind][i])

\* What is on its way is what was built, with an address that fits its kind.
SentAsBuilt ==
    stage = "sent" =>
        /\ sent.kind \in Kinds /\ sent.data \in Datas[sent.kind]
        /\ sent = [kind |-> sent.kind, data |-> sent.data]
        /\ packet = WriteFields(SpecOf(sent.kind).build, sent.data)
        /\ address_matches(addr, SpecOf(sent.kind).address)

\* When a packet has been parsed.
ParsedInTime ==
    /\ stage \in {"idle", "sent"} => parsed = Nobody /\ route = ""
    /\ stage \in {"parsed", "export", "exported", "print", "printed", "crashed"}
           => parsed # Nobody
    /\ parsed # Nobody => parsed.kind # NONE

CodecInv ==
    /\ stage \in Stages /\ rv \in Errors \cup {"OK"} /\ packet \in Seq(Bytes)
    /\ ParsedInType /\ SentAsBuilt /\ ParsedInTime
    /\ RecognizedAsBuilt /\ ServedAsBuilt

\* A struct that is sent has the members of its kind, with values of their types.
LEMMA DataIsGood ==
    ASSUME NEW kind \in Kinds, NEW data \in Datas[kind]
    PROVE  /\ data = [m \in FieldNames(Structs[kind], Size(kind)) |-> data[m]]
           /\ \A i \in 1 .. Size(kind) :
                  /\ data[Structs[kind][i].name] \in ValuesOf(Structs[kind][i])
                  /\ data[Structs[kind][i].name] \in Int
  <1>1. DOMAIN Structs[kind] = 1 .. Size(kind)
    BY StructsAreGood DEF GoodFields
  <1>2. Names(kind) = FieldNames(Structs[kind], Size(kind))
    BY <1>1 DEF Names, FieldNames
  <1>3. data \in [Names(kind) -> Int]
    BY DatasAssumption
  <1>4. \A i \in 1 .. Size(kind) : data[Structs[kind][i].name] \in ValuesOf(Structs[kind][i])
    BY <1>1, DatasAssumption
  <1>5. \A i \in 1 .. Size(kind) : Structs[kind][i].name \in Names(kind)
    BY <1>1 DEF Names
  <1> QED BY <1>2, <1>3, <1>4, <1>5

\* The address of a built packet is its kind's, whoever the peer is.
LEMMA FilledIn ==
    ASSUME NEW kind \in Kinds, NEW peer
    PROVE  address_matches(FillIn(pld_get_addr(kind, {}).addr, peer), SpecOf(kind).address)
  <1> DEFINE p == {} # {}
             error == FirstError(<< <<p, "BAD_ARGS">>, <<kind = NONE, "ID_MISMATCH">>,
                          <<pld_find_spec_by_kind(kind) # "OK", "UNKNOWN_PAYLOAD">> >>)
  <1>1. pld_get_addr(kind, {}).addr = IF error = "OK" THEN SpecOf(kind).address
                                                      ELSE Addr(0, 0, 0, 0)
    BY DEF pld_get_addr
  <1>2. error = "OK"
    <2>1. kind # NONE
      BY DEF Kinds, NONE, Payloads_TK_plugin
    <2>2. p \in BOOLEAN /\ ~p
      OBVIOUS
    <2> HIDE DEF p
    <2> QED BY <2>1, <2>2, LookupIs
  <1>3. SpecOf(kind).address = Addr(255, 255, 13, 10) \/ SpecOf(kind).address = Addr(13, 10, 255, 255)
    BY SizesAndTesters
  <1> HIDE DEF error
  <1>4. pld_get_addr(kind, {}).addr = SpecOf(kind).address
    BY <1>1, <1>2
  <1>5. ASSUME NEW a, a = Addr(255, 255, 13, 10) \/ a = Addr(13, 10, 255, 255)
        PROVE  address_matches(FillIn(a, peer), a)
    BY <1>5 DEF address_matches, FillIn, Addr
  <1> QED BY <1>3, <1>4, <1>5

LEMMA NobodysKind == Nobody.kind = NONE
  BY DEF Nobody

\* A step that builds a packet.
LEMMA BuiltCodec ==
    ASSUME CodecInv, NEW kind \in Kinds, NEW data \in Datas[kind],
           NEW error \in Errors \cup {"OK"}, NEW peer, Built(kind, data, error, peer)
    PROVE  CodecInv'
  <1>1. /\ stage = "idle" /\ rv' = error /\ parsed' = parsed /\ route' = route
        /\ sent' = [kind |-> kind, data |-> data]
        /\ error = "OK" => /\ stage' = "sent" /\ packet' = WriteFields(SpecOf(kind).build, data)
                           /\ addr' = FillIn(pld_get_addr(kind, {}).addr, peer)
        /\ error # "OK" => stage' = "failed" /\ packet' = packet
    BY DEF Built, Return
  <1>2. parsed = Nobody /\ route = "" /\ parsed.kind = NONE
    BY <1>1, NobodysKind DEF CodecInv, ParsedInTime
  <1>3. packet' \in Seq(Bytes)
    <2>1. WriteFields(SpecOf(kind).build, data) \in Seq(Bytes)
      BY DataIsGood, BuildFills
    <2> QED BY <1>1, <2>1 DEF CodecInv
  <1>4. SentAsBuilt'
    <2>1. sent'.kind = kind /\ sent'.data = data
      BY <1>1
    <2>2. address_matches(FillIn(pld_get_addr(kind, {}).addr, peer), SpecOf(kind).address)
      BY FilledIn
    <2> QED BY <1>1, <2>1, <2>2 DEF SentAsBuilt
  <1>5. stage' \in Stages /\ rv' \in Errors \cup {"OK"}
    BY <1>1 DEF Stages
  <1>6. ParsedInType' /\ RecognizedAsBuilt' /\ ServedAsBuilt'
    BY <1>1, <1>2 DEF ParsedInType, RecognizedAsBuilt, ServedAsBuilt
  <1>7. ParsedInTime'
    BY <1>1, <1>2 DEF ParsedInTime
  <1> QED BY <1>3, <1>4, <1>5, <1>6, <1>7 DEF CodecInv

\* What a parse must bring about to go by the way it went.
FitsRoute(kind, error, how) ==
    /\ how = "recognized" => IF error = "OK" THEN kind = sent.kind ELSE error = "ALLOC"
    /\ how = "served" => IF error = "OK" THEN kind = sent.kind ELSE sent.kind \in {2, 4, 6, 8}

LEMMA ParsedCodec ==
    ASSUME CodecInv, NEW kind, NEW error \in Errors \cup {"OK"}, NEW how, NEW blocks,
           Parsed(kind, error, how, blocks),
           error = "OK" => kind \in Kinds /\ Len(packet) = SpecOf(kind).parse.length,
           FitsRoute(kind, error, how)
    PROVE  CodecInv'
  <1> DEFINE new == [kind |-> kind, data |-> ReadFields(SpecOf(kind).parse.fields, packet)]
  <1>1. /\ stage = "sent" /\ rv' = error /\ packet' = packet /\ sent' = sent /\ route' = how
        /\ stage' = IF error = "OK" THEN "parsed" ELSE "failed"
        /\ parsed' = IF error = "OK" THEN new ELSE parsed
    BY DEF Parsed, Return
  <1>2. parsed = Nobody /\ Nobody.kind = NONE
    BY <1>1, NobodysKind DEF CodecInv, ParsedInTime
  <1>3. /\ sent.kind \in Kinds /\ sent.data \in Datas[sent.kind]
        /\ sent = [kind |-> sent.kind, data |-> sent.data]
        /\ packet = WriteFields(SpecOf(sent.kind).build, sent.data)
    BY <1>1 DEF CodecInv, SentAsBuilt
  <1>4. packet \in Seq(Bytes)
    BY DEF CodecInv
  <1>5. new.kind = kind /\ new.data = ReadFields(SpecOf(kind).parse.fields, packet)
    OBVIOUS
  <1>6. kind = sent.kind => new = sent
    <2>1. ReadFields(SpecOf(sent.kind).parse.fields,
                     WriteFields(SpecOf(sent.kind).build, sent.data)) = sent.data
      BY <1>3, DataIsGood, ParsesBack
    <2> QED BY <1>3, <2>1
  <1>7. error = "OK" =>
            \A i \in 1 .. Size(kind) :
                new.data[Structs[kind][i].name] \in ValuesOf(Structs[kind][i])
    BY <1>4, <1>5, ParsesInType
  <1>8. error = "OK" => kind # NONE
    BY DEF Kinds, NONE, Payloads_TK_plugin
  <1> HIDE DEF new
  <1>9. stage' \in Stages /\ rv' \in Errors \cup {"OK"} /\ packet' \in Seq(Bytes)
    BY <1>1, <1>4 DEF Stages
  <1>10. ParsedInType'
    BY <1>1, <1>2, <1>5, <1>7 DEF ParsedInType
  <1>11. SentAsBuilt'
    BY <1>1 DEF SentAsBuilt
  <1>12. ParsedInTime'
    BY <1>1, <1>2, <1>5, <1>8 DEF ParsedInTime
  <1>13. parsed' = Nobody <=> error # "OK"
    BY <1>1, <1>2, <1>5, <1>8
  <1>14. RecognizedAsBuilt' /\ ServedAsBuilt'
    BY <1>1, <1>6, <1>13 DEF RecognizedAsBuilt, ServedAsBuilt, FitsRoute
  <1> QED BY <1>9, <1>10, <1>11, <1>12, <1>14 DEF CodecInv

\* Where a packet on its way stands.
LEMMA OnItsWayIs ==
    ASSUME CodecInv, stage = "sent"
    PROVE  /\ sent.kind \in Kinds
           /\ Len(packet) = SpecOf(sent.kind).bin_size
           /\ SpecOf(sent.kind).build.byte_size = SpecOf(sent.kind).bin_size
           /\ packet[1] = SpecOf(sent.kind).tester
           /\ pld_recognize(addr, packet) = sent.kind
  <1>1. /\ sent.kind \in Kinds /\ sent.data \in Datas[sent.kind]
        /\ packet = WriteFields(SpecOf(sent.kind).build, sent.data)
        /\ address_matches(addr, SpecOf(sent.kind).address)
    BY DEF CodecInv, SentAsBuilt
  <1>2. /\ Len(packet) = SpecOf(sent.kind).build.byte_size
        /\ packet[1] = SpecOf(sent.kind).tester
    BY <1>1, DataIsGood, BuildFills
  <1>3. SpecOf(sent.kind).build.byte_size = SpecOf(sent.kind).bin_size
    BY <1>1, KindIsGood
  <1>4. pld_recognize(addr, packet) = sent.kind
    BY <1>1, <1>2, <1>3, Recognition
  <1> QED BY <1>1, <1>2, <1>3, <1>4

LEMMA RecognizedStep ==
    ASSUME CodecInv, NEW memory \in BOOLEAN, ParseRecognized(memory)
    PROVE  CodecInv'
  <1> DEFINE k == pld_recognize(addr, packet)
             e == ParseStaticError(SpecOf(k).parse, Len(packet), {})
             f == ParseError(SpecOf(k).parse, Len(packet), {}, memory)
  <1>0. stage = "sent"
    BY DEF ParseRecognized
  <1>1. k \in Kinds /\ k = sent.kind /\ Len(packet) = SpecOf(k).parse.length
    BY <1>0, OnItsWayIs, KindIsGood
  <1>2. e = "OK" /\ f = IF memory THEN "OK" ELSE "ALLOC"
    BY <1>1, ParseStaticIs, ParseIs
  <1>3. k # NONE
    BY <1>1 DEF Kinds, NONE, Payloads_TK_plugin
  <1>4. \/ Parsed(k, e, "recognized", {})
        \/ Parsed(k, f, "recognized", IF f = "OK" THEN {"struct"} ELSE {})
    BY <1>3 DEF ParseRecognized
  <1> HIDE DEF k, e, f
  <1>5. e \in Errors \cup {"OK"} /\ f \in Errors \cup {"OK"}
    BY <1>2 DEF Errors
  <1>6. FitsRoute(k, e, "recognized") /\ FitsRoute(k, f, "recognized")
    BY <1>1, <1>2 DEF FitsRoute
  <1> QED BY <1>1, <1>4, <1>5, <1>6, ParsedCodec

LEMMA NamedStep ==
    ASSUME CodecInv, NEW kind, NEW null, NEW memory \in BOOLEAN, ParseAs(kind, null, memory)
    PROVE  CodecInv'
  <1>1. CASE kind \notin Kinds
    <2> DEFINE e == pld_find_spec_by_kind(kind)
    <2>1. Parsed(NONE, e, "named", {})
      BY <1>1 DEF ParseAs
    <2>2. e \in Errors
      BY <1>1, FindIs DEF Errors
    <2> HIDE DEF e
    <2>3. e # "OK" /\ FitsRoute(NONE, e, "named")
      BY <2>2 DEF Errors, FitsRoute
    <2> QED BY <2>1, <2>2, <2>3, ParsedCodec
  <1>2. CASE kind \in Kinds
    <2> DEFINE e == ParseStaticError(SpecOf(kind).parse, Len(packet), null)
               f == ParseError(SpecOf(kind).parse, Len(packet), null, memory)
    <2>1. \/ Parsed(kind, e, "named", {})
          \/ Parsed(kind, f, "named", IF f = "OK" THEN {"struct"} ELSE {})
      BY <1>2 DEF ParseAs
    <2>2. /\ e \in Errors \cup {"OK"} /\ f \in Errors \cup {"OK"}
          /\ e = "OK" \/ f = "OK" => Len(packet) = SpecOf(kind).parse.length
      <3>1. e = IF Len(packet) # SpecOf(kind).parse.length THEN "LENGTH"
                ELSE IF null # {} THEN "BAD_ARGS" ELSE "OK"
        BY ParseStaticIs
      <3>2. f = IF Len(packet) # SpecOf(kind).parse.length THEN "LENGTH"
                ELSE IF "output" \in null THEN "BAD_ARGS"
                ELSE IF ~memory THEN "ALLOC" ELSE IF null # {} THEN "BAD_ARGS" ELSE "OK"
        BY ParseIs
      <3> HIDE DEF e, f
      <3> QED BY <3>1, <3>2 DEF Errors
    <2> HIDE DEF e, f
    <2>3. FitsRoute(kind, e, "named") /\ FitsRoute(kind, f, "named")
      BY DEF FitsRoute
    <2> QED BY <1>2, <2>1, <2>2, <2>3, ParsedCodec
  <1> QED BY <1>1, <1>2

LEMMA ServedStep ==
    ASSUME CodecInv, Serve
    PROVE  CodecInv'
  <1> DEFINE k == Dispatch(packet[1]).req
             e == ParseStaticError(SpecOf(k).parse, Len(packet), {})
  <1>0. stage = "sent"
    BY DEF Serve
  <1>1. /\ sent.kind \in Kinds /\ Len(packet) = SpecOf(sent.kind).bin_size
        /\ packet[1] = SpecOf(sent.kind).tester
    BY <1>0, OnItsWayIs
  <1>2. \/ k = sent.kind
        \/ /\ sent.kind \in {2, 4, 6, 8} /\ k \in Kinds
           /\ SpecOf(sent.kind).bin_size # SpecOf(k).bin_size
    BY <1>1, Dispatched
  <1>3. k \in Kinds
    BY <1>1, <1>2
  <1>4. SpecOf(k).parse.length = SpecOf(k).bin_size
    BY <1>3, KindIsGood
  <1>5. e = IF Len(packet) # SpecOf(k).parse.length THEN "LENGTH" ELSE "OK"
    BY ParseStaticIs
  <1>6. k # NONE
    BY <1>3 DEF Kinds, NONE, Payloads_TK_plugin
  <1>7. Parsed(k, e, "served", {})
    BY <1>6 DEF Serve
  <1> HIDE DEF k, e
  <1>8. /\ e \in Errors \cup {"OK"}
        /\ e = "OK" => Len(packet) = SpecOf(k).parse.length
        /\ IF e = "OK" THEN k = sent.kind ELSE sent.kind \in {2, 4, 6, 8}
    BY <1>1, <1>2, <1>4, <1>5 DEF Errors
  <1>9. FitsRoute(k, e, "served")
    BY <1>8 DEF FitsRoute
  <1> QED BY <1>3, <1>7, <1>8, <1>9, ParsedCodec

\* An export or a print leaves the packet and the struct alone.
LEMMA LaterStep ==
    ASSUME CodecInv,
           \/ (\E how \in Styles : ToJson(how)) \/ AllocItem \/ DataStrays \/ AllocFails
           \/ ToJsonReturns \/ PrettyPrint \/ PrintCrashes \/ MakeRepr \/ MakeStringified
           \/ Push \/ PushFails \/ PrintReturns
    PROVE  CodecInv'
  <1> DEFINE Later == {"parsed", "export", "exported", "print", "printed", "crashed"}
  <1>1. UNCHANGED codec /\ rv' \in {rv, "OK", "ALLOC"} /\ stage \in Later
        /\ stage' \in Later \cup {"failed"} /\ stage' # "sent" /\ stage' # "idle"
    BY DEF ToJson, AllocItem, DataStrays, AllocFails, ToJsonReturns, PrettyPrint,
       PrintCrashes, MakeRepr, MakeStringified, MakeText, Push, Pushable, PushFails,
       PrintReturns, Return
  <1>2. /\ sent' = sent /\ packet' = packet /\ parsed' = parsed /\ route' = route
        /\ parsed # Nobody
    BY <1>1 DEF codec, CodecInv, ParsedInTime
  <1>3. stage' \in Stages /\ rv' \in Errors \cup {"OK"} /\ packet' \in Seq(Bytes)
    BY <1>1, <1>2 DEF CodecInv, Stages, Errors
  <1>4. ParsedInType' /\ SentAsBuilt' /\ ParsedInTime'
    BY <1>1, <1>2 DEF CodecInv, ParsedInType, SentAsBuilt, ParsedInTime
  <1>5. RecognizedAsBuilt' /\ ServedAsBuilt'
    BY <1>2 DEF CodecInv, RecognizedAsBuilt, ServedAsBuilt
  <1> QED BY <1>3, <1>4, <1>5 DEF CodecInv

\* A fresh start.
LEMMA FreshStart ==
    ASSUME stage = "idle", rv = "OK", packet = <<>>, parsed = Nobody, route = ""
    PROVE  CodecInv
  <1>1. <<>> \in Seq(Bytes)
    BY EmptySeq
  <1> QED BY <1>1, NobodysKind DEF CodecInv, Stages, ParsedInType, SentAsBuilt, ParsedInTime,
             RecognizedAsBuilt, ServedAsBuilt

LEMMA CodecInductive == Spec => []CodecInv
  <1>1. Init => CodecInv
    BY FreshStart DEF Init
  <1>2. CodecInv /\ [Next]_vars => CodecInv'
    <2> SUFFICES ASSUME CodecInv, [Next]_vars PROVE CodecInv'
      OBVIOUS
    <2>1. ASSUME NEW kind \in Kinds, NEW data \in Datas[kind], NEW id, NEW null, NEW room,
                 NEW lookup, NEW peer, BuildStatic(kind, data, id, null, room, lookup, peer)
          PROVE  CodecInv'
      <3> DEFINE found == IF lookup THEN pld_build_common(id, null) ELSE "OK"
                 error == IF found # "OK" THEN found ELSE BuildStaticError(kind, id, null, room)
      <3>1. error \in Errors \cup {"OK"}
        BY BuildErrors
      <3>2. Built(kind, data, error, peer)
        BY <2>1 DEF BuildStatic
      <3> HIDE DEF error
      <3> QED BY <3>1, <3>2, BuiltCodec
    <2>2. ASSUME NEW kind \in Kinds, NEW data \in Datas[kind], NEW id, NEW null,
                 NEW memory \in BOOLEAN, NEW lookup, NEW peer,
                 Build(kind, data, id, null, memory, lookup, peer)
          PROVE  CodecInv'
      <3> DEFINE found == IF lookup THEN pld_build_common(id, null) ELSE "OK"
                 error == IF found # "OK" THEN found ELSE BuildError(kind, id, null, memory)
      <3>1. error \in Errors \cup {"OK"}
        BY BuildErrors
      <3>2. Built(kind, data, error, peer)
        BY <2>2 DEF Build
      <3> HIDE DEF error
      <3> QED BY <3>1, <3>2, BuiltCodec
    <2>3. ASSUME NEW memory \in BOOLEAN,
                 \/ ParseRecognized(memory)
                 \/ \E kind \in 0 .. 9, null \in {{}, {"output"}} : ParseAs(kind, null, memory)
          PROVE  CodecInv'
      BY <2>3, RecognizedStep, NamedStep
    <2>4. CASE Serve
      BY <2>4, ServedStep
    <2>5. CASE Release \/ Restart
      <3>1. /\ stage' = "idle" /\ rv' = "OK" /\ packet' = <<>> /\ parsed' = Nobody
            /\ route' = ""
        BY <2>5 DEF Release, Restart
      <3>2. <<>> \in Seq(Bytes)
        BY EmptySeq
      <3> QED BY <3>1, <3>2, NobodysKind DEF CodecInv, Stages, ParsedInType, SentAsBuilt, ParsedInTime,
                 RecognizedAsBuilt, ServedAsBuilt
    <2>6. CASE UNCHANGED vars
      <3>1. /\ stage' = stage /\ rv' = rv /\ sent' = sent /\ packet' = packet
            /\ addr' = addr /\ parsed' = parsed /\ route' = route
        BY <2>6 DEF vars, codec
      <3> QED BY <3>1 DEF CodecInv, ParsedInType, SentAsBuilt, ParsedInTime,
                 RecognizedAsBuilt, ServedAsBuilt
    <2> QED BY <2>1, <2>2, <2>3, <2>4, <2>5, <2>6, LaterStep DEF Next
  <1> QED BY <1>1, <1>2, PTL DEF Spec

\* A build function fills the buffer that it sized by BIN_SIZE to the last byte,
\* for every kind and every value of its members.
THEOREM BuildsFill == Spec => []FillsItsBuffer
  <1>1. CodecInv => FillsItsBuffer
    BY OnItsWayIs DEF FillsItsBuffer
  <1> QED BY <1>1, CodecInductive, PTL

\* Every packet is recognised by address, length and first byte as what it was
\* built as, and gives back the struct it was built from, whoever the peer is.
THEOREM RecognizedRight == Spec => []RecognizedAsBuilt
  <1>1. CodecInv => RecognizedAsBuilt
    BY DEF CodecInv
  <1> QED BY <1>1, CodecInductive, PTL

\* The server, which goes by the first byte alone, takes every request for what it
\* is, and its length check refuses every response.
THEOREM ServedRight == Spec => []ServedAsBuilt
  <1>1. CodecInv => ServedAsBuilt
    BY DEF CodecInv
  <1> QED BY <1>1, CodecInductive, PTL

\* Type correctness: a parsed struct holds values of its members' C types, even
\* when the caller named the wrong kind.
THEOREM PayloadsTypeCorrect == Spec => []TypeOK
  <1>1. CodecInv /\ MemInv /\ StrInv => TypeOK
    <2> SUFFICES ASSUME CodecInv, MemInv, StrInv PROVE TypeOK
      OBVIOUS
    <2>1. \A i \in DOMAIN packet : packet[i] \in 0 .. Base - 1
      BY LenProperties DEF CodecInv, Bytes
    <2>2. ASSUME parsed.kind # NONE
          PROVE  \A i \in DOMAIN Structs[parsed.kind] :
                     parsed.data[Structs[parsed.kind][i].name]
                         \in ValuesOf(Structs[parsed.kind][i])
      <3>1. parsed.kind \in Kinds
        BY <2>2 DEF CodecInv, ParsedInType
      <3>2. DOMAIN Structs[parsed.kind] = 1 .. Size(parsed.kind)
        BY <3>1, StructsAreGood DEF GoodFields
      <3> QED BY <2>2, <3>2 DEF CodecInv, ParsedInType
    <2> QED BY <2>1, <2>2 DEF TypeOK, CodecInv, Stages, Errors, MemInv, BuilderWhilePrinting,
               Blocks, StrInv
  <1>2. Init => MemInv
    BY DEF Init, MemInv, BuilderWhilePrinting, NoItems, LosesNothingElse
  <1> QED BY <1>1, <1>2, CodecInductive, MemStep, StringInductive, PTL DEF Spec

-----------------------------------------------------------------------------
(* Sequences put together from blocks, and the entries of some kinds.      *)

\* The first k blocks, put together.
Glued(b, k) == FlattenSeq([i \in 1 .. k |-> b[i]])

\* The blocks are put together one after the other.
LEMMA GlueSteps ==
    ASSUME NEW X, NEW n \in Nat, NEW b \in [1 .. n -> Seq(X)]
    PROVE  /\ Glued(b, 0) = <<>> /\ Glued(b, n) = FlattenSeq(b)
           /\ \A k \in 1 .. n : Glued(b, k) = Glued(b, k - 1) \o b[k]
           /\ \A k \in 0 .. n : Glued(b, k) \in Seq(X)
  <1> DEFINE Walk(h) == h[0] = <<>> /\ \A i \in 1 .. n : h[i] = h[i - 1] \o b[i]
  <1>1. PICK h \in [0 .. n -> Seq(X)] : Walk(h)
    <2> DEFINE step == [p \in Seq(X) \X (1 .. n) |-> p[1] \o b[p[2]]]
               base == <<>>
    <2>1. base \in Seq(X) /\ \A v \in Seq(X), i \in 1 .. n : step[<<v, i>>] = v \o b[i]
      BY EmptySeq
    <2>2. step \in [Seq(X) \X (1 .. n) -> Seq(X)]
      BY ConcatProperties
    <2> HIDE DEF step, base
    <2>3. PICK g \in [SUBSET (1 .. n) -> Seq(X)] : Folds(g, n, base, step)
      BY <2>1, <2>2, FoldExists
    <2>4. FoldsIn(Seq(X), g, n, base, step)
      <3>1. {} \in SUBSET (1 .. n)
        OBVIOUS
      <3> QED BY <2>3, <3>1 DEF Folds, FoldsIn
    <2>5. PICK h \in [0 .. n -> Seq(X)] : Unrolls(h, g, n, base, step)
      BY <2>1, <2>2, <2>4, FoldUnrolls
    <2>6. ASSUME NEW i \in 1 .. n PROVE h[i] = h[i - 1] \o b[i]
      <3>1. i - 1 \in 0 .. n
        OBVIOUS
      <3> QED BY <2>1, <2>5, <3>1 DEF Unrolls
    <2> QED BY <2>5, <2>6 DEF Unrolls, base
  <1>2. ASSUME NEW k \in 1 .. n PROVE Glued(b, k) = h[k]
    <2> DEFINE c == [i \in 1 .. k |-> b[i]]
               Eq(g) == g = [i \in 1 .. k |-> IF i = 1 THEN c[i] ELSE g[i - 1] \o c[i]]
               fl == CHOOSE g : Eq(g)
    <2>1. c \in Seq(Seq(X)) /\ Len(c) = k /\ k # 0
      OBVIOUS
    <2>2. \A i \in 1 .. k : c[i] = b[i] /\ i \in 1 .. n
      OBVIOUS
    <2> HIDE DEF c
    <2>3. FlattenSeq(c) = fl[k]
      BY <2>1 DEF FlattenSeq
    <2>4. Eq(fl)
      <3> DEFINE g == [i \in 1 .. k |-> h[i]]
      <3>1. \A i \in 1 .. k : g[i] = h[i] /\ (i # 1 => g[i - 1] = h[i - 1])
        OBVIOUS
      <3>2. DOMAIN g = 1 .. k /\ g = [i \in 1 .. k |-> g[i]]
        OBVIOUS
      <3> HIDE DEF g
      <3>3. \A i \in 1 .. k : g[i] = IF i = 1 THEN c[i] ELSE g[i - 1] \o c[i]
        <4> TAKE i \in 1 .. k
        <4>1. h[i] = h[i - 1] \o b[i] /\ c[i] = b[i] /\ g[i] = h[i]
          BY <1>1, <2>2, <3>1
        <4>2. CASE i = 1
          <5>1. h[i - 1] = <<>> /\ b[i] \in Seq(X)
            BY <1>1, <2>2, <4>2
          <5>2. h[i] = b[i]
            BY <4>1, <5>1
          <5> QED BY <4>1, <4>2, <5>2
        <4>3. CASE i # 1
          BY <3>1, <4>1, <4>3
        <4> QED BY <4>2, <4>3
      <3>4. Eq(g)
        BY <3>2, <3>3
      <3> HIDE DEF Eq
      <3> QED BY <3>4
    <2>5. \A i \in 1 .. k : fl[i] = IF i = 1 THEN c[i] ELSE fl[i - 1] \o c[i]
      BY <2>4
    <2> HIDE DEF fl, Eq
    <2> DEFINE T == {0} \cup {j \in 1 .. k : fl[j] = h[j]}
    <2>6. ASSUME NEW j \in 1 .. k, j - 1 \in T PROVE fl[j] = h[j]
      <3>1. fl[j] = IF j = 1 THEN b[j] ELSE fl[j - 1] \o b[j]
        BY <2>2, <2>5
      <3>2. h[j] = h[j - 1] \o b[j] /\ b[j] \in Seq(X)
        BY <1>1, <2>2
      <3>3. CASE j = 1
        <4>1. h[j - 1] = <<>>
          BY <1>1, <3>3
        <4> QED BY <3>1, <3>2, <3>3, <4>1
      <3>4. CASE j # 1
        <4>1. fl[j - 1] = h[j - 1]
          BY <2>6, <3>4
        <4> QED BY <3>1, <3>2, <3>4, <4>1
      <3> QED BY <3>3, <3>4
    <2>7. k \in T
      <3>1. 0 \in T /\ \A j \in 1 .. k : j - 1 \in T => j \in T
        BY <2>6
      <3>2. k \in Nat /\ k \in 0 .. k
        OBVIOUS
      <3> HIDE DEF T
      <3> QED BY <3>1, <3>2, AlongRange
    <2>8. fl[k] = h[k]
      BY <2>1, <2>7
    <2> QED BY <2>3, <2>8 DEF Glued, c
  <1>3. Glued(b, 0) = <<>>
    <2>1. [i \in 1 .. 0 |-> b[i]] = <<>>
      OBVIOUS
    <2> QED BY <2>1 DEF Glued, FlattenSeq
  <1>4. \A k \in 0 .. n : Glued(b, k) = h[k]
    BY <1>1, <1>2, <1>3
  <1>5. ASSUME NEW k \in 1 .. n PROVE Glued(b, k) = Glued(b, k - 1) \o b[k]
    <2>1. k - 1 \in 0 .. n /\ k \in 0 .. n
      OBVIOUS
    <2>2. h[k] = h[k - 1] \o b[k]
      BY <1>1
    <2>3. Glued(b, k) = h[k] /\ Glued(b, k - 1) = h[k - 1]
      BY <1>4, <2>1
    <2> QED BY <2>2, <2>3
  <1>6. Glued(b, n) = FlattenSeq(b)
    <2>1. [i \in 1 .. n |-> b[i]] = b
      OBVIOUS
    <2> QED BY <2>1 DEF Glued
  <1> QED BY <1>3, <1>4, <1>5, <1>6

\* What an entry contributes.
One(x, whats) == IF x.what \in whats THEN <<x>> ELSE <<>>

\* Of one entry, there is itself or nothing.
LEMMA OneType ==
    ASSUME NEW X, NEW x \in X, NEW whats
    PROVE  One(x, whats) \in Seq(X) /\ <<x>> \in Seq(X)
  BY EmptySeq DEF One

\* There is nothing in the empty sequence.
LEMMA OfEmpty ==
    ASSUME NEW whats
    PROVE  Of(<<>>, whats) = <<>>
  <1>1. [i \in DOMAIN <<>> |-> IF <<>>[i].what \in whats THEN <<(<<>>[i])>> ELSE <<>>] = <<>>
    OBVIOUS
  <1> QED BY <1>1 DEF Of, FlattenSeq

\* The entries of some kinds are put together from what each contributes.
LEMMA OfType ==
    ASSUME NEW X, NEW u \in Seq(X), NEW whats
    PROVE  Of(u, whats) \in Seq(X)
  <1> DEFINE n == Len(u)
             b == [i \in 1 .. n |-> One(u[i], whats)]
  <1>1. n \in Nat /\ DOMAIN u = 1 .. n /\ \A i \in 1 .. n : u[i] \in X
    BY LenProperties, ElementOfSeq
  <1>2. Of(u, whats) = FlattenSeq(b)
    BY <1>1 DEF Of, One
  <1>3. b \in [1 .. n -> Seq(X)]
    BY <1>1, OneType
  <1>4. n \in 0 .. n
    BY <1>1
  <1> HIDE DEF b, n
  <1>5. Glued(b, n) = FlattenSeq(b) /\ \A k \in 0 .. n : Glued(b, k) \in Seq(X)
    BY <1>1, <1>3, GlueSteps
  <1> QED BY <1>2, <1>4, <1>5

\* The entries of some kinds, one entry more.
LEMMA OfLast ==
    ASSUME NEW X, NEW u \in Seq(X), NEW x \in X, NEW whats
    PROVE  Of(u \o <<x>>, whats) = Of(u, whats) \o One(x, whats)
  <1> DEFINE v == u \o <<x>>
             n == Len(u) + 1
             b == [i \in 1 .. n |-> One(v[i], whats)]
  <1>1. /\ v \in Seq(X) /\ Len(v) = n /\ n \in Nat /\ n - 1 = Len(u)
        /\ \A i \in 1 .. n - 1 : v[i] = u[i]
        /\ v[n] = x
    <2>1. <<x>> \in Seq(X) /\ Len(<<x>>) = 1 /\ <<x>>[1] = x
      OBVIOUS
    <2>2. Len(u) \in Nat
      BY LenProperties
    <2> QED BY <2>1, <2>2, ConcatProperties
  <1>2. DOMAIN v = 1 .. n /\ DOMAIN u = 1 .. n - 1
    BY <1>1, LenProperties
  <1>3. Of(v, whats) = FlattenSeq(b)
    BY <1>2 DEF Of, One
  <1>4. Of(u, whats) = FlattenSeq([i \in 1 .. n - 1 |-> One(u[i], whats)])
    BY <1>2 DEF Of, One
  <1>5. b \in [1 .. n -> Seq(X)]
    <2>1. \A i \in 1 .. n : v[i] \in X
      BY <1>1, ElementOfSeq
    <2> QED BY <2>1, OneType
  <1>6. [i \in 1 .. n - 1 |-> b[i]] = [i \in 1 .. n - 1 |-> One(u[i], whats)]
    <2>1. \A i \in 1 .. n - 1 : i \in 1 .. n
      BY <1>1
    <2> QED BY <1>1, <2>1
  <1>7. b[n] = One(x, whats)
    BY <1>1
  <1> HIDE DEF b, v
  <1>8. /\ Glued(b, n) = FlattenSeq(b)
        /\ Glued(b, n) = Glued(b, n - 1) \o b[n]
        /\ Glued(b, n - 1) \in Seq(X)
    <2>1. n \in 1 .. n /\ n - 1 \in 0 .. n
      BY <1>1
    <2> QED BY <1>1, <1>5, <2>1, GlueSteps
  <1>9. Glued(b, n - 1) = Of(u, whats)
    BY <1>4, <1>6 DEF Glued
  <1> QED BY <1>3, <1>7, <1>8, <1>9 DEF v

\* The entries of some kinds, of one sequence after the other.
LEMMA OfConcat ==
    ASSUME NEW X, NEW s \in Seq(X), NEW t \in Seq(X), NEW whats
    PROVE  Of(s \o t, whats) = Of(s, whats) \o Of(t, whats)
  <1>0. \A a, b, c \in Seq(X) : (a \o b) \o c = a \o (b \o c)
    BY ConcatAssociative, SMTT(30)
  <1> DEFINE p(k) == SubSeq(t, 1, k)
             n == Len(t)
             T == {k \in 0 .. n : Of(s \o p(k), whats) = Of(s, whats) \o Of(p(k), whats)}
  <1>1. n \in Nat
    BY LenProperties
  <1>2. \A k \in 0 .. n : p(k) \in Seq(X)
    <2> TAKE k \in 0 .. n
    <2>1. \A i \in 1 .. k : t[i] \in X
      BY <1>1, ElementOfSeq
    <2> QED BY <1>1, <2>1, SubSeqProperties
  <1>3. p(0) = <<>>
    BY SubSeqEmpty
  <1>4. 0 \in T
    <2>1. s \o <<>> = s /\ Of(s, whats) \in Seq(X) /\ Of(<<>>, whats) = <<>>
      BY ConcatEmptySeq, OfEmpty, OfType
    <2>2. Of(s, whats) \o <<>> = Of(s, whats)
      BY <2>1, ConcatEmptySeq
    <2>3. Of(s \o p(0), whats) = Of(s, whats) \o Of(p(0), whats)
      BY <1>3, <2>1, <2>2
    <2> HIDE DEF p
    <2> QED BY <1>1, <2>3
  <1>5. ASSUME NEW k \in 1 .. n, k - 1 \in T PROVE k \in T
    <2> DEFINE q == p(k - 1)
               x == t[k]
    <2>1. k - 1 \in 0 .. n /\ q \in Seq(X) /\ x \in X /\ p(k) \in Seq(X)
      BY <1>1, <1>2, ElementOfSeq
    <2>2. p(k) = q \o <<x>>
      <3>1. 1 \in 1 .. Len(t) /\ k \in 1 .. Len(t)
        BY <1>1
      <3> QED BY <3>1, SubSeqRecursiveSecond
    <2>3. Of(s \o q, whats) = Of(s, whats) \o Of(q, whats)
      BY <1>5
    <2> HIDE DEF q, x, p
    <2>4. s \o (q \o <<x>>) = (s \o q) \o <<x>> /\ s \o q \in Seq(X)
      <3>1. <<x>> \in Seq(X)
        BY <2>1
      <3>2. s \o q \in Seq(X)
        BY <2>1, ConcatProperties
      <3>3. s \o (q \o <<x>>) = (s \o q) \o <<x>>
        BY <1>0, <2>1, <3>1, ZenonT(40)
      <3> QED BY <3>2, <3>3
    <2>5. Of((s \o q) \o <<x>>, whats) = Of(s \o q, whats) \o One(x, whats)
      BY <2>4, <2>1, OfLast
    <2>6. Of(q \o <<x>>, whats) = Of(q, whats) \o One(x, whats)
      BY <2>1, OfLast
    <2>7. (Of(s, whats) \o Of(q, whats)) \o One(x, whats)
              = Of(s, whats) \o (Of(q, whats) \o One(x, whats))
      <3>1. Of(s, whats) \in Seq(X) /\ Of(q, whats) \in Seq(X) /\ One(x, whats) \in Seq(X)
        BY <2>1, OfType, OneType
      <3> QED BY <3>1, <1>0, ZenonT(40)
    <2>8. k \in 0 .. n
      OBVIOUS
    <2>9. Of(s \o p(k), whats) = Of(s, whats) \o Of(p(k), whats)
      <3>1. Of(s \o p(k), whats) = (Of(s, whats) \o Of(q, whats)) \o One(x, whats)
        BY <2>2, <2>3, <2>4, <2>5, Zenon
      <3>2. Of(p(k), whats) = Of(q, whats) \o One(x, whats)
        BY <2>2, <2>6, Zenon
      <3> QED BY <2>7, <3>1, <3>2, Zenon
    <2> QED BY <2>8, <2>9
  <1>6. n \in T
    <2>1. n \in 0 .. n
      BY <1>1
    <2> HIDE DEF T, n
    <2> QED BY <1>1, <1>4, <1>5, <2>1, AlongRange
  <1>7. p(n) = t
    BY SubSeqFull
  <1> QED BY <1>6, <1>7

\* The entries of some kinds of blocks put together.
LEMMA OfGlued ==
    ASSUME NEW X, NEW n \in Nat, NEW b \in [1 .. n -> Seq(X)], NEW whats
    PROVE  Of(FlattenSeq(b), whats) = FlattenSeq([i \in 1 .. n |-> Of(b[i], whats)])
  <1> DEFINE c == [i \in 1 .. n |-> Of(b[i], whats)]
             T == {k \in 0 .. n : Of(Glued(b, k), whats) = Glued(c, k)}
  <1>0. \A u \in Seq(X) : Of(u, whats) \in Seq(X)
    BY OfType
  <1>1. c \in [1 .. n -> Seq(X)] /\ \A i \in 1 .. n : c[i] = Of(b[i], whats)
    BY <1>0
  <1> HIDE DEF c
  <1>2. /\ Glued(b, 0) = <<>> /\ Glued(b, n) = FlattenSeq(b)
        /\ \A k \in 1 .. n : Glued(b, k) = Glued(b, k - 1) \o b[k]
        /\ \A k \in 0 .. n : Glued(b, k) \in Seq(X)
    BY GlueSteps
  <1>3. /\ Glued(c, 0) = <<>> /\ Glued(c, n) = FlattenSeq(c)
        /\ \A k \in 1 .. n : Glued(c, k) = Glued(c, k - 1) \o c[k]
    BY <1>1, GlueSteps
  <1>4. 0 \in T
    BY <1>2, <1>3, OfEmpty
  <1>5. ASSUME NEW k \in 1 .. n, k - 1 \in T PROVE k \in T
    <2>1. k - 1 \in 0 .. n /\ k \in 0 .. n
      OBVIOUS
    <2>2. Glued(b, k - 1) \in Seq(X) /\ b[k] \in Seq(X)
      BY <1>2, <2>1
    <2>3. Of(Glued(b, k - 1) \o b[k], whats) = Of(Glued(b, k - 1), whats) \o Of(b[k], whats)
      BY <2>2, OfConcat
    <2>4. Of(Glued(b, k - 1), whats) = Glued(c, k - 1)
      BY <1>5
    <2>5. Glued(b, k) = Glued(b, k - 1) \o b[k] /\ Glued(c, k) = Glued(c, k - 1) \o c[k]
      BY <1>2, <1>3
    <2> QED BY <1>1, <2>1, <2>3, <2>4, <2>5
  <1>6. n \in T
    <2>1. n \in 0 .. n
      OBVIOUS
    <2> HIDE DEF T
    <2> QED BY <1>4, <1>5, <2>1, AlongRange
  <1> QED BY <1>2, <1>3, <1>6 DEF c

\* Blocks of one entry each are just the entries, empty blocks nothing.
LEMMA Singles ==
    ASSUME NEW X, NEW n \in Nat, NEW v \in [1 .. n -> X]
    PROVE  FlattenSeq([i \in 1 .. n |-> <<v[i]>>]) = v
  <1> DEFINE b == [i \in 1 .. n |-> <<v[i]>>]
             p(k) == [i \in 1 .. k |-> v[i]]
             T == {k \in 0 .. n : Glued(b, k) = p(k)}
  <1>1. b \in [1 .. n -> Seq(X)] /\ \A i \in 1 .. n : b[i] = <<v[i]>>
    OBVIOUS
  <1> HIDE DEF b
  <1>2. /\ Glued(b, 0) = <<>> /\ Glued(b, n) = FlattenSeq(b)
        /\ \A k \in 1 .. n : Glued(b, k) = Glued(b, k - 1) \o b[k]
    BY <1>1, GlueSteps
  <1>3. 0 \in T
    <2>1. p(0) = <<>>
      OBVIOUS
    <2>2. Glued(b, 0) = p(0) /\ 0 \in 0 .. n
      BY <1>2, <2>1
    <2> HIDE DEF p
    <2> QED BY <2>2
  <1>4. ASSUME NEW k \in 1 .. n, k - 1 \in T PROVE k \in T
    <2>1. k - 1 \in 0 .. n /\ k \in 0 .. n
      OBVIOUS
    <2>2. Glued(b, k) = p(k - 1) \o <<v[k]>>
      BY <1>1, <1>2, <1>4
    <2>3. p(k - 1) \o <<v[k]>> = p(k)
      <3>1. p(k - 1) \in Seq(X) /\ Len(p(k - 1)) = k - 1 /\ <<v[k]>> \in Seq(X)
            /\ Len(<<v[k]>>) = 1
        OBVIOUS
      <3>2. p(k) \in Seq(X) /\ Len(p(k)) = k
        OBVIOUS
      <3>3. ASSUME NEW i \in 1 .. k PROVE (p(k - 1) \o <<v[k]>>)[i] = p(k)[i]
        <4>1. i \in 1 .. Len(p(k - 1)) + Len(<<v[k]>>)
          BY <3>1
        <4>2. (p(k - 1) \o <<v[k]>>)[i] = IF i <= k - 1 THEN p(k - 1)[i] ELSE <<v[k]>>[i - (k - 1)]
          BY <3>1, <4>1, ConcatProperties
        <4>3. p(k)[i] = v[i]
          OBVIOUS
        <4>4. CASE i <= k - 1
          <5>1. p(k - 1)[i] = v[i]
            BY <4>4
          <5> QED BY <4>2, <4>3, <4>4, <5>1
        <4>5. CASE ~(i <= k - 1)
          <5>1. i = k /\ i - (k - 1) = 1
            BY <4>5
          <5>2. <<v[k]>>[1] = v[k]
            OBVIOUS
          <5> QED BY <4>2, <4>3, <4>5, <5>1, <5>2
        <4> QED BY <4>4, <4>5
      <3>4. p(k - 1) \o <<v[k]>> \in Seq(X) /\ Len(p(k - 1) \o <<v[k]>>) = k
        BY <3>1, ConcatProperties
      <3> HIDE DEF p
      <3> QED BY <3>2, <3>3, <3>4, SeqEqual
    <2> QED BY <2>1, <2>2, <2>3
  <1>5. n \in T
    <2>1. n \in 0 .. n
      OBVIOUS
    <2> HIDE DEF T
    <2> QED BY <1>3, <1>4, <2>1, AlongRange
  <1>6. p(n) = v
    OBVIOUS
  <1> QED BY <1>2, <1>5, <1>6 DEF b

\* Glueing empty blocks leaves nothing.
LEMMA Nothings ==
    ASSUME NEW n \in Nat
    PROVE  FlattenSeq([i \in 1 .. n |-> <<>>]) = <<>>
  <1> DEFINE b == [i \in 1 .. n |-> <<>>]
             T == {k \in 0 .. n : Glued(b, k) = <<>>}
  <1>1. b \in [1 .. n -> Seq({})] /\ \A i \in 1 .. n : b[i] = <<>>
    BY EmptySeq
  <1> HIDE DEF b
  <1>2. /\ Glued(b, 0) = <<>> /\ Glued(b, n) = FlattenSeq(b)
        /\ \A k \in 1 .. n : Glued(b, k) = Glued(b, k - 1) \o b[k]
    BY <1>1, GlueSteps
  <1>3. 0 \in T
    BY <1>2
  <1>4. ASSUME NEW k \in 1 .. n, k - 1 \in T PROVE k \in T
    <2>1. Glued(b, k) = <<>> \o <<>>
      BY <1>1, <1>2, <1>4
    <2>2. <<>> \o <<>> = <<>>
      OBVIOUS
    <2> QED BY <2>1, <2>2
  <1>5. n \in T
    <2>1. n \in 0 .. n
      OBVIOUS
    <2> HIDE DEF T
    <2> QED BY <1>3, <1>4, <2>1, AlongRange
  <1> QED BY <1>2, <1>5 DEF b

-----------------------------------------------------------------------------
(* A value and the double that carries it.                                 *)

\* The powers of two, one from the other.
LEMMA TwoUnrolls ==
    /\ Two[0] = 1 /\ \A n \in 0 .. 11 : Two[n] \in Nat \ {0}
    /\ \A n \in 1 .. 11 : Two[n] = 2 * Two[n - 1]
  <1> DEFINE Eq(g) == g = [n \in 0 .. 11 |-> IF n = 0 THEN 1 ELSE 2 * g[n - 1]]
             Exists(m) == \E g \in [0 .. m -> Nat \ {0}] :
                             g[0] = 1 /\ \A n \in 1 .. m : g[n] = 2 * g[n - 1]
             T == {m \in Nat : Exists(m)}
  <1> HIDE DEF Exists
  <1>0. \A m \in Nat : m \in T <=> Exists(m)
    OBVIOUS
  <1> HIDE DEF T
  <1>1. 0 \in T
    <2> DEFINE g == [n \in 0 .. 0 |-> 1]
    <2>1. g \in [0 .. 0 -> Nat \ {0}] /\ g[0] = 1 /\ \A n \in 1 .. 0 : g[n] = 2 * g[n - 1]
      OBVIOUS
    <2> QED BY <1>0, <2>1 DEF Exists
  <1>2. ASSUME NEW m \in Nat, m \in T PROVE m + 1 \in T
    <2>1. PICK g \in [0 .. m -> Nat \ {0}] : g[0] = 1 /\ \A n \in 1 .. m : g[n] = 2 * g[n - 1]
      BY <1>0, <1>2 DEF Exists
    <2> DEFINE h == [n \in 0 .. m + 1 |-> IF n = m + 1 THEN 2 * g[m] ELSE g[n]]
    <2>2. 2 * g[m] \in Nat \ {0}
      OBVIOUS
    <2>3. h \in [0 .. m + 1 -> Nat \ {0}] /\ h[0] = 1
      BY <2>1, <2>2
    <2>4. ASSUME NEW n \in 1 .. m + 1 PROVE h[n] = 2 * h[n - 1]
      <3>1. n - 1 \in 0 .. m /\ n - 1 \in 0 .. m + 1 /\ n - 1 # m + 1 /\ n \in 0 .. m + 1
        OBVIOUS
      <3>2. CASE n = m + 1
        BY <3>1, <3>2
      <3>3. CASE n # m + 1
        <4>1. n \in 1 .. m
          BY <3>3
        <4> QED BY <2>1, <3>1, <3>3, <4>1
      <3> QED BY <3>2, <3>3
    <2> HIDE DEF h
    <2>5. Exists(m + 1)
      BY <2>3, <2>4 DEF Exists
    <2> QED BY <1>0, <2>5
  <1>3. PICK g \in [0 .. 11 -> Nat \ {0}] : g[0] = 1 /\ \A n \in 1 .. 11 : g[n] = 2 * g[n - 1]
    <2>1. 11 \in T
      BY <1>1, <1>2, UpFromZero
    <2> QED BY <1>0, <2>1 DEF Exists
  <1>4. Eq(g)
    <2>1. \A n \in 0 .. 11 : g[n] = IF n = 0 THEN 1 ELSE 2 * g[n - 1]
      BY <1>3
    <2> QED BY <1>3, <2>1
  <1>5. Eq(Two)
    <2>1. Two = CHOOSE p : Eq(p)
      BY DEF Two
    <2> HIDE DEF Eq
    <2> QED BY <1>4, <2>1
  <1>6. Two[0] = 1 /\ \A n \in 1 .. 11 : Two[n] = 2 * Two[n - 1]
    BY <1>5
  <1>7. \A n \in 0 .. 11 : Two[n] \in Nat \ {0}
    <2>1. \A n \in 1 .. 11 : Two[n - 1] \in Nat \ {0} => Two[n] \in Nat \ {0}
      BY <1>6
    <2> QED BY <1>6, <2>1, AlongPrefixes
  <1> QED BY <1>6, <1>7

\* A number and the multiple of a step that is next to it.
LEMMA Rounds ==
    ASSUME NEW size \in Nat, NEW step \in Nat \ {0}, NEW u \in {0, 1},
           u = 1 => 2 * (size % step) >= step, u = 0 => 2 * (size % step) <= step
    PROVE  /\ (size \div step + u) * step \in Nat
           /\ 2 * ((size \div step + u) * step - size) <= step
           /\ 2 * (size - (size \div step + u) * step) <= step
  <1> DEFINE q == size \div step
             r == size % step
  <1>1. q \in Nat /\ r \in 0 .. step - 1 /\ size = step * q + r
    OBVIOUS
  <1>2. CASE u = 0
    <2>1. (q + u) * step = step * q /\ step * q \in Nat
      BY <1>1, <1>2
    <2> HIDE DEF q, r
    <2> QED BY <1>1, <1>2, <2>1 DEF q, r
  <1>3. CASE u = 1
    <2>1. (q + u) * step = step * q + step /\ step * q \in Nat
      BY <1>1, <1>3
    <2> HIDE DEF q, r
    <2> QED BY <1>1, <1>3, <2>1 DEF q, r
  <1> QED BY <1>2, <1>3

\* A value without its sign.
SizeOf(n) == IF n < 0 THEN -n ELSE n

\* Whatever is no larger than a value of eight bytes has a power of two for its step.
LEMMA StepExists ==
    ASSUME NEW size \in Nat, size <= Pow[8]
    PROVE  \E n \in 0 .. 11 : size <= Exact * Two[n] /\ (n = 0 \/ size > Exact * Two[n - 1])
  <1> DEFINE T == {n \in Nat : n <= 11 /\ size <= Exact * Two[n]}
  <1>0. \A n \in 0 .. 11 : Two[n] \in Nat /\ Exact * Two[n] \in Nat
    BY TwoUnrolls, ExactAssumption
  <1>1. 11 \in T
    <2>1. Pow[8] \in Nat
      BY PowUnrolls
    <2> QED BY <1>0, <2>1, ExactAssumption
  <1>2. PICK n \in T : \A m \in T : n <= m
    <2>1. T \in SUBSET Nat /\ T # {}
      BY <1>1
    <2> HIDE DEF T
    <2> QED BY <2>1, LeastNat
  <1>3. n = 0 \/ size > Exact * Two[n - 1]
    <2> SUFFICES ASSUME n # 0, ~(size > Exact * Two[n - 1]) PROVE FALSE
      OBVIOUS
    <2>1. n - 1 \in Nat /\ n - 1 <= 11 /\ n - 1 \in 0 .. 11
      BY <1>2
    <2>2. size <= Exact * Two[n - 1]
      BY <1>0, <2>1
    <2>3. n - 1 \in T
      BY <2>1, <2>2
    <2> QED BY <1>2, <2>3
  <1> QED BY <1>2, <1>3

\* A number of eight bytes is shown as exactly as a double can.
LEMMA DoubleNear ==
    ASSUME NEW v \in Int, SizeOf(v) <= Pow[8]
    PROVE  AsDouble(v) \in Int /\ Near(AsDouble(v), v)
  <1> DEFINE size == IF v < 0 THEN -v ELSE v
             P(n) == size <= Exact * Two[n] /\ (n = 0 \/ size > Exact * Two[n - 1])
             k == CHOOSE n \in 0 .. 11 : P(n)
             step == Two[k]
             rest == size % step
             up == 2 * rest > step \/ (2 * rest = step /\ (size \div step) % 2 = 1)
             u == IF up THEN 1 ELSE 0
             near == (size \div step + u) * step
             shown == IF v < 0 THEN -near ELSE near
  <1>1. AsDouble(v) = shown
    BY DEF AsDouble
  <1>2. size \in Nat /\ size <= Pow[8] /\ size = SizeOf(v)
    BY DEF SizeOf
  <1>3. k \in 0 .. 11 /\ P(k)
    <2>1. \E n \in 0 .. 11 : P(n)
      <3> HIDE DEF size
      <3> QED BY <1>2, StepExists
    <2> HIDE DEF P
    <2> QED BY <2>1
  <1>4. step \in Nat \ {0} /\ (k = 0 => step = 1) /\ (k # 0 => step = 2 * Two[k - 1])
        /\ (k # 0 => Two[k - 1] \in Nat \ {0})
    <2>1. k # 0 => k \in 1 .. 11 /\ k - 1 \in 0 .. 11
      BY <1>3
    <2> HIDE DEF k
    <2> QED BY <1>3, <2>1, TwoUnrolls
  <1>5. u \in {0, 1} /\ (u = 1 => 2 * rest >= step) /\ (u = 0 => 2 * rest <= step)
    <2>1. rest \in Nat /\ step \in Nat
      BY <1>2, <1>4
    <2> HIDE DEF rest, step
    <2> QED BY <2>1
  <1> HIDE DEF size, k, step, up
  <1>6. near \in Nat /\ 2 * (near - size) <= step /\ 2 * (size - near) <= step
    <2> HIDE DEF u
    <2> QED BY <1>2, <1>4, <1>5, Rounds
  <1>7. v \in Int /\ SizeOf(v) = size /\ (v < 0 => v = -size) /\ (v >= 0 => v = size)
    BY <1>2 DEF size
  <1> HIDE DEF near
  <1>8. shown \in Int /\ SizeOf(shown - v) = SizeOf(near - size)
    BY <1>2, <1>6, <1>7 DEF SizeOf
  <1>9. Near(shown, v) <=> IF size <= Exact THEN shown = v ELSE SizeOf(shown - v) * Exact <= size
    BY <1>7 DEF Near, SizeOf
  <1>10. CASE k = 0
    <2>1. near = size
      <3>1. step = 1
        BY <1>4, <1>10
      <3> QED BY <1>2, <1>6, <3>1
    <2>2. size <= Exact
      <3>1. size <= Exact * Two[0] /\ Two[0] = 1
        BY <1>3, <1>10, TwoUnrolls
      <3> QED BY <3>1, ExactAssumption
    <2> QED BY <1>1, <1>7, <1>8, <1>9, <2>1, <2>2
  <1>11. CASE k # 0
    <2> DEFINE h == Two[k - 1]
               d == SizeOf(near - size)
    <2>1. h \in Nat \ {0} /\ d \in Nat /\ d <= h
      BY <1>2, <1>4, <1>6, <1>11 DEF SizeOf
    <2>2. size > Exact * h
      BY <1>3, <1>11
    <2> HIDE DEF h, d
    <2>3. d * Exact <= Exact * h /\ Exact <= Exact * h
      <3>1. h - d \in Nat /\ h - 1 \in Nat /\ Exact \in Nat
        BY <2>1, ExactAssumption
      <3>2. Exact * (h - d) \in Nat /\ Exact * (h - 1) \in Nat
        BY <3>1
      <3> QED BY <2>1, <3>1, <3>2
    <2>4. d * Exact <= size /\ ~(size <= Exact)
      <3>1. d * Exact \in Nat /\ Exact * h \in Nat /\ Exact \in Nat
        BY <2>1, ExactAssumption
      <3> QED BY <1>2, <2>2, <2>3, <3>1
    <2> QED BY <1>1, <1>8, <1>9, <2>4 DEF d
  <1> QED BY <1>10, <1>11

\* A value of a field is no larger than eight bytes can be.
LEMMA FieldIsSmall ==
    ASSUME NEW f, IsField(f), NEW v \in ValuesOf(f)
    PROVE  v \in Int /\ SizeOf(v) <= Pow[8]
  <1> DEFINE m == f.bytes
             S == {k \in 0 .. 8 - m : Pow[m] <= Pow[m + k]}
  <1>1. m \in 1 .. 8 /\ v \in Int
    BY ValueBack DEF IsField
  <1>2. \A k \in 0 .. 8 : Pow[k] \in Nat \ {0}
    BY PowUnrolls
  <1>3. Pow[m] <= Pow[8]
    <2>1. 8 - m \in Nat /\ m + (8 - m) = 8
      BY <1>1
    <2>2. 0 \in S
      BY <1>1, <1>2
    <2>3. ASSUME NEW k \in 1 .. 8 - m, k - 1 \in S PROVE k \in S
      <3>1. m + k \in 1 .. 8 /\ m + (k - 1) \in 0 .. 8 /\ (m + k) - 1 = m + (k - 1)
            /\ k \in 0 .. 8 - m /\ m \in 0 .. 8
        BY <1>1
      <3>2. Pow[m + k] = Base * Pow[m + (k - 1)] /\ Pow[m + (k - 1)] \in Nat
        BY <1>2, <3>1, PowUnrolls
      <3>3. Base * Pow[m + (k - 1)] >= Pow[m + (k - 1)]
        <4>1. Base - 1 \in Nat
          BY BaseAssumption
        <4>2. (Base - 1) * Pow[m + (k - 1)] \in Nat
          BY <3>2, <4>1
        <4> QED BY <3>2, <4>1, <4>2, BaseAssumption
      <3>4. Pow[m] <= Pow[m + (k - 1)]
        BY <2>3
      <3>5. Pow[m] <= Pow[m + k]
        BY <1>2, <3>1, <3>2, <3>3, <3>4
      <3> QED BY <3>1, <3>5
    <2>4. 8 - m \in 0 .. 8 - m
      BY <2>1
    <2> HIDE DEF S
    <2>5. 8 - m \in S
      BY <2>1, <2>2, <2>3, <2>4, AlongRange
    <2> QED BY <2>1, <2>5 DEF S
  <1>4. SizeOf(v) <= Pow[m]
    <2>1. Pow[m] \in Nat \ {0}
      BY <1>1, <1>2
    <2>2. v \in -(Pow[m] \div 2) .. (Pow[m] \div 2) - 1 \/ v \in 0 .. Pow[m] - 1
      BY DEF ValuesOf
    <2> QED BY <1>1, <2>1, <2>2 DEF SizeOf
  <1>5. Pow[m] \in Nat /\ Pow[8] \in Nat
    BY <1>1, <1>2
  <1> QED BY <1>1, <1>3, <1>4, <1>5 DEF SizeOf

\* Where no entry is of the kinds, nothing is found.
LEMMA OfNone ==
    ASSUME NEW X, NEW s \in Seq(X), NEW whats, \A i \in 1 .. Len(s) : s[i].what \notin whats
    PROVE  Of(s, whats) = <<>>
  <1>1. Len(s) \in Nat /\ DOMAIN s = 1 .. Len(s)
    BY LenProperties
  <1>2. [i \in DOMAIN s |-> IF s[i].what \in whats THEN <<s[i]>> ELSE <<>>]
            = [i \in 1 .. Len(s) |-> <<>>]
    BY <1>1
  <1> QED BY <1>1, <1>2, Nothings DEF Of

\* Where one entry is of the kinds, it alone is found.
LEMMA OfSingle ==
    ASSUME NEW X, NEW s \in Seq(X), NEW whats, NEW j \in 1 .. Len(s), s[j].what \in whats,
           \A i \in 1 .. Len(s) : i # j => s[i].what \notin whats
    PROVE  Of(s, whats) = <<s[j]>>
  <1> DEFINE n == Len(s)
             b == [i \in 1 .. n |-> One(s[i], whats)]
             F(k) == IF k < j THEN <<>> ELSE <<s[j]>>
             T == {k \in 0 .. n : Glued(b, k) = F(k)}
  <1>1. n \in Nat /\ DOMAIN s = 1 .. n /\ j \in 1 .. n /\ \A i \in 1 .. n : s[i] \in X
    BY LenProperties, ElementOfSeq
  <1>2. Of(s, whats) = FlattenSeq(b)
    BY <1>1 DEF Of, One
  <1>3. b \in [1 .. n -> Seq(X)]
    BY <1>1, OneType
  <1>4. \A i \in 1 .. n : b[i] = IF i = j THEN <<s[j]>> ELSE <<>>
    BY <1>1 DEF One
  <1> HIDE DEF b, n
  <1>5. /\ Glued(b, 0) = <<>> /\ Glued(b, n) = FlattenSeq(b)
        /\ \A k \in 1 .. n : Glued(b, k) = Glued(b, k - 1) \o b[k]
    BY <1>1, <1>3, GlueSteps
  <1>6. /\ F(0) = <<>> /\ F(n) = <<s[j]>>
        /\ \A k \in 1 .. n : F(k) = F(k - 1) \o b[k]
    <2>1. j \in Nat /\ j >= 1 /\ j <= n
      BY <1>1
    <2>2. F(0) = <<>> /\ F(n) = <<s[j]>>
      BY <1>1, <2>1
    <2>3. ASSUME NEW k \in 1 .. n PROVE F(k) = F(k - 1) \o b[k]
      <3>1. <<>> \o <<>> = <<>> /\ <<>> \o <<s[j]>> = <<s[j]>> /\ <<s[j]>> \o <<>> = <<s[j]>>
        OBVIOUS
      <3>2. k \in Nat /\ k >= 1
        BY <1>1
      <3>3. CASE k < j
        <4>1. F(k) = <<>> /\ F(k - 1) = <<>> /\ b[k] = <<>>
          BY <1>4, <2>1, <3>2, <3>3
        <4> QED BY <3>1, <4>1
      <3>4. CASE k = j
        <4>1. F(k) = <<s[j]>> /\ F(k - 1) = <<>> /\ b[k] = <<s[j]>>
          BY <1>4, <2>1, <3>2, <3>4
        <4> QED BY <3>1, <4>1
      <3>5. CASE k > j
        <4>1. F(k) = <<s[j]>> /\ F(k - 1) = <<s[j]>> /\ b[k] = <<>>
          BY <1>4, <2>1, <3>2, <3>5
        <4> QED BY <3>1, <4>1
      <3>6. k < j \/ k = j \/ k > j
        BY <2>1, <3>2
      <3> HIDE DEF F
      <3> QED BY <3>3, <3>4, <3>5, <3>6
    <2> QED BY <2>2, <2>3
  <1> HIDE DEF F
  <1>7. 0 \in T /\ \A k \in 1 .. n : k - 1 \in T => k \in T
    <2>1. 0 \in 0 .. n /\ \A k \in 1 .. n : k \in 0 .. n /\ k - 1 \in 0 .. n
      BY <1>1
    <2> QED BY <1>5, <1>6, <2>1
  <1>8. n \in T
    <2>1. n \in 0 .. n
      BY <1>1
    <2> HIDE DEF T
    <2> QED BY <1>1, <1>7, <2>1, AlongRange
  <1> QED BY <1>2, <1>5, <1>6, <1>8

\* Blocks without an entry of the kinds.
LEMMA OfNoBlock ==
    ASSUME NEW X, NEW n \in Nat, NEW b \in [1 .. n -> Seq(X)], NEW whats,
           \A i \in 1 .. n : Of(b[i], whats) = <<>>
    PROVE  Of(FlattenSeq(b), whats) = <<>>
  <1>1. [i \in 1 .. n |-> Of(b[i], whats)] = [i \in 1 .. n |-> <<>>]
    OBVIOUS
  <1>2. Of(FlattenSeq(b), whats) = FlattenSeq([i \in 1 .. n |-> Of(b[i], whats)])
    BY OfGlued
  <1> QED BY <1>1, <1>2, Nothings

\* Blocks put together are a sequence.
LEMMA GluedType ==
    ASSUME NEW X, NEW n \in Nat, NEW b \in [1 .. n -> Seq(X)]
    PROVE  FlattenSeq(b) \in Seq(X)
  <1>1. Glued(b, n) = FlattenSeq(b) /\ \A k \in 0 .. n : Glued(b, k) \in Seq(X)
    BY GlueSteps
  <1>2. n \in 0 .. n
    OBVIOUS
  <1> QED BY <1>1, <1>2

-----------------------------------------------------------------------------
(* What an export hangs on the object and a print pushes, for every kind.  *)

\* A member shown under its name.
ShowsMember(shows, field) ==
    shows.key = field.name /\ shows.member = field.name

\* The rows of data_to_json show the member at the same place.
LEMMA MemberShown ==
    ASSUME NEW name
    PROVE  /\ ShowsMember(Shows(name, "u8", name), u8(name))
           /\ ShowsMember(Shows(name, "u64", name), u64(name))
           /\ ShowsMember(Shows(name, "i64", name), i64(name))
  BY DEF ShowsMember, Shows, u8, u64, i64

\* Every kind shows the members of its struct, in order.
LEMMA ShowsItsMembers ==
    ASSUME NEW kind \in Kinds
    PROVE  /\ DOMAIN SpecOf(kind).data_to_json = 1 .. Size(kind)
           /\ \A i \in 1 .. Size(kind) :
                  ShowsMember(SpecOf(kind).data_to_json[i], Structs[kind][i])
  <1> DEFINE t == SpecOf(kind).data_to_json
             s == Structs[kind]
  <1>1. CASE kind = 1 /\ SpecOf(kind) = Spec_SET_TIME_REQ /\ Structs[kind] = TK_SET_TIME_REQ
    <2>1. t = TK_SET_TIME_REQ_to_json
      BY <1>1 DEF Spec_SET_TIME_REQ, Entry
    <2>2. Size(kind) = 1 /\ DOMAIN t = 1 .. 1
      BY <1>1, <2>1 DEF TK_SET_TIME_REQ, TK_SET_TIME_REQ_to_json, Size
    <2>3. /\ t[1] = Shows("time", "u64", "time") /\ s[1] = u64("time")
      BY <1>1, <2>1 DEF TK_SET_TIME_REQ, TK_SET_TIME_REQ_to_json
    <2>4. \A i \in 1 .. 1 : i = 1
      OBVIOUS
    <2> HIDE DEF t, s
    <2>5. \A i \in 1 .. 1 : ShowsMember(t[i], s[i])
      BY <2>3, <2>4, MemberShown
    <2> QED BY <2>1, <2>2, <2>5 DEF t, s
  <1>2. CASE kind = 2 /\ SpecOf(kind) = Spec_SET_TIME_RSP /\ Structs[kind] = TK_SET_TIME_RSP
    <2>1. t = TK_SET_TIME_RSP_to_json
      BY <1>2 DEF Spec_SET_TIME_RSP, Entry
    <2>2. Size(kind) = 1 /\ DOMAIN t = 1 .. 1
      BY <1>2, <2>1 DEF TK_SET_TIME_RSP, TK_SET_TIME_RSP_to_json, Size
    <2>3. /\ t[1] = Shows("ret_val", "u8", "ret_val") /\ s[1] = u8("ret_val")
      BY <1>2, <2>1 DEF TK_SET_TIME_RSP, TK_SET_TIME_RSP_to_json
    <2>4. \A i \in 1 .. 1 : i = 1
      OBVIOUS
    <2> HIDE DEF t, s
    <2>5. \A i \in 1 .. 1 : ShowsMember(t[i], s[i])
      BY <2>3, <2>4, MemberShown
    <2> QED BY <2>1, <2>2, <2>5 DEF t, s
  <1>3. CASE kind = 3 /\ SpecOf(kind) = Spec_GET_TIME_REQ /\ Structs[kind] = TK_GET_TIME_REQ
    <2>1. t = TK_GET_TIME_REQ_to_json
      BY <1>3 DEF Spec_GET_TIME_REQ, Entry
    <2>2. Size(kind) = 0 /\ DOMAIN t = 1 .. 0
      BY <1>3, <2>1 DEF TK_GET_TIME_REQ, TK_GET_TIME_REQ_to_json, Size
    <2> QED BY <2>1, <2>2
  <1>4. CASE kind = 4 /\ SpecOf(kind) = Spec_GET_TIME_RSP /\ Structs[kind] = TK_GET_TIME_RSP
    <2>1. t = TK_GET_TIME_RSP_to_json
      BY <1>4 DEF Spec_GET_TIME_RSP, Entry
    <2>2. Size(kind) = 1 /\ DOMAIN t = 1 .. 1
      BY <1>4, <2>1 DEF TK_GET_TIME_RSP, TK_GET_TIME_RSP_to_json, Size
    <2>3. /\ t[1] = Shows("time", "u64", "time") /\ s[1] = u64("time")
      BY <1>4, <2>1 DEF TK_GET_TIME_RSP, TK_GET_TIME_RSP_to_json
    <2>4. \A i \in 1 .. 1 : i = 1
      OBVIOUS
    <2> HIDE DEF t, s
    <2>5. \A i \in 1 .. 1 : ShowsMember(t[i], s[i])
      BY <2>3, <2>4, MemberShown
    <2> QED BY <2>1, <2>2, <2>5 DEF t, s
  <1>5. CASE kind = 5 /\ SpecOf(kind) = Spec_SYNC_TIME_REQ /\ Structs[kind] = TK_SYNC_TIME_REQ
    <2>1. t = TK_SYNC_TIME_REQ_to_json
      BY <1>5 DEF Spec_SYNC_TIME_REQ, Entry
    <2>2. Size(kind) = 2 /\ DOMAIN t = 1 .. 2
      BY <1>5, <2>1 DEF TK_SYNC_TIME_REQ, TK_SYNC_TIME_REQ_to_json, Size
    <2>3. /\ t[1] = Shows("frequency", "i64", "frequency") /\ s[1] = i64("frequency")
          /\ t[2] = Shows("flags", "u8", "flags") /\ s[2] = u8("flags")
      BY <1>5, <2>1 DEF TK_SYNC_TIME_REQ, TK_SYNC_TIME_REQ_to_json
    <2>4. \A i \in 1 .. 2 : i = 1 \/ i = 2
      OBVIOUS
    <2> HIDE DEF t, s
    <2>5. \A i \in 1 .. 2 : ShowsMember(t[i], s[i])
      BY <2>3, <2>4, MemberShown
    <2> QED BY <2>1, <2>2, <2>5 DEF t, s
  <1>6. CASE kind = 6 /\ SpecOf(kind) = Spec_SYNC_TIME_RSP /\ Structs[kind] = TK_SYNC_TIME_RSP
    <2>1. t = TK_SYNC_TIME_RSP_to_json
      BY <1>6 DEF Spec_SYNC_TIME_RSP, Entry
    <2>2. Size(kind) = 6 /\ DOMAIN t = 1 .. 6
      BY <1>6, <2>1 DEF TK_SYNC_TIME_RSP, TK_SYNC_TIME_RSP_to_json, Size
    <2>3. /\ t[1] = Shows("error", "u8", "error") /\ s[1] = u8("error")
          /\ t[2] = Shows("last_sync", "u64", "last_sync") /\ s[2] = u64("last_sync")
          /\ t[3] = Shows("mode", "u8", "mode") /\ s[3] = u8("mode")
          /\ t[4] = Shows("master_node", "u8", "master_node") /\ s[4] = u8("master_node")
          /\ t[5] = Shows("last_failed_node", "u8", "last_failed_node") /\ s[5] = u8("last_failed_node")
          /\ t[6] = Shows("ret_val", "u8", "ret_val") /\ s[6] = u8("ret_val")
      BY <1>6, <2>1 DEF TK_SYNC_TIME_RSP, TK_SYNC_TIME_RSP_to_json
    <2>4. \A i \in 1 .. 6 : i = 1 \/ i = 2 \/ i = 3 \/ i = 4 \/ i = 5 \/ i = 6
      OBVIOUS
    <2> HIDE DEF t, s
    <2>5. \A i \in 1 .. 6 : ShowsMember(t[i], s[i])
      BY <2>3, <2>4, MemberShown
    <2> QED BY <2>1, <2>2, <2>5 DEF t, s
  <1>7. CASE kind = 7 /\ SpecOf(kind) = Spec_SYNC_SLAVES_REQ /\ Structs[kind] = TK_SYNC_SLAVES_REQ
    <2>1. t = TK_SYNC_SLAVES_REQ_to_json
      BY <1>7 DEF Spec_SYNC_SLAVES_REQ, Entry
    <2>2. Size(kind) = 2 /\ DOMAIN t = 1 .. 2
      BY <1>7, <2>1 DEF TK_SYNC_SLAVES_REQ, TK_SYNC_SLAVES_REQ_to_json, Size
    <2>3. /\ t[1] = Shows("node", "u8", "node") /\ s[1] = u8("node")
          /\ t[2] = Shows("time", "u64", "time") /\ s[2] = u64("time")
      BY <1>7, <2>1 DEF TK_SYNC_SLAVES_REQ, TK_SYNC_SLAVES_REQ_to_json
    <2>4. \A i \in 1 .. 2 : i = 1 \/ i = 2
      OBVIOUS
    <2> HIDE DEF t, s
    <2>5. \A i \in 1 .. 2 : ShowsMember(t[i], s[i])
      BY <2>3, <2>4, MemberShown
    <2> QED BY <2>1, <2>2, <2>5 DEF t, s
  <1>8. CASE kind = 8 /\ SpecOf(kind) = Spec_SYNC_SLAVES_RSP /\ Structs[kind] = TK_SYNC_SLAVES_RSP
    <2>1. t = TK_SYNC_SLAVES_RSP_to_json
      BY <1>8 DEF Spec_SYNC_SLAVES_RSP, Entry
    <2>2. Size(kind) = 1 /\ DOMAIN t = 1 .. 1
      BY <1>8, <2>1 DEF TK_SYNC_SLAVES_RSP, TK_SYNC_SLAVES_RSP_to_json, Size
    <2>3. /\ t[1] = Shows("ret_val", "u8", "ret_val") /\ s[1] = u8("ret_val")
      BY <1>8, <2>1 DEF TK_SYNC_SLAVES_RSP, TK_SYNC_SLAVES_RSP_to_json
    <2>4. \A i \in 1 .. 1 : i = 1
      OBVIOUS
    <2> HIDE DEF t, s
    <2>5. \A i \in 1 .. 1 : ShowsMember(t[i], s[i])
      BY <2>3, <2>4, MemberShown
    <2> QED BY <2>1, <2>2, <2>5 DEF t, s
  <1> QED BY <1>1, <1>2, <1>3, <1>4, <1>5, <1>6, <1>7, <1>8, EachKind

\* Data with values of the members' types.
InType(kind, data) ==
    \A i \in 1 .. Size(kind) : data[Structs[kind][i].name] \in ValuesOf(Structs[kind][i])

\* The name of a member, and its value as a double carries it.
NameOf(kind, i) == Structs[kind][i].name
ShownAs(kind, data, i) == AsDouble(data[NameOf(kind, i)])

\* What is shown of a value.
LEMMA ValuesShown ==
    ASSUME NEW kind \in Kinds, NEW data, InType(kind, data), NEW i \in 1 .. Size(kind)
    PROVE  Near(ShownAs(kind, data, i), data[NameOf(kind, i)])
  <1> DEFINE v == data[NameOf(kind, i)]
  <1>1. IsField(Structs[kind][i])
    BY StructsAreGood DEF GoodFields
  <1>2. v \in Int /\ SizeOf(v) <= Pow[8]
    BY <1>1, FieldIsSmall DEF InType, NameOf
  <1> HIDE DEF v
  <1>3. Near(AsDouble(v), v)
    BY <1>2, DoubleNear
  <1> QED BY <1>3 DEF v, ShownAs

\* The items of a member: its value and what annotates it.
ValueItem(kind, data, i) == Item("value", NameOf(kind, i), ShownAs(kind, data, i))
MemberItem(kind, i) == Item("member", NameOf(kind, i), 0)
TypeItem(kind, i) == Item("type", NameOf(kind, i), SpecOf(kind).data_to_json[i].type)

\* The items of the object around them.
ObjectItem == Item("object", "", 0)
NameItem(kind) == Item("name", "name", SpecOf(kind).name)
DescrItem(kind) == Item("descr", "descr", SpecOf(kind).name)
DataItem == Item("data", "data", 0)

\* Everything an export of a struct may hang on its object.
ItemSet(kind, data) ==
    {ValueItem(kind, data, i) : i \in 1 .. Size(kind)}
    \cup {MemberItem(kind, i) : i \in 1 .. Size(kind)}
    \cup {TypeItem(kind, i) : i \in 1 .. Size(kind)}
    \cup {ObjectItem, NameItem(kind), DescrItem(kind), DataItem}

\* The values of a struct, in the order of its members.
ValueItems(kind, data) == [i \in 1 .. Size(kind) |-> ValueItem(kind, data, i)]

\* What the items of a kind are.
LEMMA ItemsAre ==
    ASSUME NEW kind, NEW data
    PROVE  /\ \A i \in 1 .. Size(kind) :
                  /\ ValueItem(kind, data, i) \in ItemSet(kind, data)
                  /\ MemberItem(kind, i) \in ItemSet(kind, data)
                  /\ TypeItem(kind, i) \in ItemSet(kind, data)
           /\ {ObjectItem, NameItem(kind), DescrItem(kind), DataItem} \subseteq ItemSet(kind, data)
           /\ \A i : /\ ValueItem(kind, data, i).what = "value"
                     /\ MemberItem(kind, i).what = "member" /\ TypeItem(kind, i).what = "type"
           /\ ObjectItem.what = "object" /\ NameItem(kind).what = "name"
           /\ DescrItem(kind).what = "descr" /\ DataItem.what = "data"
  <1>1. /\ \A i : /\ ValueItem(kind, data, i).what = "value"
                  /\ MemberItem(kind, i).what = "member" /\ TypeItem(kind, i).what = "type"
        /\ ObjectItem.what = "object" /\ NameItem(kind).what = "name"
        /\ DescrItem(kind).what = "descr" /\ DataItem.what = "data"
    BY DEF Item, ValueItem, MemberItem, TypeItem, ObjectItem, NameItem, DescrItem, DataItem
  <1> QED BY <1>1 DEF ItemSet

\* The items of the members are the values and what annotates them.
LEMMA MembersAre ==
    ASSUME NEW kind \in Kinds, NEW data, NEW how
    PROVE  LET m == MemberItems(SpecOf(kind).data_to_json, data, how)
           IN  /\ m \in Seq(ItemSet(kind, data))
               /\ \A whats : whats \cap {"value", "member", "type"} = {} => Of(m, whats) = <<>>
               /\ \A whats : whats \cap {"value", "member", "type"} = {"value"}
                                 => Of(m, whats) = ValueItems(kind, data)
  <1> DEFINE n == Size(kind)
             X == ItemSet(kind, data)
             spec == SpecOf(kind).data_to_json
             v(i) == ValueItem(kind, data, i)
             x(i) == MemberItem(kind, i)
             y(i) == TypeItem(kind, i)
             block(i) == IF how = "ANNOTATED" THEN <<x(i), y(i), v(i)>> ELSE <<v(i)>>
             b == [i \in 1 .. n |-> block(i)]
             m == MemberItems(spec, data, how)
  <1>0. n \in Nat
    BY StructsAreGood
  <1>1. m = FlattenSeq(b)
    <2>1. \A i \in 1 .. n : /\ spec[i].key = NameOf(kind, i) /\ spec[i].member = NameOf(kind, i)
      BY ShowsItsMembers DEF ShowsMember, NameOf
    <2>2. DOMAIN spec = 1 .. n
      BY ShowsItsMembers
    <2> HIDE DEF n
    <2>3. b = [i \in DOMAIN spec |->
                 LET k == spec[i]
                     value == Item("value", k.key, AsDouble(data[k.member]))
                 IN  IF how = "ANNOTATED"
                     THEN <<Item("member", k.key, 0), Item("type", k.key, k.type), value>>
                     ELSE <<value>>]
      BY <2>1, <2>2 DEF ValueItem, MemberItem, TypeItem, ShownAs
    <2> QED BY <2>3 DEF MemberItems
  <1>2. \A i \in 1 .. n : /\ v(i) \in X /\ x(i) \in X /\ y(i) \in X
                          /\ v(i).what = "value" /\ x(i).what = "member" /\ y(i).what = "type"
    BY ItemsAre
  <1> HIDE DEF x, y, v, X
  <1>3. ASSUME NEW i \in 1 .. n
        PROVE  /\ block(i) \in Seq(X)
               /\ \/ Len(block(i)) = 1 /\ block(i)[1] = v(i)
                  \/ /\ Len(block(i)) = 3 /\ block(i)[1] = x(i) /\ block(i)[2] = y(i)
                     /\ block(i)[3] = v(i)
    BY <1>2
  <1>4. b \in [1 .. n -> Seq(X)] /\ \A i \in 1 .. n : b[i] = block(i)
    BY <1>3
  <1> HIDE DEF b, block, n
  <1>5. m \in Seq(X)
    BY <1>0, <1>1, <1>4, GluedType
  <1>6. ASSUME NEW whats, whats \cap {"value", "member", "type"} = {}
        PROVE  Of(m, whats) = <<>>
    <2>1. ASSUME NEW i \in 1 .. n PROVE Of(b[i], whats) = <<>>
      <3>0. "value" \notin whats /\ "member" \notin whats /\ "type" \notin whats
        BY <1>6
      <3>1. \A j \in 1 .. Len(b[i]) : b[i][j].what \notin whats
        BY <1>2, <1>3, <1>4, <3>0
      <3> QED BY <1>3, <1>4, <3>1, OfNone
    <2> QED BY <1>0, <1>1, <1>4, <2>1, OfNoBlock, ZenonT(40)
  <1>7. ASSUME NEW whats, whats \cap {"value", "member", "type"} = {"value"}
        PROVE  Of(m, whats) = ValueItems(kind, data)
    <2> DEFINE w == [i \in 1 .. n |-> v(i)]
    <2>1. ASSUME NEW i \in 1 .. n PROVE Of(b[i], whats) = <<v(i)>>
      <3>0. "value" \in whats /\ "member" \notin whats /\ "type" \notin whats
        BY <1>7
      <3>1. CASE Len(b[i]) = 1 /\ b[i][1] = v(i)
        <4>1. 1 \in 1 .. Len(b[i]) /\ \A k \in 1 .. Len(b[i]) : k = 1
          BY <3>1
        <4>2. b[i][1].what \in whats /\ b[i] \in Seq(X)
          BY <1>2, <1>4, <3>0, <3>1
        <4>3. Of(b[i], whats) = <<b[i][1]>>
          BY <4>1, <4>2, OfSingle
        <4> QED BY <3>1, <4>3
      <3>2. CASE Len(b[i]) = 3 /\ b[i][1] = x(i) /\ b[i][2] = y(i) /\ b[i][3] = v(i)
        <4>1. 3 \in 1 .. Len(b[i]) /\ \A k \in 1 .. Len(b[i]) : k # 3 => k = 1 \/ k = 2
          BY <3>2
        <4>2. /\ b[i][1].what \notin whats /\ b[i][2].what \notin whats
              /\ b[i][3].what \in whats /\ b[i] \in Seq(X)
          BY <1>2, <1>4, <3>0, <3>2
        <4>4. \A k \in 1 .. Len(b[i]) : k # 3 => b[i][k].what \notin whats
          BY <4>1, <4>2
        <4>3. Of(b[i], whats) = <<b[i][3]>>
          BY <4>1, <4>2, <4>4, OfSingle
        <4> QED BY <3>2, <4>3
      <3> QED BY <1>3, <1>4, <3>1, <3>2
    <2>2. w \in [1 .. n -> X] /\ \A i \in 1 .. n : w[i] = v(i)
      BY <1>2
    <2>3. w = ValueItems(kind, data)
      BY DEF ValueItems, v, n
    <2> HIDE DEF w
    <2>4. [i \in 1 .. n |-> Of(b[i], whats)] = [i \in 1 .. n |-> <<w[i]>>]
      BY <2>1, <2>2
    <2>5. FlattenSeq([i \in 1 .. n |-> <<w[i]>>]) = w
      BY <1>0, <2>2, Singles
    <2>6. Of(FlattenSeq(b), whats) = FlattenSeq([i \in 1 .. n |-> Of(b[i], whats)])
      BY <1>0, <1>4, OfGlued
    <2> QED BY <1>1, <2>3, <2>4, <2>5, <2>6
  <1> QED BY <1>5, <1>6, <1>7 DEF X

\* What comes before the members.
FrontItems(kind, how) ==
    <<ObjectItem>>
    \o (IF how # "DATAONLY" THEN <<NameItem(kind)>> ELSE <<>>)
    \o (IF how = "ANNOTATED" /\ SpecOf(kind).descr THEN <<DescrItem(kind)>> ELSE <<>>)
    \o (IF how # "DATAONLY" THEN <<DataItem>> ELSE <<>>)

\* A block of one entry and one more.
LEMMA OneAndOne ==
    ASSUME NEW X, NEW a \in X, NEW b \in X
    PROVE  <<a>> \o <<b>> = <<a, b>>
  <1>1. <<a>> \in Seq(X) /\ <<b>> \in Seq(X) /\ <<a, b>> \in Seq(X)
    OBVIOUS
  <1>2. Len(<<a>> \o <<b>>) = 2 /\ Len(<<a, b>>) = 2 /\ <<a>> \o <<b>> \in Seq(X)
    BY <1>1, ConcatProperties
  <1>3. (<<a>> \o <<b>>)[1] = a /\ (<<a>> \o <<b>>)[2] = b
    BY <1>1, ConcatProperties
  <1>4. \A i \in 1 .. 2 : (<<a>> \o <<b>>)[i] = <<a, b>>[i]
    <2>1. \A i \in 1 .. 2 : i = 1 \/ i = 2
      OBVIOUS
    <2> QED BY <1>3, <2>1
  <1> QED BY <1>1, <1>2, <1>4, SeqEqual

\* A block of two entries and one more.
LEMMA PairAndOne ==
    ASSUME NEW X, NEW a \in X, NEW b \in X, NEW c \in X
    PROVE  <<a, b>> \o <<c>> = <<a, b, c>>
  <1>1. <<a, b>> \in Seq(X) /\ <<c>> \in Seq(X) /\ <<a, b, c>> \in Seq(X)
    OBVIOUS
  <1>2. Len(<<a, b>> \o <<c>>) = 3 /\ Len(<<a, b, c>>) = 3 /\ <<a, b>> \o <<c>> \in Seq(X)
    BY <1>1, ConcatProperties
  <1>3. (<<a, b>> \o <<c>>)[1] = a /\ (<<a, b>> \o <<c>>)[2] = b /\ (<<a, b>> \o <<c>>)[3] = c
    BY <1>1, ConcatProperties
  <1>4. \A i \in 1 .. 3 : (<<a, b>> \o <<c>>)[i] = <<a, b, c>>[i]
    <2>1. \A i \in 1 .. 3 : i = 1 \/ i = 2 \/ i = 3
      OBVIOUS
    <2> QED BY <1>3, <2>1
  <1> QED BY <1>1, <1>2, <1>4, SeqEqual

\* A block of three entries and one more.
LEMMA TripleAndOne ==
    ASSUME NEW X, NEW a \in X, NEW b \in X, NEW c \in X, NEW d \in X
    PROVE  <<a, b, c>> \o <<d>> = <<a, b, c, d>>
  <1> DEFINE s == <<a, b, c>> \o <<d>>
  <1>1. <<a, b, c>> \in Seq(X) /\ <<d>> \in Seq(X) /\ <<a, b, c, d>> \in Seq(X)
    OBVIOUS
  <1>2. Len(s) = 4 /\ Len(<<a, b, c, d>>) = 4 /\ s \in Seq(X)
    BY <1>1, ConcatProperties
  <1>3. s[1] = a /\ s[2] = b /\ s[3] = c /\ s[4] = d
    BY <1>1, ConcatProperties
  <1>4. \A i \in 1 .. 4 : s[i] = <<a, b, c, d>>[i]
    <2>1. \A i \in 1 .. 4 : i = 1 \/ i = 2 \/ i = 3 \/ i = 4
      OBVIOUS
    <2> HIDE DEF s
    <2> QED BY <1>3, <2>1
  <1> HIDE DEF s
  <1>5. s = <<a, b, c, d>>
    BY <1>1, <1>2, <1>4, SeqEqual
  <1> QED BY <1>5 DEF s

\* The short blocks are sequences of their entries.
LEMMA ShortTuples ==
    ASSUME NEW a, NEW b, NEW c, NEW d
    PROVE  /\ ((<<a>> \o <<>>) \o <<>>) \o <<>> = <<a>>
           /\ ((<<a>> \o <<b>>) \o <<>>) \o <<d>> = <<a, b, d>>
           /\ ((<<a>> \o <<b>>) \o <<c>>) \o <<d>> = <<a, b, c, d>>
           /\ <<a>> \o <<>> # <<>>
  <1> DEFINE X == {a, b, c, d}
  <1>0. a \in X /\ b \in X /\ c \in X /\ d \in X
    OBVIOUS
  <1> HIDE DEF X
  <1>1. <<a>> \o <<>> = <<a>> /\ <<a>> # <<>>
    OBVIOUS
  <1>2. <<a>> \o <<b>> = <<a, b>>
    BY <1>0, OneAndOne
  <1>3. <<a, b>> \o <<>> = <<a, b>>
    <2>1. <<a, b>> \in Seq(X)
      BY <1>0
    <2> QED BY <2>1, ConcatEmptySeq
  <1>4. <<a, b>> \o <<c>> = <<a, b, c>> /\ <<a, b>> \o <<d>> = <<a, b, d>>
    BY ONLY <1>0, PairAndOne, Zenon
  <1>5. <<a, b, c>> \o <<d>> = <<a, b, c, d>>
    BY <1>0, TripleAndOne
  <1> QED BY <1>1, <1>2, <1>3, <1>4, <1>5, Zenon

\* The longest block of tokens is a sequence of its four entries.
LEMMA FourTuple ==
    ASSUME NEW a, NEW b, NEW c, NEW d
    PROVE  ((<<a>> \o <<b>>) \o <<c>>) \o <<d>> = <<a, b, c, d>>
  BY ShortTuples, ZenonT(40)

\* The blocks of a struct are a function of the place of the member.
LEMMA ConstSeq ==
    ASSUME NEW X, NEW x \in X, NEW k \in Nat
    PROVE  [i \in 1 .. k |-> x] \in Seq(X) /\ Len([i \in 1 .. k |-> x]) = k
  OBVIOUS

\* The front holds items of the struct.
LEMMA FrontIs ==
    ASSUME NEW kind, NEW how
    PROVE  \/ how = "DATAONLY" /\ FrontItems(kind, how) = <<ObjectItem>>
           \/ how # "DATAONLY" /\ FrontItems(kind, how) = <<ObjectItem, NameItem(kind), DataItem>>
           \/ /\ how # "DATAONLY"
              /\ FrontItems(kind, how) = <<ObjectItem, NameItem(kind), DescrItem(kind), DataItem>>
  <1> DEFINE a == IF how # "DATAONLY" THEN <<NameItem(kind)>> ELSE <<>>
             b == IF how = "ANNOTATED" /\ SpecOf(kind).descr THEN <<DescrItem(kind)>> ELSE <<>>
             c == IF how # "DATAONLY" THEN <<DataItem>> ELSE <<>>
  <1>1. FrontItems(kind, how) = ((<<ObjectItem>> \o a) \o b) \o c
    BY DEF FrontItems
  <1>2. CASE how = "DATAONLY"
    <2>1. a = <<>> /\ b = <<>> /\ c = <<>>
      BY <1>2
    <2> HIDE DEF a, b, c
    <2>2. FrontItems(kind, how) = <<ObjectItem>>
      BY <1>1, <2>1, ShortTuples
    <2> QED BY <1>2, <2>2
  <1>3. CASE how # "DATAONLY"
    <2>1. /\ a = <<NameItem(kind)>> /\ c = <<DataItem>>
          /\ b = <<>> \/ b = <<DescrItem(kind)>>
      BY <1>3
    <2> HIDE DEF a, b, c
    <2>2. CASE b = <<>>
      <3>1. FrontItems(kind, how) = <<ObjectItem, NameItem(kind), DataItem>>
        BY <1>1, <2>1, <2>2, ShortTuples
      <3> QED BY <1>3, <3>1
    <2>3. CASE b = <<DescrItem(kind)>>
      <3>1. FrontItems(kind, how) = <<ObjectItem, NameItem(kind), DescrItem(kind), DataItem>>
        <4>1. FrontItems(kind, how) = ((<<ObjectItem>> \o <<NameItem(kind)>>) \o <<DescrItem(kind)>>)
                                     \o <<DataItem>>
          BY <1>1, <2>1, <2>3
        <4> QED BY <4>1, FourTuple
      <3> QED BY <1>3, <3>1
    <2> QED BY <2>1, <2>2, <2>3
  <1> QED BY <1>2, <1>3

\* No value is shown in the front of an object.
LEMMA FrontOf ==
    ASSUME NEW kind, NEW data, NEW how
    PROVE  /\ FrontItems(kind, how) \in Seq(ItemSet(kind, data))
           /\ Of(FrontItems(kind, how), {"value"}) = <<>>
           /\ how = "DATAONLY" => /\ Of(FrontItems(kind, how), {"name"}) = <<>>
                                  /\ Of(FrontItems(kind, how), {"name", "descr", "value"}) = <<>>
           /\ how # "DATAONLY" => /\ Of(FrontItems(kind, how), {"name"}) = <<NameItem(kind)>>
                                  /\ Of(FrontItems(kind, how), {"data"}) = <<DataItem>>
  <1> DEFINE f == FrontItems(kind, how)
             X == ItemSet(kind, data)
             o == ObjectItem
             n == NameItem(kind)
             e == DescrItem(kind)
             d == DataItem
  <1>1. /\ o \in X /\ n \in X /\ e \in X /\ d \in X
        /\ o.what = "object" /\ n.what = "name" /\ e.what = "descr" /\ d.what = "data"
    BY ItemsAre
  <1>2. \/ how = "DATAONLY" /\ f = <<o>>
        \/ how # "DATAONLY" /\ f = <<o, n, d>>
        \/ how # "DATAONLY" /\ f = <<o, n, e, d>>
    BY FrontIs
  <1> HIDE DEF f, X, o, n, e, d
  <1>3. CASE how = "DATAONLY" /\ f = <<o>>
    <2>1. f \in Seq(X) /\ \A i \in 1 .. Len(f) : f[i].what = "object"
      BY <1>1, <1>3
    <2>2. \A i \in 1 .. Len(f) : /\ f[i].what \notin {"value"} /\ f[i].what \notin {"name"}
                                 /\ f[i].what \notin {"name", "descr", "value"}
      BY <2>1
    <2>3. /\ Of(f, {"value"}) = <<>> /\ Of(f, {"name"}) = <<>>
          /\ Of(f, {"name", "descr", "value"}) = <<>>
      BY <2>1, <2>2, OfNone
    <2> QED BY <1>3, <2>1, <2>3 DEF f, X, n, d
  <1>4. ASSUME how # "DATAONLY", f \in Seq(X), NEW k \in 1 .. Len(f), NEW j \in 1 .. Len(f),
               f[k] = n, f[j] = d,
               \A i \in 1 .. Len(f) : i = k \/ i = j \/ f[i] = o \/ f[i] = e
        PROVE  /\ Of(f, {"value"}) = <<>>
               /\ Of(f, {"name"}) = <<n>> /\ Of(f, {"data"}) = <<d>>
    <2>1. \A i \in 1 .. Len(f) : f[i].what \notin {"value"}
      BY <1>1, <1>4
    <2>2. \A i \in 1 .. Len(f) : i # k => f[i].what \notin {"name"}
      BY <1>1, <1>4
    <2>3. \A i \in 1 .. Len(f) : i # j => f[i].what \notin {"data"}
      BY <1>1, <1>4
    <2>4. Of(f, {"value"}) = <<>>
      BY <1>4, <2>1, OfNone
    <2>5. Of(f, {"name"}) = <<f[k]>>
      <3>1. f[k].what \in {"name"}
        BY <1>1, <1>4
      <3> QED BY <1>4, <2>2, <3>1, OfSingle
    <2>6. Of(f, {"data"}) = <<f[j]>>
      <3>1. f[j].what \in {"data"}
        BY <1>1, <1>4
      <3> QED BY <1>4, <2>3, <3>1, OfSingle
    <2> QED BY <1>4, <2>4, <2>5, <2>6
  <1>5. CASE how # "DATAONLY" /\ f = <<o, n, d>>
    <2>1. f \in Seq(X)
      BY <1>1, <1>5
    <2>2. 2 \in 1 .. Len(f) /\ 3 \in 1 .. Len(f) /\ f[2] = n /\ f[3] = d
          /\ \A i \in 1 .. Len(f) : i = 2 \/ i = 3 \/ f[i] = o \/ f[i] = e
      BY <1>5
    <2>3. Of(f, {"value"}) = <<>> /\ Of(f, {"name"}) = <<n>> /\ Of(f, {"data"}) = <<d>>
      BY <1>4, <1>5, <2>1, <2>2
    <2> QED BY <1>5, <2>1, <2>3 DEF f, X, n, d
  <1>6. CASE how # "DATAONLY" /\ f = <<o, n, e, d>>
    <2>1. f \in Seq(X)
      BY <1>1, <1>6
    <2>2. 2 \in 1 .. Len(f) /\ 4 \in 1 .. Len(f) /\ f[2] = n /\ f[4] = d
          /\ \A i \in 1 .. Len(f) : i = 2 \/ i = 4 \/ f[i] = o \/ f[i] = e
      BY <1>6
    <2>3. Of(f, {"value"}) = <<>> /\ Of(f, {"name"}) = <<n>> /\ Of(f, {"data"}) = <<d>>
      BY <1>4, <1>6, <2>1, <2>2
    <2> QED BY <1>6, <2>1, <2>3 DEF f, X, n, d
  <1> QED BY <1>2, <1>3, <1>5, <1>6

\* An export hangs the values of all members on the object, in order; the styles
\* that are not bare have a name and a data object, the bare one has no name.
LEMMA ItemsOf ==
    ASSUME NEW kind \in Kinds, NEW data, NEW how
    PROVE  LET items == Items(SpecOf(kind), data, how)
           IN  /\ items \in Seq(ItemSet(kind, data))
               /\ Of(items, {"value"}) = ValueItems(kind, data)
               /\ how = "DATAONLY" =>
                      /\ Of(items, {"name"}) = <<>>
                      /\ Of(items, {"name", "descr", "value"}) = ValueItems(kind, data)
               /\ how # "DATAONLY" => Of(items, {"name"}) # <<>> /\ Of(items, {"data"}) # <<>>
  <1> DEFINE items == Items(SpecOf(kind), data, how)
             f == FrontItems(kind, how)
             m == MemberItems(SpecOf(kind).data_to_json, data, how)
             X == ItemSet(kind, data)
             V == ValueItems(kind, data)
  <1>1. items = f \o m
    BY DEF Items, FrontItems, ObjectItem, NameItem, DescrItem, DataItem
  <1>2. f \in Seq(X) /\ m \in Seq(X)
    BY FrontOf, MembersAre
  <1>3. /\ Of(m, {"value"}) = V /\ Of(m, {"name", "descr", "value"}) = V
        /\ Of(m, {"name"}) = <<>> /\ Of(m, {"data"}) = <<>>
    <2>1. /\ {"value"} \cap {"value", "member", "type"} = {"value"}
          /\ {"name", "descr", "value"} \cap {"value", "member", "type"} = {"value"}
          /\ {"name"} \cap {"value", "member", "type"} = {}
          /\ {"data"} \cap {"value", "member", "type"} = {}
      OBVIOUS
    <2>2. /\ \A whats : whats \cap {"value", "member", "type"} = {} => Of(m, whats) = <<>>
          /\ \A whats : whats \cap {"value", "member", "type"} = {"value"} => Of(m, whats) = V
      BY MembersAre, ZenonT(40)
    <2> HIDE DEF m, V
    <2> QED BY <2>1, <2>2
  <1>4. V \in Seq(X)
    BY <1>2, <1>3, OfType
  <1>5. /\ Of(f, {"value"}) = <<>>
        /\ how = "DATAONLY" => Of(f, {"name"}) = <<>> /\ Of(f, {"name", "descr", "value"}) = <<>>
        /\ how # "DATAONLY" => Of(f, {"name"}) = <<NameItem(kind)>> /\ Of(f, {"data"}) = <<DataItem>>
    BY FrontOf
  <1> HIDE DEF items, f, m, X, V
  <1>6. \A whats : Of(items, whats) = Of(f, whats) \o Of(m, whats)
    BY <1>1, <1>2, OfConcat
  <1>7. items \in Seq(X)
    BY <1>1, <1>2, ConcatProperties
  <1>8. <<>> \o V = V /\ <<>> \o <<>> = <<>>
    BY <1>4, ConcatEmptySeq
  <1>9. Of(items, {"value"}) = V
    BY <1>3, <1>5, <1>6, <1>8
  <1>10. ASSUME how = "DATAONLY"
         PROVE  Of(items, {"name"}) = <<>> /\ Of(items, {"name", "descr", "value"}) = V
    BY <1>3, <1>5, <1>6, <1>8, <1>10
  <1>11. ASSUME how # "DATAONLY"
         PROVE  Of(items, {"name"}) # <<>> /\ Of(items, {"data"}) # <<>>
    <2>1. /\ Of(items, {"name"}) = <<NameItem(kind)>> \o <<>>
          /\ Of(items, {"data"}) = <<DataItem>> \o <<>>
      BY <1>3, <1>5, <1>6, <1>11
    <2> QED BY <2>1, ShortTuples
  <1> QED BY <1>7, <1>9, <1>10, <1>11 DEF items, X, V

-----------------------------------------------------------------------------

\* The tokens of a print: of each member its name and its value, ...
FieldToken(kind, i) == Token("data", "field", NameOf(kind, i))
ValueToken(kind, data, i) == Token("data", "value", ShownAs(kind, data, i))
FieldTokens(kind) == [i \in 1 .. Size(kind) |-> FieldToken(kind, i)]
ValueTokens(kind, data) == [i \in 1 .. Size(kind) |-> ValueToken(kind, data, i)]

\* ... and the others, which show neither.
OtherTokens == {Layout("head"), Layout("data"), Token("head", "name", ""),
                Token("head", "descr", ""), Token("data", "repr", "")}
RawTokens == {Token("raw", "stringify", ""), Token("raw", "marks", ""), Token("raw", "json", "")}

\* Everything a print of a struct may push.
TokenSet(kind, data) ==
    {FieldToken(kind, i) : i \in 1 .. Size(kind)}
    \cup {ValueToken(kind, data, i) : i \in 1 .. Size(kind)} \cup OtherTokens \cup RawTokens

\* What the tokens of a kind are.
LEMMA TokensAre ==
    ASSUME NEW kind, NEW data
    PROVE  /\ \A i \in 1 .. Size(kind) : /\ FieldToken(kind, i) \in TokenSet(kind, data)
                                         /\ ValueToken(kind, data, i) \in TokenSet(kind, data)
           /\ OtherTokens \subseteq TokenSet(kind, data) /\ RawTokens \subseteq TokenSet(kind, data)
           /\ \A i : /\ FieldToken(kind, i).what = "field"
                     /\ ValueToken(kind, data, i).what = "value"
           /\ \A t \in OtherTokens : t.what \notin {"field", "value", "json", "stringify", "marks"}
           /\ \A t \in RawTokens : t.what \notin {"field", "value"} /\ t.in = "raw"
  <1>1. /\ \A i : /\ FieldToken(kind, i).what = "field"
                  /\ ValueToken(kind, data, i).what = "value"
        /\ \A t \in OtherTokens : t.what \notin {"field", "value", "json", "stringify", "marks"}
        /\ \A t \in RawTokens : t.what \notin {"field", "value"} /\ t.in = "raw"
    BY DEF Token, Layout, FieldToken, ValueToken, OtherTokens, RawTokens
  <1> QED BY <1>1 DEF TokenSet

\* The members' values, printed.
LEMMA PrintedOf ==
    ASSUME NEW kind \in Kinds, NEW data
    PROVE  LET printed == Printed(ValueItems(kind, data))
           IN  /\ printed \in Seq(TokenSet(kind, data))
               /\ Of(printed, {"field"}) = FieldTokens(kind)
               /\ Of(printed, {"value"}) = ValueTokens(kind, data)
  <1> DEFINE n == Size(kind)
             X == TokenSet(kind, data)
             V == ValueItems(kind, data)
             f(i) == FieldToken(kind, i)
             v(i) == ValueToken(kind, data, i)
             l == Layout("data")
             r == Token("data", "repr", "")
             block(i) == <<f(i), l, r, v(i), l>>
             b == [i \in 1 .. n |-> block(i)]
             fs == FieldTokens(kind)
             vs == ValueTokens(kind, data)
             printed == Printed(V)
  <1>0. n \in Nat
    BY StructsAreGood
  <1>1. printed = FlattenSeq(b)
    <2>1. DOMAIN V = 1 .. n /\ \A i \in 1 .. n : V[i].key = NameOf(kind, i)
                                                 /\ V[i].value = ShownAs(kind, data, i)
      BY DEF ValueItems, ValueItem, Item
    <2> HIDE DEF V, n
    <2>2. ASSUME NEW i \in 1 .. n PROVE MemberTokens(V[i]) = block(i)
      <3>1. MemberTokens(V[i]) = <<Token("data", "field", V[i].key), l, r,
                                   Token("data", "value", V[i].value), l>>
        BY DEF MemberTokens
      <3>2. Token("data", "field", V[i].key) = f(i) /\ Token("data", "value", V[i].value) = v(i)
        BY <2>1 DEF FieldToken, ValueToken
      <3> HIDE DEF l, r, f, v
      <3> QED BY <3>1, <3>2
    <2>3. [i \in DOMAIN V |-> MemberTokens(V[i])] = b
      BY <2>1, <2>2
    <2> QED BY <2>3 DEF Printed
  <1>2. /\ l \in X /\ r \in X /\ \A i \in 1 .. n : f(i) \in X /\ v(i) \in X
        /\ l.what \notin {"field", "value"} /\ r.what \notin {"field", "value"}
        /\ \A i : f(i).what = "field" /\ v(i).what = "value"
    <2>1. l \in OtherTokens /\ r \in OtherTokens
      BY DEF OtherTokens
    <2> QED BY <2>1, TokensAre
  <1>3. /\ fs = [i \in 1 .. n |-> f(i)] /\ vs = [i \in 1 .. n |-> v(i)]
    BY DEF FieldTokens, ValueTokens
  <1> HIDE DEF f, v, l, r, X, n, printed, fs, vs
  <1>4. /\ b \in [1 .. n -> Seq(X)]
        /\ \A i \in 1 .. n : b[i] = block(i)
    BY <1>2
  <1>5. ASSUME NEW i \in 1 .. n
        PROVE  Of(b[i], {"field"}) = <<f(i)>> /\ Of(b[i], {"value"}) = <<v(i)>>
    <2> DEFINE s == b[i]
    <2>1. /\ s \in Seq(X) /\ Len(s) = 5 /\ s[1] = f(i) /\ s[2] = l /\ s[3] = r /\ s[4] = v(i)
          /\ s[5] = l
      BY <1>4
    <2> HIDE DEF s
    <2>2. \A k \in 1 .. Len(s) : k = 1 \/ k = 2 \/ k = 3 \/ k = 4 \/ k = 5
      BY <2>1
    <2>3. 1 \in 1 .. Len(s) /\ 4 \in 1 .. Len(s)
      BY <2>1
    <2>4. s[1].what \in {"field"} /\ \A k \in 1 .. Len(s) : k # 1 => s[k].what \notin {"field"}
      BY <1>2, <2>1, <2>2
    <2>5. s[4].what \in {"value"} /\ \A k \in 1 .. Len(s) : k # 4 => s[k].what \notin {"value"}
      BY <1>2, <2>1, <2>2
    <2>6. Of(s, {"field"}) = <<s[1]>>
      BY <2>1, <2>3, <2>4, OfSingle
    <2>7. Of(s, {"value"}) = <<s[4]>>
      BY <2>1, <2>3, <2>5, OfSingle
    <2> QED BY <2>1, <2>6, <2>7 DEF s
  <1>6. /\ fs \in [1 .. n -> X] /\ vs \in [1 .. n -> X]
        /\ \A i \in 1 .. n : fs[i] = f(i) /\ vs[i] = v(i)
    BY <1>2, <1>3
  <1> HIDE DEF b
  <1>7. Of(printed, {"field"}) = fs
    <2>1. [i \in 1 .. n |-> Of(b[i], {"field"})] = [i \in 1 .. n |-> <<fs[i]>>]
      BY <1>5, <1>6
    <2>2. FlattenSeq([i \in 1 .. n |-> <<fs[i]>>]) = fs
      BY <1>0, <1>6, Singles
    <2>3. Of(FlattenSeq(b), {"field"}) = FlattenSeq([i \in 1 .. n |-> Of(b[i], {"field"})])
      BY <1>0, <1>4, OfGlued
    <2> QED BY <1>1, <2>1, <2>2, <2>3
  <1>8. Of(printed, {"value"}) = vs
    <2>1. [i \in 1 .. n |-> Of(b[i], {"value"})] = [i \in 1 .. n |-> <<vs[i]>>]
      BY <1>5, <1>6
    <2>2. FlattenSeq([i \in 1 .. n |-> <<vs[i]>>]) = vs
      BY <1>0, <1>6, Singles
    <2>3. Of(FlattenSeq(b), {"value"}) = FlattenSeq([i \in 1 .. n |-> Of(b[i], {"value"})])
      BY <1>0, <1>4, OfGlued
    <2> QED BY <1>1, <2>1, <2>2, <2>3
  <1>9. printed \in Seq(X)
    BY <1>0, <1>1, <1>4, GluedType
  <1> QED BY <1>7, <1>8, <1>9 DEF printed, fs, vs, X

\* What holds of the entries of two sequences holds of those of both together.
LEMMA EachOfBoth ==
    ASSUME NEW X, NEW Y, NEW s \in Seq(X), NEW t \in Seq(X),
           \A i \in 1 .. Len(s) : s[i] \in Y, \A i \in 1 .. Len(t) : t[i] \in Y
    PROVE  s \o t \in Seq(X) /\ \A i \in 1 .. Len(s \o t) : (s \o t)[i] \in Y
  <1>1. /\ Len(s) \in Nat /\ Len(t) \in Nat /\ Len(s \o t) = Len(s) + Len(t)
        /\ s \o t \in Seq(X)
    BY LenProperties, ConcatProperties
  <1>2. ASSUME NEW i \in 1 .. Len(s \o t) PROVE (s \o t)[i] \in Y
    <2>1. i \in 1 .. Len(s) + Len(t)
      BY <1>1
    <2>2. (s \o t)[i] = IF i <= Len(s) THEN s[i] ELSE t[i - Len(s)]
      BY <2>1, ConcatProperties
    <2>3. i <= Len(s) => i \in 1 .. Len(s)
      BY <1>1, <2>1
    <2>4. ~(i <= Len(s)) => i - Len(s) \in 1 .. Len(t)
      BY <1>1, <2>1
    <2> QED BY <2>2, <2>3, <2>4
  <1> QED BY <1>1, <1>2

\* A print of what was exported pushes a field and a value for every member, in order.
LEMMA TokensOf ==
    ASSUME NEW kind \in Kinds, NEW data, NEW how, json = Items(SpecOf(kind), data, how)
    PROVE  /\ Tokens \in Seq(TokenSet(kind, data))
           /\ Of(Tokens, {"field"}) = FieldTokens(kind)
           /\ Of(Tokens, {"value"}) = ValueTokens(kind, data)
  <1> DEFINE X == TokenSet(kind, data)
             V == ValueItems(kind, data)
             p == Printed(V)
             o == Layout("head")
             n == Token("head", "name", "")
             e == Token("head", "descr", "")
             es == [i \in DOMAIN Of(json, {"descr"}) |-> e]
  <1>1. /\ p \in Seq(X) /\ Of(p, {"field"}) = FieldTokens(kind)
        /\ Of(p, {"value"}) = ValueTokens(kind, data)
    BY PrintedOf
  <1>2. /\ json \in Seq(ItemSet(kind, data)) /\ Of(json, {"value"}) = V
        /\ how = "DATAONLY" => Of(json, {"name"}) = <<>> /\ Of(json, {"name", "descr", "value"}) = V
        /\ how # "DATAONLY" => Of(json, {"name"}) # <<>> /\ Of(json, {"data"}) # <<>>
    BY ItemsOf
  <1>3. /\ o \in X /\ n \in X /\ e \in X
        /\ \A t \in {o, n, e} : t.what \notin {"field", "value"}
    <2>1. o \in OtherTokens /\ n \in OtherTokens /\ e \in OtherTokens
      BY DEF OtherTokens
    <2> QED BY <2>1, TokensAre
  <1>4. es \in Seq(X) /\ \A i \in 1 .. Len(es) : es[i] = e
    <2>1. Of(json, {"descr"}) \in Seq(ItemSet(kind, data))
      BY <1>2, OfType
    <2>2. PICK k \in Nat : DOMAIN Of(json, {"descr"}) = 1 .. k
      BY <2>1, LenProperties
    <2>3. es = [i \in 1 .. k |-> e]
      BY <2>2
    <2> HIDE DEF e, X, es
    <2>4. es \in Seq(X) /\ Len(es) = k
      BY <1>3, <2>3, ConstSeq
    <2> QED BY <2>3, <2>4
  <1> DEFINE Rest(front) == /\ front \in Seq(X) /\ Tokens = front \o p
                            /\ \A i \in 1 .. Len(front) : front[i] \in {o, n, e}
  <1>5. ASSUME how = "DATAONLY" PROVE \E front : Rest(front)
    <2>1. Tokens = <<o>> \o p
      BY <1>2, <1>5 DEF Tokens
    <2> HIDE DEF o, n, e, p, X
    <2>2. Rest(<<o>>)
      BY <1>3, <2>1
    <2> QED BY <2>2
  <1>6. ASSUME how # "DATAONLY" PROVE \E front : Rest(front)
    <2>1. Tokens = ((<<o, n>> \o es) \o <<o>>) \o p
      BY <1>2, <1>6 DEF Tokens
    <2> DEFINE f == (<<o, n>> \o es) \o <<o>>
    <2> HIDE DEF o, n, e, p, X, es
    <2>2. f \in Seq(X) /\ \A i \in 1 .. Len(f) : f[i] \in {o, n, e}
      <3> DEFINE h == <<o, n>>
                 g == h \o es
                 t == <<o>>
      <3>1. h \in Seq(X) /\ \A i \in 1 .. Len(h) : h[i] \in {o, n, e}
        BY <1>3
      <3>2. t \in Seq(X) /\ \A i \in 1 .. Len(t) : t[i] \in {o, n, e}
        BY <1>3
      <3> HIDE DEF h, t
      <3>3. g \in Seq(X) /\ \A i \in 1 .. Len(g) : g[i] \in {o, n, e}
        BY <1>4, <3>1, EachOfBoth
      <3> HIDE DEF g
      <3>4. g \o t \in Seq(X) /\ \A i \in 1 .. Len(g \o t) : (g \o t)[i] \in {o, n, e}
        BY <3>2, <3>3, EachOfBoth
      <3> QED BY <3>4 DEF g, h, t
    <2> QED BY <2>1, <2>2
  <1>7. PICK front : Rest(front)
    BY <1>5, <1>6
  <1> HIDE DEF o, n, e, p, X
  <1>8. Of(front, {"field"}) = <<>> /\ Of(front, {"value"}) = <<>>
    <2>1. \A i \in 1 .. Len(front) : /\ front[i].what \notin {"field"}
                                     /\ front[i].what \notin {"value"}
      BY <1>3, <1>7
    <2> QED BY <1>7, <2>1, OfNone
  <1>9. \A whats : Of(Tokens, whats) = Of(front, whats) \o Of(p, whats)
    BY <1>1, <1>7, OfConcat, SMTT(30)
  <1>10. \A whats : Of(p, whats) \in Seq(X) /\ <<>> \o Of(p, whats) = Of(p, whats)
    BY <1>1, OfType, ConcatEmptySeq
  <1>11. Of(Tokens, {"field"}) = Of(p, {"field"}) /\ Of(Tokens, {"value"}) = Of(p, {"value"})
    BY <1>8, <1>9, <1>10
  <1>12. Tokens \in Seq(X)
    BY <1>1, <1>7, ConcatProperties
  <1> QED BY <1>1, <1>11, <1>12 DEF X

-----------------------------------------------------------------------------
(* The export and the print: how far each has come, and what the text      *)
(* shows so far.                                                           *)

\* The next one of what is left of a sequence.
LEMMA NextOne ==
    ASSUME NEW X, NEW s \in Seq(X), NEW n \in 0 .. Len(s), SubSeq(s, n + 1, Len(s)) # <<>>
    PROVE  LET left == SubSeq(s, n + 1, Len(s))
               done == SubSeq(s, 1, n)
           IN  /\ n + 1 \in 0 .. Len(s) /\ Head(left) = s[n + 1] /\ s[n + 1] \in X
               /\ Tail(left) = SubSeq(s, (n + 1) + 1, Len(s))
               /\ done \in Seq(X)
               /\ SubSeq(s, 1, n + 1) = done \o <<s[n + 1]>>
               /\ SubSeq(s, 1, n + 1) = Append(done, s[n + 1])
  <1> DEFINE left == SubSeq(s, n + 1, Len(s))
             done == SubSeq(s, 1, n)
  <1>1. Len(s) \in Nat /\ n \in Nat /\ n <= Len(s) /\ \A i \in 1 .. Len(s) : s[i] \in X
    BY LenProperties, ElementOfSeq
  <1>2. n < Len(s)
    <2>1. n = Len(s) => left = <<>>
      BY <1>1, SubSeqEmpty
    <2> QED BY <1>1, <2>1
  <1>3. n + 1 \in 1 .. Len(s) /\ n + 1 \in 0 .. Len(s) /\ s[n + 1] \in X
    BY <1>1, <1>2
  <1>4. left \in Seq(X) /\ done \in Seq(X) /\ Len(done) = n
        /\ Len(left) = Len(s) - n /\ \A i \in 1 .. Len(s) - n : left[i] = s[n + i]
    BY <1>1, <1>2
  <1>5. SubSeq(s, 1, n + 1) = Append(done, s[n + 1])
    <2>1. 1 \in 1 .. Len(s)
      BY <1>1, <1>2
    <2>2. SubSeq(s, 1, n + 1) = SubSeq(s, 1, (n + 1) - 1) \o <<s[n + 1]>>
      BY <1>3, <2>1, SubSeqRecursiveSecond
    <2>3. (n + 1) - 1 = n
      BY <1>1
    <2>4. Append(done, s[n + 1]) = done \o <<s[n + 1]>>
      BY <1>3, <1>4, AppendIsConcat
    <2> QED BY <2>2, <2>3, <2>4
  <1>6. Append(done, s[n + 1]) = done \o <<s[n + 1]>>
    BY <1>3, <1>4, AppendIsConcat
  <1>7. Head(left) = s[n + 1]
    <2>1. left[1] = s[n + 1] /\ Len(left) # 0
      BY <1>1, <1>2, <1>4
    <2> QED BY <1>4, <2>1
  <1>8. Tail(left) = SubSeq(s, (n + 1) + 1, Len(s))
    <2>1. left = <<s[n + 1]>> \o SubSeq(s, (n + 1) + 1, Len(s))
      <3>1. Len(s) \in 1 .. Len(s)
        BY <1>1, <1>2
      <3> QED BY <1>2, <1>3, <3>1, SubSeqRecursiveFirst
    <2>2. SubSeq(s, (n + 1) + 1, Len(s)) \in Seq(X)
      BY <1>1, <1>2
    <2> QED BY <1>3, <2>1, <2>2
  <1> QED BY <1>3, <1>4, <1>5, <1>6, <1>7, <1>8

\* Nothing is left of a sequence.
LEMMA NothingLeft ==
    ASSUME NEW X, NEW s \in Seq(X), NEW n \in 0 .. Len(s), SubSeq(s, n + 1, Len(s)) = <<>>
    PROVE  SubSeq(s, 1, n) = s
  <1>1. Len(s) \in Nat /\ n \in Nat /\ n <= Len(s) /\ \A i \in 1 .. Len(s) : s[i] \in X
    BY LenProperties, ElementOfSeq
  <1>2. n = Len(s)
    <2> SUFFICES ASSUME n < Len(s) PROVE FALSE
      BY <1>1
    <2>1. Len(SubSeq(s, n + 1, Len(s))) = Len(s) - n
      BY <1>1
    <2>2. Len(SubSeq(s, n + 1, Len(s))) = Len(<<>>)
      BY Zenon
    <2>3. Len(<<>>) = 0
      OBVIOUS
    <2>4. Len(s) - n = 0
      BY <2>1, <2>2, <2>3, Zenon
    <2> QED BY <1>1, <2>4
  <1>3. SubSeq(s, 1, Len(s)) = s
    BY <1>1, SubSeqFull
  <1>4. n = Len(s) => SubSeq(s, 1, n) = SubSeq(s, 1, Len(s))
    OBVIOUS
  <1> QED BY <1>2, <1>3, <1>4, Zenon

\* The kind of a parsed packet was found in one of three ways.
RouteKnown == parsed # Nobody => route \in {"recognized", "named", "served"}

\* What an export has to hang on the object.
AllItems == Items(SpecOf(parsed.kind), parsed.data, style)

\* An export has hung the first items and is left with the others.
Exporting ==
    stage = "export" /\ ~strayed =>
        \E n \in 0 .. Len(AllItems) : /\ json = SubSeq(AllItems, 1, n)
                                      /\ todo = SubSeq(AllItems, n + 1, Len(AllItems))

\* An export that is over has hung all of them, ...
Exported ==
    stage \in {"exported", "print", "printed"} /\ ~strayed => json = AllItems

\* ... and no text is begun before that.
NoText == stage \notin {"print", "printed"} => text = <<>>

\* What is left of a print that fell back to raw JSON.
Stringify == Token("raw", "stringify", "")
Marks     == Token("raw", "marks", "")
RawJson   == Token("raw", "json", "")
RawRests  == {<<Stringify, Marks, RawJson>>, <<Marks, RawJson>>, <<RawJson>>}

\* Two texts show the same members with the same values.
SameAs(s, t) ==
    Of(s, {"field"}) = Of(t, {"field"}) /\ Of(s, {"value"}) = Of(t, {"value"})

\* A print has shown what the first tokens show and is left with the others, or
\* it has fallen back.
Printing ==
    stage = "print" /\ ~strayed =>
        /\ text \in Seq(TokenSet(parsed.kind, parsed.data))
        /\ \/ todo \in RawRests
           \/ todo = <<>> /\ ~Whole
           \/ \E n \in 0 .. Len(Tokens) : /\ SameAs(text, SubSeq(Tokens, 1, n))
                                          /\ todo = SubSeq(Tokens, n + 1, Len(Tokens))

\* A finished print that did not fall back showed every token.
PrintedAll ==
    stage = "printed" /\ ~strayed /\ text # <<>> /\ Whole => SameAs(text, Tokens)

\* The inductive invariant of an export and a print.
PrintInv == RouteKnown /\ Exporting /\ Exported /\ NoText /\ Printing /\ PrintedAll

\* The stages from the export on.
Later == {"export", "exported", "print", "printed"}

\* From the parse on there is a struct of a known kind.
LEMMA KindIsKnown ==
    ASSUME CodecInv, stage \in Later \cup {"parsed"}
    PROVE  parsed # Nobody /\ parsed.kind \in Kinds /\ InType(parsed.kind, parsed.data)
  BY DEF CodecInv, ParsedInTime, ParsedInType, InType, Later

\* A step away from exports and prints.
LEMMA EarlyStep ==
    ASSUME stage' \notin Later, text' = <<>>, RouteKnown'
    PROVE  PrintInv'
  BY DEF PrintInv, Later, Exporting, Exported, NoText, Printing, PrintedAll

\* A build prints nothing.
LEMMA BuiltEarly ==
    ASSUME CodecInv, PrintInv, NEW kind, NEW data, NEW error, NEW peer,
           Built(kind, data, error, peer)
    PROVE  PrintInv'
  <1>1. /\ stage = "idle" /\ stage' \in {"sent", "failed"} /\ text' = text /\ parsed' = parsed
    BY DEF Built, Return
  <1>2. parsed = Nobody /\ text = <<>>
    BY <1>1 DEF CodecInv, ParsedInTime, PrintInv, NoText
  <1>3. RouteKnown'
    BY <1>1, <1>2 DEF RouteKnown, Nobody
  <1> QED BY <1>1, <1>2, <1>3, EarlyStep DEF Later

\* A parse prints nothing.
LEMMA ParsedEarly ==
    ASSUME PrintInv, NEW kind, NEW error, NEW how, NEW blocks, Parsed(kind, error, how, blocks),
           how \in {"recognized", "named", "served"}
    PROVE  PrintInv'
  <1>1. stage = "sent" /\ stage' \in {"parsed", "failed"} /\ text' = text /\ route' = how
    BY DEF Parsed, Return
  <1>2. text' = <<>>
    BY <1>1 DEF PrintInv, NoText
  <1>3. RouteKnown'
    BY <1>1 DEF RouteKnown
  <1> QED BY <1>1, <1>2, <1>3, EarlyStep DEF Later

\* What the items of an export stand for.
LEMMA AllItemsAre ==
    ASSUME CodecInv, stage \in Later \cup {"parsed"}, NEW how
    PROVE  Items(SpecOf(parsed.kind), parsed.data, how)
               \in Seq(ItemSet(parsed.kind, parsed.data))
  <1>1. parsed.kind \in Kinds
    BY KindIsKnown
  <1> QED BY <1>1, ItemsOf

\* An export starts with all its items to hang.
LEMMA ToJsonPrint ==
    ASSUME CodecInv, MemInv, PrintInv, NEW how, ToJson(how)
    PROVE  PrintInv'
  <1> DEFINE items == Items(SpecOf(parsed.kind), parsed.data, how)
  <1>1. /\ stage = "parsed" /\ stage' = "export" /\ todo' = items /\ style' = how
        /\ json' = json /\ text' = text /\ parsed' = parsed /\ route' = route
        /\ AllItems' = items
    BY DEF ToJson, codec, AllItems
  <1>2. json = <<>> /\ text = <<>>
    BY <1>1 DEF MemInv, NoItems, PrintInv, NoText
  <1>3. items \in Seq(ItemSet(parsed.kind, parsed.data))
    BY <1>1, AllItemsAre
  <1> HIDE DEF items
  <1>4. /\ SubSeq(items, 1, 0) = <<>> /\ SubSeq(items, 0 + 1, Len(items)) = items
        /\ 0 \in 0 .. Len(items)
    <2>1. SubSeq(items, 1, Len(items)) = items /\ Len(items) \in Nat
      BY <1>3, SubSeqFull, LenProperties
    <2>2. SubSeq(items, 1, 0) = <<>>
      BY SubSeqEmpty
    <2>3. 0 + 1 = 1
      OBVIOUS
    <2> QED BY <2>1, <2>2, <2>3
  <1>5. Exporting'
    BY <1>1, <1>2, <1>4 DEF Exporting
  <1>6. RouteKnown' /\ Exported' /\ NoText' /\ Printing' /\ PrintedAll'
    BY <1>1, <1>2 DEF PrintInv, RouteKnown, Exported, NoText, Printing, PrintedAll, Nobody
  <1> QED BY <1>5, <1>6 DEF PrintInv

\* An allocation that succeeds hangs the next item.
LEMMA AllocPrint ==
    ASSUME CodecInv, PrintInv, AllocItem
    PROVE  PrintInv'
  <1> DEFINE s == AllItems
             X == ItemSet(parsed.kind, parsed.data)
  <1>1. /\ stage = "export" /\ stage' = stage /\ todo # <<>> /\ todo' = Tail(todo)
        /\ json' = IF strayed THEN json ELSE Append(json, Head(todo))
        /\ strayed' = strayed /\ text' = text /\ parsed' = parsed /\ route' = route
        /\ AllItems' = s
    BY DEF AllocItem, codec, AllItems
  <1>2. s \in Seq(X)
    BY <1>1, AllItemsAre DEF AllItems, Later
  <1> HIDE DEF s, X
  <1>3. ASSUME ~strayed
        PROVE  \E n \in 0 .. Len(s) : json' = SubSeq(s, 1, n) /\ todo' = SubSeq(s, n + 1, Len(s))
    <2>1. PICK n \in 0 .. Len(s) : json = SubSeq(s, 1, n) /\ todo = SubSeq(s, n + 1, Len(s))
      BY <1>1, <1>3 DEF PrintInv, Exporting, s
    <2>2. /\ n + 1 \in 0 .. Len(s) /\ Head(todo) = s[n + 1]
          /\ Tail(todo) = SubSeq(s, (n + 1) + 1, Len(s))
          /\ SubSeq(s, 1, n + 1) = Append(json, s[n + 1])
      BY <1>1, <1>2, <2>1, NextOne
    <2>3. json' = SubSeq(s, 1, n + 1) /\ todo' = SubSeq(s, (n + 1) + 1, Len(s))
      BY <1>1, <1>3, <2>2
    <2> DEFINE m == n + 1
    <2>4. m \in 0 .. Len(s) /\ json' = SubSeq(s, 1, m) /\ todo' = SubSeq(s, m + 1, Len(s))
      BY <2>2, <2>3
    <2> HIDE DEF m
    <2> QED BY <2>4
  <1>4. Exporting'
    BY <1>1, <1>3 DEF Exporting, s
  <1>5. RouteKnown' /\ Exported' /\ NoText' /\ Printing' /\ PrintedAll'
    BY <1>1 DEF PrintInv, RouteKnown, Exported, NoText, Printing, PrintedAll, Nobody
  <1> QED BY <1>4, <1>5 DEF PrintInv

\* An export strays, fails, or ends.
LEMMA ExportPrint ==
    ASSUME CodecInv, PrintInv, DataStrays \/ AllocFails \/ ToJsonReturns
    PROVE  PrintInv'
  <1>1. /\ stage = "export" /\ text' = text /\ parsed' = parsed /\ route' = route
        /\ style' = style /\ stage' \in {"export", "exported", "failed"}
    BY DEF DataStrays, AllocFails, ToJsonReturns, Return, codec
  <1>2. RouteKnown' /\ NoText' /\ text' = <<>>
    BY <1>1 DEF PrintInv, RouteKnown, NoText, Nobody
  <1>3. CASE DataStrays
    <2>1. stage' = "export" /\ strayed'
      BY <1>1, <1>3 DEF DataStrays
    <2> QED BY <1>2, <2>1 DEF PrintInv, Exporting, Exported, Printing, PrintedAll
  <1>4. CASE AllocFails
    <2>1. stage' = "failed"
      BY <1>4 DEF AllocFails, Return
    <2> QED BY <1>2, <2>1, EarlyStep DEF Later
  <1>5. CASE ToJsonReturns
    <2> DEFINE s == AllItems
    <2>1. /\ stage' = "exported" /\ todo = <<>> /\ json' = json /\ strayed' = strayed
          /\ AllItems' = AllItems
      BY <1>1, <1>5 DEF ToJsonReturns, Return, AllItems
    <2>2. s \in Seq(ItemSet(parsed.kind, parsed.data))
      BY <1>1, AllItemsAre DEF AllItems, Later
    <2> HIDE DEF s
    <2>3. ASSUME ~strayed PROVE json = s
      <3>1. PICK n \in 0 .. Len(s) : json = SubSeq(s, 1, n) /\ todo = SubSeq(s, n + 1, Len(s))
        BY <1>1, <2>3 DEF PrintInv, Exporting, s
      <3>2. json = s
        BY <2>1, <2>2, <3>1, NothingLeft
      <3> QED BY <3>2
    <2>4. Exported'
      BY <2>1, <2>3 DEF Exported, s
    <2> QED BY <1>2, <2>1, <2>4 DEF PrintInv, Exporting, Printing, PrintedAll
  <1> QED BY <1>3, <1>4, <1>5

-----------------------------------------------------------------------------
\* What a print of an export of a known kind pushes.
LEMMA TokensKnown ==
    ASSUME CodecInv, PrintInv, stage \in {"exported", "print", "printed"}, ~strayed
    PROVE  /\ Tokens \in Seq(TokenSet(parsed.kind, parsed.data))
           /\ Of(Tokens, {"field"}) = FieldTokens(parsed.kind)
           /\ Of(Tokens, {"value"}) = ValueTokens(parsed.kind, parsed.data)
  <1>1. json = Items(SpecOf(parsed.kind), parsed.data, style)
    BY DEF PrintInv, Exported, AllItems
  <1>2. parsed.kind \in Kinds
    BY KindIsKnown DEF Later
  <1> QED BY <1>1, <1>2, TokensOf

\* What the steps of a print leave alone.
LEMMA PrintFrame ==
    ASSUME PrintInv, UNCHANGED <<codec, style, json, strayed>>,
           stage \in {"exported", "print"}, stage' \in {"print", "printed"}
    PROVE  /\ parsed' = parsed /\ Tokens' = Tokens /\ strayed' = strayed
           /\ TokenSet(parsed.kind, parsed.data)' = TokenSet(parsed.kind, parsed.data)
           /\ RouteKnown' /\ Exporting' /\ Exported' /\ NoText'
  <1>1. parsed' = parsed /\ route' = route /\ style' = style /\ json' = json /\ strayed' = strayed
    BY DEF codec
  <1>2. Tokens' = Tokens
    BY <1>1 DEF Tokens
  <1>3. AllItems' = AllItems
    BY <1>1 DEF AllItems
  <1>4. TokenSet(parsed.kind, parsed.data)' = TokenSet(parsed.kind, parsed.data)
    BY <1>1
  <1> QED BY <1>1, <1>2, <1>3, <1>4
          DEF PrintInv, RouteKnown, Exporting, Exported, NoText, Nobody

\* A print starts with all its tokens to push.
LEMMA PrettyPrintPrint ==
    ASSUME CodecInv, PrintInv, PrettyPrint
    PROVE  PrintInv'
  <1> DEFINE t == Tokens
  <1>1. /\ stage = "exported" /\ stage' = "print" /\ todo' = t /\ text' = text /\ text = <<>>
        /\ UNCHANGED <<codec, style, json, strayed>>
    BY DEF PrettyPrint, PrintInv, NoText
  <1>2. /\ parsed' = parsed /\ Tokens' = t /\ strayed' = strayed
        /\ TokenSet(parsed.kind, parsed.data)' = TokenSet(parsed.kind, parsed.data)
        /\ RouteKnown' /\ Exporting' /\ Exported' /\ NoText'
    BY <1>1, PrintFrame
  <1>3. ASSUME ~strayed
        PROVE  /\ text' \in Seq(TokenSet(parsed.kind, parsed.data))
               /\ \E n \in 0 .. Len(t) : /\ SameAs(text', SubSeq(t, 1, n))
                                         /\ todo' = SubSeq(t, n + 1, Len(t))
    <2>1. t \in Seq(TokenSet(parsed.kind, parsed.data))
      BY <1>1, <1>3, TokensKnown
    <2> HIDE DEF t
    <2>2. SubSeq(t, 1, 0) = <<>> /\ SubSeq(t, 0 + 1, Len(t)) = t /\ 0 \in 0 .. Len(t)
      <3>1. SubSeq(t, 1, Len(t)) = t /\ Len(t) \in Nat
        BY <2>1, SubSeqFull, LenProperties
      <3>2. SubSeq(t, 1, 0) = <<>>
        BY SubSeqEmpty
      <3>3. 0 + 1 = 1
        OBVIOUS
      <3> QED BY <3>1, <3>2, <3>3
    <2>3. SameAs(text', SubSeq(t, 1, 0))
      BY <1>1, <2>2 DEF SameAs
    <2> QED BY <1>1, <2>2, <2>3, EmptySeq
  <1>4. Printing'
    BY <1>1, <1>2, <1>3 DEF Printing
  <1>5. PrintedAll'
    BY <1>1 DEF PrintedAll
  <1> QED BY <1>2, <1>4, <1>5 DEF PrintInv

\* A text is made: nothing is shown yet.
LEMMA MakePrint ==
    ASSUME CodecInv, PrintInv, MakeRepr \/ MakeStringified
    PROVE  PrintInv'
  <1> DEFINE t == Tokens
             X == TokenSet(parsed.kind, parsed.data)
  <1>1. /\ stage = "print" /\ stage' = "print" /\ todo # <<>> /\ todo' = Tail(todo)
        /\ Head(todo).what \in {"repr", "stringify"} /\ text' = text
        /\ UNCHANGED <<codec, style, json, strayed>>
    BY DEF MakeRepr, MakeStringified, MakeText
  <1>2. /\ parsed' = parsed /\ Tokens' = t /\ strayed' = strayed
        /\ TokenSet(parsed.kind, parsed.data)' = X
        /\ RouteKnown' /\ Exporting' /\ Exported' /\ NoText'
    BY <1>1, PrintFrame
  <1>3. ASSUME ~strayed
        PROVE  /\ text' \in Seq(X)
               /\ \/ todo' \in RawRests
                  \/ \E n \in 0 .. Len(t) : /\ SameAs(text', SubSeq(t, 1, n))
                                            /\ todo' = SubSeq(t, n + 1, Len(t))
    <2>1. t \in Seq(X) /\ text \in Seq(X)
      BY <1>1, <1>3, TokensKnown DEF PrintInv, Printing
    <2>2. \/ todo \in RawRests
          \/ \E n \in 0 .. Len(t) : /\ SameAs(text, SubSeq(t, 1, n))
                                    /\ todo = SubSeq(t, n + 1, Len(t))
      BY <1>1, <1>3 DEF PrintInv, Printing
    <2>3. CASE todo \in RawRests
      <3>1. /\ Stringify.what = "stringify" /\ Marks.what = "marks" /\ RawJson.what = "json"
        BY DEF Stringify, Marks, RawJson, Token
      <3>2. todo = <<Stringify, Marks, RawJson>>
        BY <1>1, <2>3, <3>1 DEF RawRests
      <3>3. Tail(todo) = <<Marks, RawJson>>
        BY <3>2
      <3> QED BY <1>1, <2>1, <3>3 DEF RawRests
    <2>4. ASSUME NEW n \in 0 .. Len(t), SameAs(text, SubSeq(t, 1, n)),
                 todo = SubSeq(t, n + 1, Len(t))
          PROVE  \E m \in 0 .. Len(t) : /\ SameAs(text', SubSeq(t, 1, m))
                                        /\ todo' = SubSeq(t, m + 1, Len(t))
      <3> DEFINE done == SubSeq(t, 1, n)
      <3> HIDE DEF t, X
      <3>1. /\ n + 1 \in 0 .. Len(t) /\ Head(todo) = t[n + 1] /\ t[n + 1] \in X
            /\ Tail(todo) = SubSeq(t, (n + 1) + 1, Len(t))
            /\ done \in Seq(X) /\ SubSeq(t, 1, n + 1) = done \o <<t[n + 1]>>
        BY <1>1, <2>1, <2>4, NextOne
      <3> HIDE DEF done
      <3>2. One(t[n + 1], {"field"}) = <<>> /\ One(t[n + 1], {"value"}) = <<>>
        BY <1>1, <3>1 DEF One
      <3>3. \A w : Of(SubSeq(t, 1, n + 1), w) = Of(done, w) \o One(t[n + 1], w)
        BY <3>1, OfLast, ZenonT(40)
      <3>4. \A w : Of(done, w) \o <<>> = Of(done, w)
        BY <3>1, OfType, ConcatEmptySeq
      <3>5. SameAs(text', SubSeq(t, 1, n + 1))
        BY <1>1, <2>4, <3>2, <3>3, <3>4 DEF SameAs, done
      <3> DEFINE m == n + 1
      <3>6. /\ m \in 0 .. Len(t) /\ SameAs(text', SubSeq(t, 1, m))
            /\ todo' = SubSeq(t, m + 1, Len(t))
        BY <1>1, <3>1, <3>5
      <3> HIDE DEF m
      <3> QED BY <3>6
    <2> QED BY <1>1, <2>1, <2>2, <2>3, <2>4
  <1>4. Printing'
    <2> SUFFICES ASSUME ~strayed
                 PROVE  Printing'
      BY <1>2 DEF Printing
    <2>1. /\ text' \in Seq(X)
          /\ \/ todo' \in RawRests
             \/ todo' = <<>> /\ ~Whole'
             \/ \E n \in 0 .. Len(t) : /\ SameAs(text', SubSeq(t, 1, n))
                                       /\ todo' = SubSeq(t, n + 1, Len(t))
      BY <1>3
    <2> HIDE DEF t, X
    <2> QED BY <1>2, <2>1 DEF Printing
  <1>5. PrintedAll'
    BY <1>1 DEF PrintedAll
  <1> QED BY <1>2, <1>4, <1>5 DEF PrintInv

\* A push shows the next token.
LEMMA PushPrint ==
    ASSUME CodecInv, PrintInv, Push
    PROVE  PrintInv'
  <1> DEFINE t == Tokens
             X == TokenSet(parsed.kind, parsed.data)
             x == Head(todo)
  <1>1. /\ stage = "print" /\ stage' = "print" /\ todo # <<>> /\ todo' = Tail(todo)
        /\ x.what \notin {"repr", "stringify"} /\ text' = Append(text, x)
        /\ UNCHANGED <<codec, style, json, strayed>>
    BY DEF Push, Pushable
  <1>2. /\ parsed' = parsed /\ Tokens' = t /\ strayed' = strayed
        /\ TokenSet(parsed.kind, parsed.data)' = X
        /\ RouteKnown' /\ Exporting' /\ Exported' /\ NoText'
    BY <1>1, PrintFrame
  <1>3. ASSUME ~strayed
        PROVE  /\ text' \in Seq(X)
               /\ \/ todo' \in RawRests
                  \/ todo' = <<>> /\ ~Whole'
                  \/ \E n \in 0 .. Len(t) : /\ SameAs(text', SubSeq(t, 1, n))
                                            /\ todo' = SubSeq(t, n + 1, Len(t))
    <2>1. t \in Seq(X) /\ text \in Seq(X)
      BY <1>1, <1>3, TokensKnown DEF PrintInv, Printing
    <2>2. \/ todo \in RawRests
          \/ \E n \in 0 .. Len(t) : /\ SameAs(text, SubSeq(t, 1, n))
                                    /\ todo = SubSeq(t, n + 1, Len(t))
      BY <1>1, <1>3 DEF PrintInv, Printing
    <2>3. ASSUME x \in X PROVE text' \in Seq(X) /\ text' = text \o <<x>>
      <3> HIDE DEF X, x
      <3> QED BY <1>1, <2>1, <2>3, AppendIsConcat, AppendProperties
    <2>4. CASE todo \in RawRests
      <3>1. /\ Stringify.what = "stringify" /\ Marks.what = "marks" /\ RawJson.what = "json"
            /\ RawJson.in = "raw"
        BY DEF Stringify, Marks, RawJson, Token
      <3>2. todo = <<Marks, RawJson>> \/ todo = <<RawJson>>
        BY <1>1, <2>4, <3>1 DEF RawRests
      <3>3. Marks \in X /\ RawJson \in X
        BY TokensAre DEF Marks, RawJson, RawTokens
      <3>4. CASE todo = <<Marks, RawJson>>
        <4>1. x = Marks /\ Tail(todo) = <<RawJson>>
          BY <3>4
        <4> QED BY <1>1, <2>3, <3>3, <4>1 DEF RawRests
      <3>5. CASE todo = <<RawJson>>
        <4>1. x = RawJson /\ Tail(todo) = <<>>
          BY <3>5
        <4>2. ~Whole'
          <5> HIDE DEF X, x
          <5>1. Len(text') = Len(text) + 1 /\ text'[Len(text) + 1] = x /\ Len(text) \in Nat
                /\ text' \in Seq(X)
            BY <1>1, <2>1, <3>3, <4>1, AppendProperties, LenProperties
          <5>2. Len(text) + 1 \in DOMAIN text'
            BY <5>1, LenProperties
          <5> QED BY <3>1, <4>1, <5>1, <5>2 DEF Whole
        <4> QED BY <1>1, <2>3, <3>3, <4>1, <4>2
      <3> QED BY <3>2, <3>4, <3>5
    <2>5. ASSUME NEW n \in 0 .. Len(t), SameAs(text, SubSeq(t, 1, n)),
                 todo = SubSeq(t, n + 1, Len(t))
          PROVE  /\ text' \in Seq(X)
                 /\ \E m \in 0 .. Len(t) : /\ SameAs(text', SubSeq(t, 1, m))
                                           /\ todo' = SubSeq(t, m + 1, Len(t))
      <3> DEFINE done == SubSeq(t, 1, n)
      <3>0. SameAs(text, done)
        BY <2>5
      <3> HIDE DEF t, X
      <3>1. /\ n + 1 \in 0 .. Len(t) /\ x = t[n + 1] /\ t[n + 1] \in X
            /\ Tail(todo) = SubSeq(t, (n + 1) + 1, Len(t))
            /\ done \in Seq(X) /\ SubSeq(t, 1, n + 1) = done \o <<t[n + 1]>>
        BY <1>1, <2>1, <2>5, NextOne
      <3> HIDE DEF done, x
      <3>2. text' \in Seq(X) /\ text' = text \o <<x>>
        BY <2>3, <3>1
      <3>3. \A w : Of(SubSeq(t, 1, n + 1), w) = Of(done, w) \o One(x, w)
        BY <3>1, OfLast
      <3>4. \A w : Of(text', w) = Of(text, w) \o One(x, w)
        BY <2>1, <3>1, <3>2, OfLast
      <3>5. SameAs(text', SubSeq(t, 1, n + 1))
        BY <3>0, <3>3, <3>4 DEF SameAs
      <3>6. \E m \in 0 .. Len(t) : /\ SameAs(text', SubSeq(t, 1, m))
                                   /\ todo' = SubSeq(t, m + 1, Len(t))
        <4> DEFINE m == n + 1
        <4>1. /\ m \in 0 .. Len(t) /\ SameAs(text', SubSeq(t, 1, m))
              /\ todo' = SubSeq(t, m + 1, Len(t))
          BY <1>1, <3>1, <3>5
        <4> HIDE DEF m
        <4> QED BY <4>1
      <3> QED BY <3>2, <3>6
    <2>6. ASSUME \E n \in 0 .. Len(t) : /\ SameAs(text, SubSeq(t, 1, n))
                                       /\ todo = SubSeq(t, n + 1, Len(t))
          PROVE  /\ text' \in Seq(X)
                 /\ \E m \in 0 .. Len(t) : /\ SameAs(text', SubSeq(t, 1, m))
                                           /\ todo' = SubSeq(t, m + 1, Len(t))
      <3>1. PICK n \in 0 .. Len(t) : /\ SameAs(text, SubSeq(t, 1, n))
                                     /\ todo = SubSeq(t, n + 1, Len(t))
        BY <2>6
      <3> HIDE DEF t, X
      <3> QED BY <2>5, <3>1
    <2> HIDE DEF t, X, x
    <2> QED BY <2>2, <2>4, <2>6
  <1>4. Printing'
    <2> SUFFICES ASSUME ~strayed
                 PROVE  Printing'
      BY <1>2 DEF Printing
    <2>1. /\ text' \in Seq(X)
          /\ \/ todo' \in RawRests
             \/ todo' = <<>> /\ ~Whole'
             \/ \E n \in 0 .. Len(t) : /\ SameAs(text', SubSeq(t, 1, n))
                                       /\ todo' = SubSeq(t, n + 1, Len(t))
      BY <1>3
    <2> HIDE DEF t, X, x
    <2> QED BY <1>2, <2>1 DEF Printing
  <1>5. PrintedAll'
    BY <1>1 DEF PrintedAll
  <1> QED BY <1>2, <1>4, <1>5 DEF PrintInv

\* A push fails, or the print is over.
LEMMA EndPrint ==
    ASSUME CodecInv, PrintInv, PushFails \/ PrintReturns
    PROVE  PrintInv'
  <1> DEFINE t == Tokens
             X == TokenSet(parsed.kind, parsed.data)
  <1>1. /\ stage = "print" /\ stage' \in {"print", "printed"}
        /\ UNCHANGED <<codec, style, json, strayed>>
    BY DEF PushFails, Pushable, PrintReturns
  <1>2. /\ parsed' = parsed /\ Tokens' = t /\ strayed' = strayed
        /\ TokenSet(parsed.kind, parsed.data)' = X
        /\ RouteKnown' /\ Exporting' /\ Exported' /\ NoText'
    BY <1>1, PrintFrame
  <1>3. CASE PushFails /\ Head(todo).in = "data"
    <2>1. /\ stage' = "print" /\ text' = text
          /\ todo' = <<Stringify, Marks, RawJson>>
      BY <1>1, <1>3 DEF PushFails, Stringify, Marks, RawJson
    <2>2. Printing'
      BY <1>1, <1>2, <2>1 DEF Printing, PrintInv, RawRests
    <2>3. PrintedAll'
      BY <2>1 DEF PrintedAll
    <2> QED BY <1>2, <2>2, <2>3 DEF PrintInv
  <1>4. CASE PushFails /\ Head(todo).in # "data"
    <2>1. stage' = "printed" /\ text' \in {<<>>, <<RawJson>>}
      BY <1>1, <1>4 DEF PushFails, RawJson
    <2>2. text' = <<>> \/ ~Whole'
      <3>1. RawJson.in = "raw"
        BY DEF RawJson, Token
      <3>2. ASSUME text' = <<RawJson>> PROVE ~Whole'
        <4>1. 1 \in DOMAIN text' /\ text'[1] = RawJson
          BY <3>2
        <4> QED BY <3>1, <4>1 DEF Whole
      <3> QED BY <2>1, <3>2
    <2> QED BY <1>2, <2>1, <2>2 DEF PrintInv, Printing, PrintedAll
  <1>5. CASE PrintReturns
    <2>1. stage' = "printed" /\ text' = text /\ todo = <<>>
      BY <1>5 DEF PrintReturns
    <2>2. ASSUME ~strayed, Whole PROVE SameAs(text, t)
      <3>1. t \in Seq(X)
        BY <1>1, <2>2, TokensKnown
      <3>2. \/ todo \in RawRests
            \/ \E n \in 0 .. Len(t) : /\ SameAs(text, SubSeq(t, 1, n))
                                      /\ todo = SubSeq(t, n + 1, Len(t))
        BY <1>1, <2>2 DEF PrintInv, Printing
      <3>3. todo \notin RawRests
        BY <2>1 DEF RawRests
      <3>4. PICK n \in 0 .. Len(t) : /\ SameAs(text, SubSeq(t, 1, n))
                                     /\ todo = SubSeq(t, n + 1, Len(t))
        BY <3>2, <3>3
      <3> HIDE DEF t, X
      <3>5. SubSeq(t, 1, n) = t
        BY <2>1, <3>1, <3>4, NothingLeft
      <3> QED BY <3>4, <3>5
    <2>3. Whole' <=> Whole
      BY <2>1 DEF Whole
    <2>4. SameAs(text, t)' <=> SameAs(text, t)
      BY <1>2, <2>1 DEF SameAs
    <2>5. PrintedAll'
      BY <1>2, <2>1, <2>2, <2>3, <2>4 DEF PrintedAll
    <2>6. Printing'
      BY <2>1 DEF Printing
    <2> QED BY <1>2, <2>5, <2>6 DEF PrintInv
  <1> QED BY <1>3, <1>4, <1>5

\* A print that crashes shows nothing.
LEMMA CrashPrint ==
    ASSUME PrintInv, PrintCrashes
    PROVE  PrintInv'
  <1>1. /\ stage = "exported" /\ stage' = "crashed" /\ text' = text /\ parsed' = parsed
        /\ route' = route
    BY DEF PrintCrashes, codec
  <1>2. text = <<>> /\ RouteKnown'
    BY <1>1 DEF PrintInv, NoText, RouteKnown, Nobody
  <1> QED BY <1>1, <1>2, EarlyStep DEF Later

\* A release and a restart leave nothing printed.
LEMMA FreshPrint ==
    ASSUME Release \/ Restart
    PROVE  PrintInv'
  <1>1. stage' = "idle" /\ text' = <<>> /\ parsed' = Nobody
    BY DEF Release, Restart
  <1>2. RouteKnown'
    BY <1>1 DEF RouteKnown, Nobody
  <1> QED BY <1>1, <1>2, EarlyStep DEF Later

\* The invariant of the print holds in every state.
LEMMA PrintInductive == Spec => []PrintInv
  <1>1. Init => PrintInv
    <2> SUFFICES ASSUME Init PROVE PrintInv
      OBVIOUS
    <2>1. stage = "idle" /\ text = <<>> /\ parsed = Nobody
      BY DEF Init
    <2> QED BY <2>1 DEF PrintInv, RouteKnown, Exporting, Exported, NoText, Printing, PrintedAll
  <1>2. CodecInv /\ MemInv /\ PrintInv /\ [Next]_vars => PrintInv'
    <2> SUFFICES ASSUME CodecInv, MemInv, PrintInv, [Next]_vars PROVE PrintInv'
      OBVIOUS
    <2>1. ASSUME NEW kind, NEW data, NEW id, NEW null, NEW room, NEW lookup, NEW peer,
                 BuildStatic(kind, data, id, null, room, lookup, peer)
          PROVE  PrintInv'
      BY <2>1, BuiltEarly DEF BuildStatic
    <2>2. ASSUME NEW kind, NEW data, NEW id, NEW null, NEW memory, NEW lookup, NEW peer,
                 Build(kind, data, id, null, memory, lookup, peer)
          PROVE  PrintInv'
      BY <2>2, BuiltEarly DEF Build
    <2>3. ASSUME NEW memory, ParseRecognized(memory)
          PROVE  PrintInv'
      BY <2>3, ParsedEarly DEF ParseRecognized
    <2>4. ASSUME NEW kind, NEW null, NEW memory, ParseAs(kind, null, memory)
          PROVE  PrintInv'
      BY <2>4, ParsedEarly DEF ParseAs
    <2>5. CASE Serve
      BY <2>5, ParsedEarly DEF Serve
    <2>6. CASE UNCHANGED vars
      <3>1. /\ stage' = stage /\ parsed' = parsed /\ route' = route /\ style' = style
            /\ todo' = todo /\ json' = json /\ strayed' = strayed /\ text' = text
        BY <2>6 DEF vars, codec
      <3>2. Tokens' = Tokens /\ AllItems' = AllItems /\ (Whole' <=> Whole)
        BY <3>1 DEF Tokens, AllItems, Whole
      <3> QED BY <3>1, <3>2 DEF PrintInv, RouteKnown, Exporting, Exported, NoText, Printing,
              PrintedAll, Nobody, SameAs
    <2> QED BY <2>1, <2>2, <2>3, <2>4, <2>5, <2>6, ToJsonPrint, AllocPrint, ExportPrint,
            PrettyPrintPrint, CrashPrint, MakePrint, PushPrint, EndPrint, FreshPrint DEF Next
  <1>3. Init => MemInv
    BY DEF Init, MemInv, BuilderWhilePrinting, NoItems, LosesNothingElse
  <1> QED BY <1>1, <1>2, <1>3, CodecInductive, MemStep, PTL DEF Spec

\* A print that did not fall back to raw JSON shows every member of the struct that
\* was built, in order, with its value, as exactly as a double can: for every kind,
\* value, style and capacity, whichever allocations and pushes fail on the way.
THEOREM PrintedRight == Spec => []PrintedAsBuilt
  <1>1. CodecInv /\ PrintInv => PrintedAsBuilt
    <2> SUFFICES ASSUME CodecInv, PrintInv, stage = "printed", text # <<>>, Whole, ~strayed,
                        route # "named"
                 PROVE  /\ Len(Shown) = Len(Structs[sent.kind])
                        /\ \A i \in DOMAIN Shown :
                               LET name == Structs[sent.kind][i].name
                               IN  Shown[i][1] = name /\ Near(Shown[i][2], sent.data[name])
      BY DEF PrintedAsBuilt
    <2> DEFINE kind == parsed.kind
               data == parsed.data
               n == Size(kind)
    <2>1. kind \in Kinds /\ InType(kind, data) /\ parsed # Nobody
      BY KindIsKnown DEF Later
    <2>2. sent = parsed
      BY <2>1 DEF PrintInv, RouteKnown, CodecInv, RecognizedAsBuilt, ServedAsBuilt
    <2>3. Of(text, {"field"}) = FieldTokens(kind) /\ Of(text, {"value"}) = ValueTokens(kind, data)
      <3>1. SameAs(text, Tokens)
        BY DEF PrintInv, PrintedAll
      <3> QED BY <3>1, TokensKnown DEF SameAs
    <2>4. n \in Nat /\ n = Len(Structs[sent.kind])
      BY <2>1, <2>2, StructsAreGood DEF Size
    <2> HIDE DEF kind, data, n
    <2>5. Shown = [i \in 1 .. n |-> <<NameOf(kind, i), ShownAs(kind, data, i)>>]
      <3>1. DOMAIN FieldTokens(kind) = 1 .. n
        BY DEF FieldTokens, n
      <3>2. \A i \in 1 .. n : /\ FieldTokens(kind)[i].arg = NameOf(kind, i)
                              /\ ValueTokens(kind, data)[i].arg = ShownAs(kind, data, i)
        BY DEF FieldTokens, ValueTokens, FieldToken, ValueToken, Token, n
      <3>3. Shown = [i \in DOMAIN FieldTokens(kind) |->
                        <<FieldTokens(kind)[i].arg, ValueTokens(kind, data)[i].arg>>]
        BY <2>3 DEF Shown
      <3> QED BY <3>1, <3>2, <3>3
    <2>6. Len(Shown) = n /\ DOMAIN Shown = 1 .. n
      BY <2>4, <2>5
    <2>7. ASSUME NEW i \in 1 .. n
          PROVE  Shown[i][1] = NameOf(kind, i) /\ Near(Shown[i][2], data[NameOf(kind, i)])
      <3>1. Shown[i][1] = NameOf(kind, i) /\ Shown[i][2] = ShownAs(kind, data, i)
        BY <2>5
      <3>2. Near(ShownAs(kind, data, i), data[NameOf(kind, i)])
        BY <2>1, ValuesShown DEF n
      <3> QED BY <3>1, <3>2
    <2> QED BY <2>2, <2>4, <2>6, <2>7 DEF kind, data, NameOf
  <1> QED BY <1>1, CodecInductive, PrintInductive, PTL
=============================================================================
