------------------------------ MODULE Payloads ------------------------------
(***************************************************************************)
(* The way of one packet through the library: a struct is built into       *)
(* bytes, the bytes are recognised and parsed by somebody else, the result *)
(* is exported as JSON and printed.  Every allocation may fail.  The       *)
(* caller frees what it was given and starts over.                         *)
(*                                                                         *)
(* The alloc and the export functions are there when the library is        *)
(* compiled with PLD_HAVE_ALLOC and PLD_HAVE_EXPORT.                       *)
(***************************************************************************)
EXTENDS PldCodec, DynStr

CONSTANTS
    Datas,      \* Datas[kind]: the values of the structs that are sent
    Peers,      \* the other party: <<node, port>>
    Exact,      \* whole numbers up to this one are exact as a double: 2^53
    Capacity    \* what pld_pretty_print passes to dstr_new: 256

Names(kind) == {Structs[kind][i].name : i \in DOMAIN Structs[kind]}
ASSUME DatasAssumption ==
    \A k \in Kinds :
        /\ Datas[k] \subseteq [Names(k) -> Int]
        /\ \A d \in Datas[k] : \A i \in DOMAIN Structs[k] :
               LET f == Structs[k][i] IN d[f.name] \in ValuesOf(f)
\* Powers of two: a double lacks at most 11 of the 64 bits of a number.
Two[n \in 0 .. 11] == IF n = 0 THEN 1 ELSE 2 * Two[n - 1]
ASSUME ExactAssumption == Exact \in Nat \ {0} /\ Pow[8] <= Exact * Two[11]
\* dstr_new clears a struct dynstr at the start of the buffer: 256 bytes hold one.
ASSUME CapacityAssumption ==
    Capacity \in Nat \ {0} /\ HeaderSize <= Capacity /\ {1, 2} \subseteq Lengths

VARIABLES
    stage,     \* which call comes next or is under way
    rv,        \* the error of the last call
    sent,      \* kind and data of the struct that was built
    packet,    \* its bytes
    addr,      \* where it comes from and goes to
    parsed,    \* kind and data of the struct that was parsed
    route,     \* how its kind was found
    style,     \* pld_export_json_style
    todo,      \* what is left of the export or of the print
    json,      \* the items that hang on *output
    strayed,   \* the data object could not be hung on it
    text,      \* what was pushed
    heap,      \* live blocks other than the JSON items
    lost       \* history: blocks nobody can free any more

codec == <<sent, packet, addr, parsed, route>>
vars  == <<stage, rv, codec, style, todo, json, strayed, text, heap, lost, str>>

Nobody  == [kind |-> NONE, data |-> <<>>]
NoAddr  == Addr(0, 0, 0, 0)
Styles  == {"DATAONLY", "BASIC", "ANNOTATED"}
Nulls   == {{}, {"output"}, {"data"}}

Return(error, next) ==
    rv' = error /\ stage' = IF error = "OK" THEN next ELSE "failed"

-----------------------------------------------------------------------------
(* Building.  pld_build and pld_build_s look the function up by pld_id;    *)
(* the client and the server call the one of the struct they filled in.    *)

FillIn(template, peer) ==
    IF template.src = 255 THEN [template EXCEPT !.src = peer[1], !.sport = peer[2]]
                          ELSE [template EXCEPT !.dst = peer[1], !.dport = peer[2]]

Built(kind, data, error, peer) ==
    /\ stage = "idle" /\ Return(error, "sent")
    /\ sent' = [kind |-> kind, data |-> data]
    /\ IF error = "OK"
       THEN /\ packet' = WriteFields(SpecOf(kind).build, data)
            /\ addr' = FillIn(pld_get_addr(kind, {}).addr, peer)
       ELSE UNCHANGED <<packet, addr>>
    /\ lost' = {}
    /\ UNCHANGED <<parsed, route, style, todo, json, strayed, text, str>>

\* pld_build_s, or a ..._build_s itself.
BuildStatic(kind, data, id, null, room, lookup, peer) ==
    LET found == IF lookup THEN pld_build_common(id, null) ELSE "OK"
        error == IF found # "OK" THEN found ELSE BuildStaticError(kind, id, null, room)
    IN  Built(kind, data, error, peer) /\ UNCHANGED heap

\* pld_build, or a ..._build itself.
Build(kind, data, id, null, memory, lookup, peer) ==
    LET found == IF lookup THEN pld_build_common(id, null) ELSE "OK"
        error == IF found # "OK" THEN found ELSE BuildError(kind, id, null, memory)
    IN  /\ Built(kind, data, error, peer)
        /\ heap' = IF error = "OK" THEN heap \cup {"packet"} ELSE heap

-----------------------------------------------------------------------------
(* Parsing.                                                                *)

Parsed(kind, error, how, blocks) ==
    /\ stage = "sent" /\ Return(error, "parsed")
    /\ route' = how
    /\ parsed' = IF error = "OK"
                 THEN [kind |-> kind, data |-> ReadFields(SpecOf(kind).parse.fields, packet)]
                 ELSE parsed
    /\ heap' = heap \cup blocks
    /\ UNCHANGED <<sent, packet, addr, style, todo, json, strayed, text, lost, str>>

\* pld_parse_s and pld_parse.
ParseRecognized(memory) ==
    LET k == pld_recognize(addr, packet) IN
    /\ stage = "sent"
    /\ IF k = NONE THEN Parsed(NONE, "UNKNOWN_PAYLOAD", "recognized", {})
       ELSE \/ Parsed(k, ParseStaticError(SpecOf(k).parse, Len(packet), {}), "recognized", {})
            \/ LET e == ParseError(SpecOf(k).parse, Len(packet), {}, memory)
               IN  Parsed(k, e, "recognized", IF e = "OK" THEN {"struct"} ELSE {})

\* pld_parse_as_s and pld_parse_as, where the caller may name the wrong kind.
ParseAs(kind, null, memory) ==
    IF kind \notin Kinds THEN Parsed(NONE, pld_find_spec_by_kind(kind), "named", {})
    ELSE \/ Parsed(kind, ParseStaticError(SpecOf(kind).parse, Len(packet), null), "named", {})
         \/ LET e == ParseError(SpecOf(kind).parse, Len(packet), null, memory)
            IN  Parsed(kind, e, "named", IF e = "OK" THEN {"struct"} ELSE {})

\* The server's choice by the first byte; csp_pld_txn then parses.
Serve ==
    LET k == Dispatch(packet[1]).req IN
    /\ stage = "sent"
    /\ IF k = NONE THEN Parsed(NONE, "UNKNOWN_PAYLOAD", "served", {})
       ELSE Parsed(k, ParseStaticError(SpecOf(k).parse, Len(packet), {}), "served", {})

-----------------------------------------------------------------------------
(* Exporting.                                                              *)

\* The number as a double: rounded to a multiple of the step between doubles of
\* its size, ties to the even one.
AsDouble(v) ==
    LET size == IF v < 0 THEN -v ELSE v
        k == CHOOSE n \in 0 .. 11 : size <= Exact * Two[n] /\ (n = 0 \/ size > Exact * Two[n - 1])
        step == Two[k]
        rest == size % step
        up == 2 * rest > step \/ (2 * rest = step /\ (size \div step) % 2 = 1)
        near == (size \div step + (IF up THEN 1 ELSE 0)) * step
    IN  IF v < 0 THEN -near ELSE near

Item(what, key, value) == [what |-> what, key |-> key, value |-> value]

\* The items a ..._to_json_inner allocates for the members, in its order.
MemberItems(to_json, data, how) ==
    FlattenSeq([i \in DOMAIN to_json |->
        LET m == to_json[i]
            value == Item("value", m.key, AsDouble(data[m.member]))
        IN  IF how = "ANNOTATED"
            THEN <<Item("member", m.key, 0), Item("type", m.key, m.type), value>>
            ELSE <<value>>])

\* The items of pld_to_json_by_spec.
Items(spec, data, how) ==
    <<Item("object", "", 0)>>
    \o (IF how # "DATAONLY" THEN <<Item("name", "name", spec.name)>> ELSE <<>>)
    \o (IF how = "ANNOTATED" /\ spec.descr THEN <<Item("descr", "descr", spec.name)>> ELSE <<>>)
    \o (IF how # "DATAONLY" THEN <<Item("data", "data", 0)>> ELSE <<>>)
    \o MemberItems(spec.data_to_json, data, how)

\* pld_to_json; the caller has set *output to NULL.
ToJson(how) ==
    /\ stage = "parsed" /\ stage' = "export"
    /\ style' = how
    /\ todo' = Items(SpecOf(parsed.kind), parsed.data, how)
    /\ UNCHANGED <<rv, codec, json, strayed, text, heap, lost, str>>

\* The next item is allocated and hung on its parent.
AllocItem ==
    /\ stage = "export" /\ todo # <<>> /\ todo' = Tail(todo)
    /\ json' = IF strayed THEN json ELSE Append(json, Head(todo))
    /\ UNCHANGED <<stage, rv, codec, style, strayed, text, heap, lost, str>>

\* cJSON_AddItemToObject cannot copy the key of the data object and has no way to
\* say so: the object hangs on nothing.
DataStrays ==
    /\ stage = "export" /\ todo # <<>> /\ Head(todo).what = "data"
    /\ todo' = Tail(todo) /\ strayed' = TRUE
    /\ UNCHANGED <<stage, rv, codec, style, json, text, heap, lost, str>>

\* Fault: cjfail leaves *output as it is.
KeepOutput == json' = json

DeleteOutput == json' = <<>>

\* cjfail, in the function or in its caller.
AllocFails ==
    /\ stage = "export" /\ todo # <<>> /\ todo' = <<>>
    /\ DeleteOutput /\ Return("ALLOC", "exported")
    /\ UNCHANGED <<codec, style, strayed, text, heap, lost, str>>

ToJsonReturns ==
    /\ stage = "export" /\ todo = <<>> /\ Return("OK", "exported")
    /\ UNCHANGED <<codec, style, todo, json, strayed, text, heap, lost, str>>

-----------------------------------------------------------------------------
(* Printing: a push writes one token; runs of mere layout count as one.    *)

Token(in, what, arg) == [in |-> in, what |-> what, arg |-> arg]
Layout(in) == Token(in, "layout", "")

\* print_data for one member: the text of a value is allocated, pushed, freed.
MemberTokens(item) ==
    <<Token("data", "field", item.key), Layout("data"), Token("data", "repr", ""),
      Token("data", "value", item.value), Layout("data")>>

Printed(items) == FlattenSeq([i \in DOMAIN items |-> MemberTokens(items[i])])

\* The entries of some kinds, in their order.
Of(s, whats) ==
    FlattenSeq([i \in DOMAIN s |-> IF s[i].what \in whats THEN <<s[i]>> ELSE <<>>])

\* pld_pretty_print: with a name and a data object, the header and its members,
\* otherwise the members of the object itself.
Tokens ==
    IF Of(json, {"name"}) # <<>> /\ Of(json, {"data"}) # <<>>
    THEN <<Layout("head"), Token("head", "name", "")>>
         \o [i \in DOMAIN Of(json, {"descr"}) |-> Token("head", "descr", "")]
         \o <<Layout("head")>> \o Printed(Of(json, {"value"}))
    ELSE <<Layout("head")>> \o Printed(Of(json, {"name", "descr", "value"}))

PrettyPrint ==
    /\ stage = "exported" /\ dstr_new(Capacity)
    /\ stage' = "print" /\ todo' = Tokens
    /\ heap' = heap \cup {"builder", "buffer"}
    /\ UNCHANGED <<rv, codec, style, json, strayed, text, lost>>

\* dstr_new returned NULL, which the first push follows.
PrintCrashes ==
    /\ stage = "exported" /\ stage' = "crashed"
    /\ UNCHANGED <<rv, codec, style, todo, json, strayed, text, heap, lost, str>>

\* cJSON_PrintUnformatted, cJSON_Print: a block, or NULL.
MakeText(kind, block) ==
    /\ stage = "print" /\ todo # <<>> /\ Head(todo).what = kind /\ todo' = Tail(todo)
    /\ heap' \in {heap, heap \cup {block}}
    /\ UNCHANGED <<stage, rv, codec, style, json, strayed, text, lost, str>>

MakeRepr == MakeText("repr", "repr")
MakeStringified == MakeText("stringify", "stringified")

\* The block a token's text is in, if it had to be made.
Source(token) == IF token.what = "value" THEN {"repr"}
                 ELSE IF token.what = "json" THEN {"stringified"} ELSE {}

Length(token) == IF token.what = "layout" THEN 1 ELSE 2

Pushable == /\ stage = "print" /\ todo # <<>>
            /\ Head(todo).what \notin {"repr", "stringify"}

Push ==
    /\ Pushable /\ Source(Head(todo)) \subseteq heap
    /\ dstr_pushn(Length(Head(todo)))
    /\ text' = Append(text, Head(todo)) /\ todo' = Tail(todo)
    /\ heap' = heap \ Source(Head(todo))
    /\ UNCHANGED <<stage, rv, codec, style, json, strayed, lost>>

\* A push of a NULL text, or one that got no memory: in print_data the rest is
\* printed as raw JSON, elsewhere all of it.
PushFails ==
    /\ Pushable
    /\ Source(Head(todo)) \subseteq heap => remains < Needed(Length(Head(todo)))
    /\ IF Head(todo).in = "data"
       THEN /\ todo' = <<Token("raw", "stringify", ""), Token("raw", "marks", ""),
                         Token("raw", "json", "")>>
            /\ UNCHANGED <<stage, text, heap, str>>
       ELSE /\ heap' = heap \ {"builder", "buffer"} /\ dstr_free
            /\ stage' = "printed" /\ todo' = <<>>
            /\ text' \in {<<>>, <<Token("raw", "json", "")>>}   \* cJSON_Print, NULL or not
    /\ UNCHANGED <<rv, codec, style, json, strayed, lost>>

\* dstr_into_raw: the buffer is the caller's.
PrintReturns ==
    /\ stage = "print" /\ todo = <<>> /\ stage' = "printed"
    /\ heap' = heap \ {"builder", "buffer"} /\ dstr_free
    /\ UNCHANGED <<rv, codec, style, todo, json, strayed, text, lost>>

-----------------------------------------------------------------------------
\* The caller frees what the calls that succeeded gave it: the packet, the struct,
\* the JSON object, the text.
Release ==
    /\ stage \in {"failed", "sent", "parsed", "exported", "printed"}
    /\ stage' = "idle" /\ rv' = "OK"
    /\ lost' = (heap \ {"packet", "struct"}) \cup (IF strayed THEN {"data"} ELSE {})
               \cup (IF rv # "OK" /\ json # <<>> THEN {"json"} ELSE {})
    /\ heap' = {} /\ json' = <<>> /\ strayed' = FALSE /\ text' = <<>>
    /\ sent' = Nobody /\ packet' = <<>> /\ addr' = NoAddr
    /\ parsed' = Nobody /\ route' = "" /\ style' = "" /\ todo' = <<>>
    /\ UNCHANGED str

\* The process starts again.
Restart ==
    /\ stage = "crashed" /\ stage' = "idle" /\ rv' = "OK" /\ lost' = {}
    /\ heap' = {} /\ json' = <<>> /\ strayed' = FALSE /\ text' = <<>>
    /\ sent' = Nobody /\ packet' = <<>> /\ addr' = NoAddr
    /\ parsed' = Nobody /\ route' = "" /\ style' = "" /\ todo' = <<>>
    /\ UNCHANGED str

Init ==
    /\ stage = "idle" /\ rv = "OK" /\ lost = {}
    /\ heap = {} /\ json = <<>> /\ strayed = FALSE /\ text = <<>>
    /\ sent = Nobody /\ packet = <<>> /\ addr = NoAddr
    /\ parsed = Nobody /\ route = "" /\ style = "" /\ todo = <<>>
    /\ StrInit

Next ==
    \/ /\ stage = "idle"
       /\ \E kind \in Kinds, null \in Nulls, peer \in Peers, lookup \in BOOLEAN :
          \E data \in Datas[kind], id \in {NONE, kind, kind + 1} :
             /\ lookup => id # kind + 1   \* the struct is of the kind it says
             /\ \/ \E short \in {0, 1} : BuildStatic(kind, data, id, null,
                       SpecOf(kind).bin_size - short, lookup, peer)
                \/ \E memory \in BOOLEAN :
                       Build(kind, data, id, null, memory, lookup, peer)
    \/ \E memory \in BOOLEAN :
          \/ ParseRecognized(memory)
          \/ \E kind \in 0 .. 9, null \in {{}, {"output"}} : ParseAs(kind, null, memory)
    \/ Serve
    \/ \E how \in Styles : ToJson(how)
    \/ AllocItem \/ DataStrays \/ AllocFails \/ ToJsonReturns
    \/ PrettyPrint \/ PrintCrashes \/ MakeRepr \/ MakeStringified
    \/ Push \/ PushFails \/ PrintReturns
    \/ Release \/ Restart

Spec == Init /\ [][Next]_vars

-----------------------------------------------------------------------------
(* Properties.                                                             *)

\* A parsed struct holds values of its members' C types.
TypeOK ==
    /\ stage \in {"idle", "sent", "parsed", "export", "exported", "print", "printed",
                  "failed", "crashed"}
    /\ rv \in {"OK", "ALLOC", "BAD_ARGS", "LENGTH", "ID_MISMATCH", "UNKNOWN_PAYLOAD"}
    /\ \A i \in DOMAIN packet : packet[i] \in 0 .. Base - 1
    /\ parsed.kind # NONE =>
           \A i \in DOMAIN Structs[parsed.kind] :
               LET f == Structs[parsed.kind][i] IN parsed.data[f.name] \in ValuesOf(f)
    /\ heap \subseteq {"packet", "struct", "builder", "buffer", "repr", "stringified"}
    /\ capacity \in Nat /\ remains \in Nat /\ wp \in Nat /\ top \in Nat

\* A build function fills the buffer that it sized by BIN_SIZE to the last byte
\* and writes no more.
FillsItsBuffer ==
    stage = "sent" => Len(packet) = SpecOf(sent.kind).build.byte_size

\* Every packet that is built is recognised by address, length and first byte as
\* what it is and gives back the struct it was built from, whoever the peer is.
RecognizedAsBuilt ==
    route = "recognized" => IF parsed = Nobody THEN rv = "ALLOC" ELSE parsed = sent

\* The server, which goes by the first byte alone, takes every request for what it
\* is and no response for a request, though both carry the same byte.
ServedAsBuilt ==
    route = "served" => IF parsed = Nobody THEN sent.kind \in {2, 4, 6, 8} ELSE parsed = sent

Shown == LET fields == Of(text, {"field"})
             values == Of(text, {"value"})
         IN  [i \in DOMAIN fields |-> <<fields[i].arg, values[i].arg>>]
Whole == \A i \in DOMAIN text : text[i].in # "raw"

\* The number a value is shown by: itself, or off by a share of Exact.
Near(shown, v) ==
    LET size(n) == IF n < 0 THEN -n ELSE n
    IN  IF size(v) <= Exact THEN shown = v ELSE size(shown - v) * Exact <= size(v)

\* A print that did not fall back to raw JSON shows every member of the struct
\* that was built, in order, with its value, as exactly as a double can.
PrintedAsBuilt ==
    stage = "printed" /\ text # <<>> /\ Whole /\ ~strayed /\ route # "named" =>
        /\ Len(Shown) = Len(Structs[sent.kind])
        /\ \A i \in DOMAIN Shown :
               LET name == Structs[sent.kind][i].name
               IN  Shown[i][1] = name /\ Near(Shown[i][2], sent.data[name])

\* When memory runs out all that can be lost is the data object whose key could
\* not be copied and a text whose push failed, whichever allocations fail.
LosesNothingElse == lost \subseteq {"data", "repr", "stringified"}
=============================================================================
