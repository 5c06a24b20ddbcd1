------------------------------ MODULE PldCodec ------------------------------
(***************************************************************************)
(* How the functions of pld_tk_plugin.c read and write packets, and how    *)
(* payloads.c finds the function: by the kind of payload or by the address *)
(* a packet came with.  Everything here is a value; Payloads.tla runs it.  *)
(***************************************************************************)
EXTENDS PldPlugin, SequencesExt

CONSTANT Base   \* values of a byte: 256; less for TLC

ASSUME BaseAssumption == Base \in Nat /\ Base > 3 /\ Base % 2 = 0

Kinds == 1 .. Payloads_TK_plugin.count
NONE  == 0      \* PAYLOAD_ID_NONE
SpecOf(kind) == Payloads_TK_plugin.specs[kind]

\* A function returns the error of the first of its checks that finds one.
FirstError(checks) ==
    LET found == {i \in DOMAIN checks : checks[i][1]}
    IN  IF found = {} THEN "OK" ELSE checks[Min(found)][2]

-----------------------------------------------------------------------------
(* Fields.                                                                 *)

\* How many values there are of so many bytes; no field has more than eight.
Pow[n \in 0 .. 8] == IF n = 0 THEN 1 ELSE Base * Pow[n - 1]

ValuesOf(field) == IF field.signed
                 THEN -(Pow[field.bytes] \div 2) .. (Pow[field.bytes] \div 2) - 1
                 ELSE 0 .. Pow[field.bytes] - 1

\* Most significant byte first; a negative number in two's complement.
ToBytes(v, n) == [k \in 1 .. n |-> (v \div Pow[n - k]) % Base]

Unsigned(bytes) == FoldLeft(LAMBDA acc, b : acc * Base + b, 0, bytes)

\* Fault: the sign is not restored.
FromBytesUnsigned(bytes, signed) == Unsigned(bytes)

FromBytes(bytes, signed) ==
    LET u == Unsigned(bytes)
        full == Pow[Len(bytes)]
    IN  IF signed /\ u >= full \div 2 THEN u - full ELSE u

\* The fields behind the first byte; each read moves the pointer on.
ReadField(acc, f, bytes) ==
    LET v == FromBytes(SubSeq(bytes, acc.next, acc.next + f.bytes - 1), f.signed)
    IN  [next |-> acc.next + f.bytes,
         data |-> [n \in DOMAIN acc.data \cup {f.name} |->
                      IF n = f.name THEN v ELSE acc.data[n]]]

ReadFields(fields, bytes) ==
    FoldLeft(LAMBDA acc, f : ReadField(acc, f, bytes),
             [next |-> 2, data |-> <<>>], fields).data

\* Fault: the constant byte is not written.
WriteFieldsOnly(build, data) ==
    FoldLeft(LAMBDA acc, f : acc \o ToBytes(data[f.name], f.bytes), <<>>, build.fields)

WriteFields(build, data) ==
    FoldLeft(LAMBDA acc, f : acc \o ToBytes(data[f.name], f.bytes), <<build.cmd>>, build.fields)

-----------------------------------------------------------------------------
(* Parsing and building; null is the set of pointers that are NULL.        *)

ParseStaticError(parse, length, null) ==
    FirstError(<< <<length # parse.length, "LENGTH">>,
                  <<null # {}, "BAD_ARGS">> >>)

ParseError(parse, length, null, memory) ==
    FirstError(<< <<length # parse.length, "LENGTH">>, <<"output" \in null, "BAD_ARGS">>,
                  <<~memory, "ALLOC">>, <<null # {}, "BAD_ARGS">> >>)

\* PLD_BUILD_FUNCS_CHECK_ID is 2: an ID that is set must be right.  A request
\* without fields is built without looking at its struct.
BuildArgs(kind, id, null) ==
    << <<null \ (IF SpecOf(kind).build.fields = <<>> THEN {"data"} ELSE {}) # {}, "BAD_ARGS">>,
       <<"data" \notin null /\ id \notin {NONE, SpecOf(kind).pld_id}, "ID_MISMATCH">> >>

BuildStaticError(kind, id, null, capacity) ==
    FirstError(Append(BuildArgs(kind, id, null),
                      <<capacity < SpecOf(kind).build.byte_size, "LENGTH">>))

BuildError(kind, id, null, memory) ==
    FirstError(Append(BuildArgs(kind, id, null), <<~memory, "ALLOC">>))

-----------------------------------------------------------------------------
(* Looking up.                                                             *)

pld_find_spec_by_kind(kind) ==
    FirstError(<< <<kind = NONE, "BAD_ARGS">>, <<kind \notin Kinds, "UNKNOWN_PAYLOAD">> >>)

pld_build_common(id, null) ==
    FirstError(<< <<"data" \in null, "BAD_ARGS">>, <<id = NONE, "ID_MISMATCH">>,
                  <<pld_find_spec_by_kind(id) # "OK", "UNKNOWN_PAYLOAD">> >>)

\* The address template of a struct's kind.
pld_get_addr(id, null) ==
    LET rv == FirstError(<< <<null # {}, "BAD_ARGS">>, <<id = NONE, "ID_MISMATCH">>,
                            <<pld_find_spec_by_kind(id) # "OK", "UNKNOWN_PAYLOAD">> >>)
    IN  [rv |-> rv, addr |-> IF rv = "OK" THEN SpecOf(id).address ELSE Addr(0, 0, 0, 0)]

address_matches(addr, template) ==
    IF template.src # 255
    THEN template.src = addr.src /\ template.sport = addr.sport
    ELSE template.dst # 255 /\ template.dst = addr.dst /\ template.dport = addr.dport

\* Fault: the constant byte is not tested.
RecognizesLength(spec, addr, bytes) ==
    address_matches(addr, spec.address) /\ spec.bin_size = Len(bytes)

Recognizes(spec, addr, bytes) ==
    /\ spec.recognize /\ address_matches(addr, spec.address)
    /\ spec.bin_size = Len(bytes) \/ (spec.growable /\ spec.bin_size < Len(bytes))
    /\ bytes[1] = spec.tester

\* The first entry that fits, NONE if there is none; UNKNOWN_PAYLOAD then.
pld_recognize(addr, bytes) ==
    LET fits == {k \in Kinds : Recognizes(SpecOf(k), addr, bytes)}
    IN  IF fits = {} THEN NONE ELSE CHOOSE k \in fits : \A j \in fits : k <= j

\* Fault: a break is missing.
DispatchFalls(cmd) ==
    IF cmd = 2 THEN [req |-> 7, rsp |-> 8] ELSE [req |-> 2 * cmd + 1, rsp |-> 2 * cmd + 2]

\* server_process_timekeeper_packet: the kind of request a first byte stands
\* for, NONE for an unknown command, and the kind of its response.
Dispatch(cmd) ==
    CASE cmd = 0 -> [req |-> 1, rsp |-> 2]
      [] cmd = 1 -> [req |-> 3, rsp |-> 4]
      [] cmd = 2 -> [req |-> 5, rsp |-> 6]
      [] cmd = 3 -> [req |-> 7, rsp |-> 8]
      [] OTHER   -> [req |-> NONE, rsp |-> NONE]
=============================================================================
