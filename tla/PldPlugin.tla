----------------------------- MODULE PldPlugin -----------------------------
(***************************************************************************)
(* The eight packets of pld_tk_plugin.c.  The header's structs, the parse, *)
(* build, test and JSON functions and the entries of payload_specs are     *)
(* described one by one, each from its own code, in the code's order; what *)
(* all functions of a kind share is in PldCodec.                           *)
(***************************************************************************)
EXTENDS Integers, Sequences

\* A member or field of the C type: how many bytes, signed or not.
u8(name)  == [name |-> name, bytes |-> 1, signed |-> FALSE]
u64(name) == [name |-> name, bytes |-> 8, signed |-> FALSE]
i64(name) == [name |-> name, bytes |-> 8, signed |-> TRUE]

-----------------------------------------------------------------------------
(* Payload structs, without pld_id.                                        *)

TK_SET_TIME_REQ == <<u64("time")>>
TK_SET_TIME_RSP == <<u8("ret_val")>>
TK_GET_TIME_REQ == <<>>
TK_GET_TIME_RSP == <<u64("time")>>
TK_SYNC_TIME_REQ == <<i64("frequency"), u8("flags")>>
TK_SYNC_TIME_RSP == <<u8("error"), u64("last_sync"), u8("mode"),
                      u8("master_node"), u8("last_failed_node"),
                      u8("ret_val")>>
TK_SYNC_SLAVES_REQ == <<u8("node"), u64("time")>>
TK_SYNC_SLAVES_RSP == <<u8("ret_val")>>

-----------------------------------------------------------------------------
(* ..._parse and ..._parse_s: the length they want and the fields they     *)
(* read, one after the other behind the first byte, which is skipped.      *)

Reads(length, fields) == [length |-> length, fields |-> fields]

TK_SET_TIME_REQ_parse == Reads(9, <<u64("time")>>)
TK_SET_TIME_RSP_parse == Reads(2, <<u8("ret_val")>>)
TK_GET_TIME_REQ_parse == Reads(1, <<>>)
TK_GET_TIME_RSP_parse == Reads(9, <<u64("time")>>)
TK_SYNC_TIME_REQ_parse == Reads(10, <<i64("frequency"), u8("flags")>>)
TK_SYNC_TIME_RSP_parse == Reads(14, <<u8("error"), u64("last_sync"),
                                      u8("mode"), u8("master_node"),
                                      u8("last_failed_node"), u8("ret_val")>>)
TK_SYNC_SLAVES_REQ_parse == Reads(10, <<u8("node"), u64("time")>>)
TK_SYNC_SLAVES_RSP_parse == Reads(2, <<u8("ret_val")>>)

-----------------------------------------------------------------------------
(* ..._build and ..._build_s: how many bytes they write, the constant      *)
(* first byte and the fields after it.                                     *)

Writes(byte_size, cmd, fields) == [byte_size |-> byte_size, cmd |-> cmd, fields |-> fields]

TK_SET_TIME_REQ_build == Writes(9, 0, <<u64("time")>>)
TK_SET_TIME_RSP_build == Writes(2, 0, <<u8("ret_val")>>)
TK_GET_TIME_REQ_build == Writes(1, 1, <<>>)
TK_GET_TIME_RSP_build == Writes(9, 1, <<u64("time")>>)
TK_SYNC_TIME_REQ_build == Writes(10, 2, <<i64("frequency"), u8("flags")>>)
TK_SYNC_TIME_RSP_build == Writes(14, 2, <<u8("error"), u64("last_sync"),
                                          u8("mode"), u8("master_node"),
                                          u8("last_failed_node"),
                                          u8("ret_val")>>)
TK_SYNC_SLAVES_REQ_build == Writes(10, 3, <<u8("node"), u64("time")>>)
TK_SYNC_SLAVES_RSP_build == Writes(2, 3, <<u8("ret_val")>>)

-----------------------------------------------------------------------------
(* ..._test: the constant first byte.                                      *)

TK_SET_TIME_REQ_test == 0
TK_SET_TIME_RSP_test == 0
TK_GET_TIME_REQ_test == 1
TK_GET_TIME_RSP_test == 1
TK_SYNC_TIME_REQ_test == 2
TK_SYNC_TIME_RSP_test == 2
TK_SYNC_SLAVES_REQ_test == 3
TK_SYNC_SLAVES_RSP_test == 3

-----------------------------------------------------------------------------
(* ..._to_json_inner: the keys added, in order, the type each is annotated *)
(* with and the member of the struct its value is taken from.              *)

Shows(key, type, member) == [key |-> key, type |-> type, member |-> member]

\* Fault: two members are swapped.
Swapped_to_json == <<Shows("frequency", "i64", "flags"), Shows("flags", "u8", "frequency")>>

TK_SET_TIME_REQ_to_json == <<Shows("time", "u64", "time")>>
TK_SET_TIME_RSP_to_json == <<Shows("ret_val", "u8", "ret_val")>>
TK_GET_TIME_REQ_to_json == <<>>
TK_GET_TIME_RSP_to_json == <<Shows("time", "u64", "time")>>
TK_SYNC_TIME_REQ_to_json == <<Shows("frequency", "i64", "frequency"),
                              Shows("flags", "u8", "flags")>>
TK_SYNC_TIME_RSP_to_json == <<Shows("error", "u8", "error"),
                              Shows("last_sync", "u64", "last_sync"),
                              Shows("mode", "u8", "mode"),
                              Shows("master_node", "u8", "master_node"),
                              Shows("last_failed_node", "u8", "last_failed_node"),
                              Shows("ret_val", "u8", "ret_val")>>
TK_SYNC_SLAVES_REQ_to_json == <<Shows("node", "u8", "node"),
                                Shows("time", "u64", "time")>>
TK_SYNC_SLAVES_RSP_to_json == <<Shows("ret_val", "u8", "ret_val")>>

-----------------------------------------------------------------------------
(* payload_specs.                                                          *)

Addr(src, sport, dst, dport) == [src |-> src, sport |-> sport, dst |-> dst, dport |-> dport]

\* What all entries have in common: a fixed size, recognition, a description.
Entry(pld_id, name, address, bin_size, tester, parse, build, to_json) ==
    [pld_id |-> pld_id, name |-> name, address |-> address, bin_size |-> bin_size,
     growable |-> FALSE, recognize |-> TRUE, tester |-> tester,
     parse |-> parse, build |-> build, descr |-> TRUE, data_to_json |-> to_json]

Spec_SET_TIME_REQ == Entry(1, "TK_SET_TIME_REQ", Addr(255, 255, 13, 10), 9,
    TK_SET_TIME_REQ_test, TK_SET_TIME_REQ_parse,
    TK_SET_TIME_REQ_build, TK_SET_TIME_REQ_to_json)
Spec_SET_TIME_RSP == Entry(2, "TK_SET_TIME_RSP", Addr(13, 10, 255, 255), 2,
    TK_SET_TIME_RSP_test, TK_SET_TIME_RSP_parse,
    TK_SET_TIME_RSP_build, TK_SET_TIME_RSP_to_json)
Spec_GET_TIME_REQ == Entry(3, "TK_GET_TIME_REQ", Addr(255, 255, 13, 10), 1,
    TK_GET_TIME_REQ_test, TK_GET_TIME_REQ_parse,
    TK_GET_TIME_REQ_build, TK_GET_TIME_REQ_to_json)
Spec_GET_TIME_RSP == Entry(4, "TK_GET_TIME_RSP", Addr(13, 10, 255, 255), 9,
    TK_GET_TIME_RSP_test, TK_GET_TIME_RSP_parse,
    TK_GET_TIME_RSP_build, TK_GET_TIME_RSP_to_json)
Spec_SYNC_TIME_REQ == Entry(5, "TK_SYNC_TIME_REQ", Addr(255, 255, 13, 10), 10,
    TK_SYNC_TIME_REQ_test, TK_SYNC_TIME_REQ_parse,
    TK_SYNC_TIME_REQ_build, TK_SYNC_TIME_REQ_to_json)
Spec_SYNC_TIME_RSP == Entry(6, "TK_SYNC_TIME_RSP", Addr(13, 10, 255, 255), 14,
    TK_SYNC_TIME_RSP_test, TK_SYNC_TIME_RSP_parse,
    TK_SYNC_TIME_RSP_build, TK_SYNC_TIME_RSP_to_json)
Spec_SYNC_SLAVES_REQ == Entry(7, "TK_SYNC_SLAVES_REQ", Addr(255, 255, 13, 10), 10,
    TK_SYNC_SLAVES_REQ_test, TK_SYNC_SLAVES_REQ_parse,
    TK_SYNC_SLAVES_REQ_build, TK_SYNC_SLAVES_REQ_to_json)
Spec_SYNC_SLAVES_RSP == Entry(8, "TK_SYNC_SLAVES_RSP", Addr(13, 10, 255, 255), 2,
    TK_SYNC_SLAVES_RSP_test, TK_SYNC_SLAVES_RSP_parse,
    TK_SYNC_SLAVES_RSP_build, TK_SYNC_SLAVES_RSP_to_json)

payload_specs == <<Spec_SET_TIME_REQ, Spec_SET_TIME_RSP, Spec_GET_TIME_REQ,
                   Spec_GET_TIME_RSP, Spec_SYNC_TIME_REQ, Spec_SYNC_TIME_RSP,
                   Spec_SYNC_SLAVES_REQ, Spec_SYNC_SLAVES_RSP>>

Payloads_TK_plugin == [specs |-> payload_specs, start_index |-> 1, count |-> 8]

\* The struct of each kind, which the C compiler knows.
Structs == <<TK_SET_TIME_REQ, TK_SET_TIME_RSP, TK_GET_TIME_REQ, TK_GET_TIME_RSP,
             TK_SYNC_TIME_REQ, TK_SYNC_TIME_RSP, TK_SYNC_SLAVES_REQ, TK_SYNC_SLAVES_RSP>>
=============================================================================
