------------------------------ MODULE MCControl ------------------------------
(***************************************************************************)
(* P4Controller for a small P4 program: an exact table with direct meter   *)
(* and counter, a ternary table, one array each of meters, counters and    *)
(* registers.                                                              *)
(***************************************************************************)
EXTENDS P4Controller

MCTableType == [t |-> "exact", acl |-> "ternary"]

MCStrToInt == [text \in {"0", "1"} |-> IF text = "0" THEN 0 ELSE 1]

\* The word 1x is read as the number 1, and its rest as the next word.
MCExtracted(word) ==
  CASE word \in {"1", "01"} -> [number |-> 1, good |-> TRUE, rest |-> ""]
    [] word = "1x"          -> [number |-> 1, good |-> TRUE, rest |-> "x"]
    [] word = "0"           -> [number |-> 0, good |-> TRUE, rest |-> ""]
    [] OTHER                -> [number |-> 0, good |-> FALSE, rest |-> word]

\* The texts k1 and K1 are two spellings of a key; the mask of k2&&&m is
\* shorter than the key.
MCKey(type, text) ==
  CASE type \in {"exact", "lpm"} -> <<IF text = "K1" THEN "k1" ELSE text>>
    [] type = "ternary" /\ text # "k2&&&m" -> <<text>>
    [] OTHER -> <<>>

\* An info file with an empty line, incomplete ones, of which the first leaves
\* the name out, flags that are no number or go on after it, and an unknown
\* element.
MCInfo ==
  <<<<"table", "t", "exact">>, <<"meter">>,
    <<"meter", "dm", "01", "t">>, <<"meter", "im", "0", "t">>, <<"meter", "pm", "1x", "acl">>,
    <<>>, <<"counter", "dc", "1", "t">>, <<"counter", "ic", "0", "t">>,
    <<"table", "acl", "ternary">>, <<"counter", "ec", "each", "t">>,
    <<"table", "lost">>, <<"table", "hashed", "hash">>, <<"action", "fwd">>>>

\* A command file whose second line fails.
MCFlowTable ==
  <<<<"table_set_default", "t", "drop">>,
    <<"table_add", "nowhere", "fwd", "k1", "=>", "p1">>,
    <<"table_add", "t", "fwd", "k1", "=>", "p1">>>>

MCView ==
  <<<<"counter_read", "dc", "0">>, <<"counter_reset", "dc">>, <<"register_write", "r", "0", "v">>>>

MCFiles == [info |-> MCInfo, command |-> MCFlowTable, view |-> MCView]

MCPopulateCommands ==
  {<<>>,
   <<"table_set_default", "t", "fwd", "p1">>, <<"table_set_default", "t">>,
   <<"table_add", "t", "fwd", "K1", "=>", "p1", "p2">>,
   <<"table_add", "t", "fwd", "k2", "=>", "p2">>,
   <<"table_add", "acl", "drop", "k1&&&m1", "=>", "p1", "7">>,
   <<"table_add", "acl", "drop", "k2&&&m", "=>", "7">>,
   <<"table_modify", "t", "drop", "0", "p2">>,
   <<"table_delete", "t", "0">>, <<"table_delete", "t">>,
   <<"table_set_timeout", "t", "0", "5">>,
   <<"meter_array_set_rates", "im", "r1", "r2">>,
   <<"meter_set_rates", "im", "1", "r3">>, <<"meter_set_rates", "dm", "0", "r4">>,
   <<"meter_set_rates", "xm", "0", "r5">>, <<"table_clear", "t">>}

MisspeltCommands == {<<"table_modfy", "t", "fwd", "0">>}

MCAttainCommands ==
  {<<>>,
   <<"table_num_entries", "t">>, <<"table_clear", "t">>,
   <<"meter_get_rates", "im", "1">>, <<"meter_get_rates", "xm", "0">>,
   <<"counter_read", "ic", "0">>, <<"counter_reset", "ic">>, <<"counter_reset", "dc">>,
   <<"register_read", "r", "0">>, <<"register_reset", "r">>,
   <<"register_write", "r", "1", "v">>,
   <<"table_dump_entry", "t", "0">>, <<"table_dump", "t">>, <<"table_delete", "t", "0">>}
=============================================================================
