------------------------------ MODULE BmRuntime ------------------------------
(***************************************************************************)
(* What the switch interface expects of the runtime of bmv2, from which    *)
(* P4Model inherits the functions called mt_..., meter_..., counters and   *)
(* register_...: the tables, meters, counters and registers of the loaded  *)
(* P4 program, each function either doing all of its work or refusing it.  *)
(* The runtime is external to the repository.                              *)
(*                                                                         *)
(* Direct meters and counters belong to the entries of a table and are     *)
(* addressed by table and handle; the others are arrays addressed by name  *)
(* and index.  Both kinds of address are cells.                            *)
(***************************************************************************)
EXTENDS Integers, Sequences, FiniteSets, Functions

CONSTANTS
  TableType,        \* table of the program -> its match type
  TableSize,        \* entries a table can hold
  Actions,          \* the actions of the program
  MeteredTables,    \* tables whose entries have a direct meter
  CountedTables,    \* tables whose entries have a direct counter
  MeterArrays, CounterArrays, RegisterArrays,
  ArraySize         \* cells of each array

Tables == DOMAIN TableType
Handles == 0 .. TableSize - 1
Indices == 0 .. ArraySize - 1

MeterCells == (MeteredTables \X Handles) \cup (MeterArrays \X Indices)
CounterCells == (CountedTables \X Handles) \cup (CounterArrays \X Indices)
RegisterCells == RegisterArrays \X Indices

NoRates == <<>>

\* A program just loaded.
Loaded ==
  [entries |-> [t \in Tables |-> [h \in {} |-> <<>>]],
   default_action |-> [t \in Tables |-> <<>>],
   rates |-> [c \in MeterCells |-> NoRates],
   counts |-> [c \in CounterCells |-> 0],
   registers |-> [c \in RegisterCells |-> "0"]]

\* The answer of a function: whether it succeeded, the runtime after it and
\* what it returns.
Success(rt, value) == [success |-> TRUE, rt |-> rt, value |-> value]
Refused(rt) == [success |-> FALSE, rt |-> rt, value |-> <<>>]

HasEntry(rt, t, h) == t \in Tables /\ h \in DOMAIN rt.entries[t]

mt_get_num_entries(rt, t) ==
  IF t \in Tables THEN Success(rt, Cardinality(DOMAIN rt.entries[t])) ELSE Refused(rt)

mt_set_default_action(rt, t, action, data) ==
  IF t \in Tables /\ action \in Actions
    THEN Success([rt EXCEPT !.default_action[t] = <<action>> \o data], <<>>)
    ELSE Refused(rt)

\* An entry needs one key of the type of the table, which no other entry has.
mt_add_entry(rt, t, match_type, match_key, action, data, priority) ==
  LET free == Handles \ DOMAIN rt.entries[t]
      handle == CHOOSE h \in free : \A g \in free : h <= g
      entry == [key |-> match_key, action |-> action, data |-> data,
                priority |-> priority, ttl |-> "0"]
  IN  IF /\ t \in Tables
         /\ match_type = TableType[t] /\ Len(match_key) = 1
         /\ action \in Actions
         /\ free # {}
         /\ \A h \in DOMAIN rt.entries[t] : rt.entries[t][h].key # match_key
        THEN Success([rt EXCEPT
               !.entries[t] = [h \in DOMAIN @ \cup {handle} |->
                                 IF h = handle THEN entry ELSE @[h]],
               !.counts = [c \in CounterCells |->
                             IF c = <<t, handle>> THEN 0 ELSE @[c]]], handle)
        ELSE Refused(rt)

mt_modify_entry(rt, t, h, action, data) ==
  IF HasEntry(rt, t, h) /\ action \in Actions
    THEN Success([rt EXCEPT !.entries[t][h].action = action,
                            !.entries[t][h].data = data], <<>>)
    ELSE Refused(rt)

mt_set_entry_ttl(rt, t, h, ttl) ==
  IF HasEntry(rt, t, h)
    THEN Success([rt EXCEPT !.entries[t][h].ttl = ttl], <<>>) ELSE Refused(rt)

\* The meter of an entry goes with it.
WithoutEntries(rt, t, gone) ==
  [rt EXCEPT !.entries[t] = [h \in DOMAIN @ \ gone |-> @[h]],
             !.rates = [c \in MeterCells |->
                          IF c \in {t} \X gone THEN NoRates ELSE @[c]]]

mt_delete_entry(rt, t, h) ==
  IF HasEntry(rt, t, h) THEN Success(WithoutEntries(rt, t, {h}), <<>>) ELSE Refused(rt)

mt_clear_entries(rt, t) ==
  IF t \in Tables THEN Success(WithoutEntries(rt, t, Handles), <<>>) ELSE Refused(rt)

mt_get_entry(rt, t, h) ==
  IF HasEntry(rt, t, h) THEN Success(rt, rt.entries[t][h]) ELSE Refused(rt)

mt_get_entries(rt, t) == IF t \in Tables THEN Range(rt.entries[t]) ELSE {}

\* Rates and counters, of entries (mt_) and of arrays.

SetRates(rt, cells, configs) ==
  Success([rt EXCEPT !.rates = [c \in MeterCells |->
                                  IF c \in cells THEN configs ELSE @[c]]], <<>>)

mt_set_meter_rates(rt, t, h, configs) ==
  IF t \in MeteredTables /\ HasEntry(rt, t, h)
    THEN SetRates(rt, {<<t, h>>}, configs) ELSE Refused(rt)

mt_get_meter_rates(rt, t, h) ==
  IF t \in MeteredTables /\ HasEntry(rt, t, h)
    THEN Success(rt, rt.rates[<<t, h>>]) ELSE Refused(rt)

meter_array_set_rates(rt, name, configs) ==
  IF name \in MeterArrays THEN SetRates(rt, {name} \X Indices, configs) ELSE Refused(rt)

meter_set_rates(rt, name, index, configs) ==
  IF <<name, index>> \in MeterArrays \X Indices
    THEN SetRates(rt, {<<name, index>>}, configs) ELSE Refused(rt)

meter_get_rates(rt, name, index) ==
  IF <<name, index>> \in MeterArrays \X Indices
    THEN Success(rt, rt.rates[<<name, index>>]) ELSE Refused(rt)

ResetCounts(rt, cells) ==
  Success([rt EXCEPT !.counts = [c \in CounterCells |->
                                   IF c \in cells THEN 0 ELSE @[c]]], <<>>)

mt_read_counters(rt, t, h) ==
  IF t \in CountedTables /\ HasEntry(rt, t, h)
    THEN Success(rt, rt.counts[<<t, h>>]) ELSE Refused(rt)

read_counters(rt, name, index) ==
  IF <<name, index>> \in CounterArrays \X Indices
    THEN Success(rt, rt.counts[<<name, index>>]) ELSE Refused(rt)

mt_reset_counters(rt, t) ==
  IF t \in CountedTables THEN ResetCounts(rt, {t} \X Handles) ELSE Refused(rt)

reset_counters(rt, name) ==
  IF name \in CounterArrays THEN ResetCounts(rt, {name} \X Indices) ELSE Refused(rt)

register_read(rt, name, index) ==
  IF <<name, index>> \in RegisterCells
    THEN Success(rt, rt.registers[<<name, index>>]) ELSE Refused(rt)

register_write(rt, name, index, value) ==
  IF <<name, index>> \in RegisterCells
    THEN Success([rt EXCEPT !.registers[<<name, index>>] = value], <<>>) ELSE Refused(rt)

register_reset(rt, name) ==
  IF name \in RegisterArrays
    THEN Success([rt EXCEPT !.registers = [c \in RegisterCells |->
                                             IF c[1] = name THEN "0" ELSE @[c]]], <<>>)
    ELSE Refused(rt)
=============================================================================
