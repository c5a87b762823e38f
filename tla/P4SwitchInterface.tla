-------------------------- MODULE P4SwitchInterface --------------------------
(***************************************************************************)
(* The control interface of a switch: class P4SwitchInterface of           *)
(* model/p4-switch-interface.cc.  It turns the lines of command files into *)
(* calls of the runtime of bmv2, with the help of what a P4 info file says *)
(* of tables, meters and counters.                                         *)
(*                                                                         *)
(* A line is the sequence of its words, as both parsers split it.  A       *)
(* command is an operator from the interface and the words to the answer:  *)
(* the interface after it, what it printed, and the exception it caught.   *)
(*                                                                         *)
(* m_flowTable and m_meter are indexed without asking whether the name is  *)
(* known, which inserts an entry whose fields have never been assigned:    *)
(* garbage is the value that is found there.                               *)
(***************************************************************************)
EXTENDS BmRuntime, SequencesExt

CONSTANTS
  StrToInt,        \* the number each text stands for
  Extracted(_),    \* what reading an unsigned int from a word gives: the number,
                   \* whether the stream is still good, and what is left of the
                   \* word, "" if nothing is
  FoundTypes,      \* match types that memory never written may hold
  Key(_, _)        \* the keys that a text gives for a match type: none or one

MatchTypes == {"exact", "lpm", "ternary", "valid", "range"}

\* What may be found in memory that was never written: any match type, one
\* that is none, a flag of either value.
Garbage == [matchType : FoundTypes, isDirect : BOOLEAN]

EmptyMap == [name \in {} |-> <<>>]

\* An interface whose switch has just loaded its program.
NewInterface ==
  [m_flowTable |-> EmptyMap, m_meter |-> EmptyMap, m_counter |-> EmptyMap,
   rt |-> Loaded]

Done(sw, value) == [sw |-> sw, error |-> "", value |-> value]
Threw(sw, error) == [sw |-> sw, error |-> error, value |-> <<>>]

\* The answer after a call of the runtime.
Called(sw, call) ==
  IF call.success THEN Done([sw EXCEPT !.rt = call.rt], call.value)
                  ELSE Threw(sw, "NO_SUCCESS")

\* The words of a line from the i-th on.
From(parms, i) == SubSeq(parms, i, Len(parms))

\* map[name] = value of a std::map.
Assigned(map, name, value) ==
  [n \in DOMAIN map \cup {name} |-> IF n = name THEN value ELSE map[n]]

-----------------------------------------------------------------------------
(* A line of the P4 info file.  The variables a line is read into live      *)
(* longer than a line: a word that is missing leaves the one of an earlier *)
(* line in place.                                                          *)

Word(line, i, old) == IF i <= Len(line) THEN line[i] ELSE old

\* The third word of a line is read into isDirect.  A word that is no number
\* gives 0, one that is too large the largest number.
Flag(line, old) == IF Len(line) < 3 THEN old ELSE Extracted(line[3]).number

\* The name behind it is what is left of that word, or else the next one; a
\* stream that has failed gives none.
NameBehindFlag(line, old) ==
  LET flag == Extracted(line[3])
  IN  IF Len(line) < 3 \/ ~flag.good THEN old
      ELSE IF flag.rest # "" THEN flag.rest ELSE Word(line, 4, old)

\* Mutant of ReadElement: the name is read in front of the flag.
ReadElementSwapped(read, line) ==
  LET element == Word(line, 1, read.elementType)
  IN  IF element = "table"
        THEN [read EXCEPT !.elementType = element,
                          !.tableName = Word(line, 2, @),
                          !.matchType = Word(line, 3, @)]
      ELSE IF element \in {"meter", "counter"}
        THEN [read EXCEPT !.elementType = element,
                          !.name[element] = Word(line, 2, @),
                          !.tableName = Word(line, 3, @),
                          !.isDirect = IF Len(line) < 4 THEN @ ELSE Extracted(line[4]).number]
      ELSE [read EXCEPT !.elementType = element]

\* The variables after a line; meterName and counterName are name["meter"]
\* and name["counter"].
ReadElement(read, line) ==
  LET element == Word(line, 1, read.elementType)
  IN  IF element = "table"
        THEN [read EXCEPT !.elementType = element,
                          !.tableName = Word(line, 2, @),
                          !.matchType = Word(line, 3, @)]
      ELSE IF element \in {"meter", "counter"}
        THEN [read EXCEPT !.elementType = element,
                          !.name[element] = Word(line, 2, @),
                          !.isDirect = Flag(line, @),
                          !.tableName = NameBehindFlag(line, @)]
      ELSE [read EXCEPT !.elementType = element]

\* Mutant of WithElement: a match type that is not known is stored as it is.
WithElementUnchecked(sw, read) ==
  LET where == [isDirect |-> read.isDirect = 1, tableName |-> read.tableName]
  IN  CASE read.elementType = "table" ->
             [sw EXCEPT !.m_flowTable = Assigned(@, read.tableName, read.matchType)]
        [] read.elementType = "meter" ->
             [sw EXCEPT !.m_meter = Assigned(@, read.name["meter"], where)]
        [] read.elementType = "counter" ->
             [sw EXCEPT !.m_counter = Assigned(@, read.name["counter"], where)]
        [] OTHER -> sw

\* The interface after the element that has been read.
WithElement(sw, read) ==
  LET where == [isDirect |-> read.isDirect = 1, tableName |-> read.tableName]
  IN  CASE read.elementType = "table" /\ read.matchType \in MatchTypes ->
             [sw EXCEPT !.m_flowTable = Assigned(@, read.tableName, read.matchType)]
        [] read.elementType = "meter" ->
             [sw EXCEPT !.m_meter = Assigned(@, read.name["meter"], where)]
        [] read.elementType = "counter" ->
             [sw EXCEPT !.m_counter = Assigned(@, read.name["counter"], where)]
        [] OTHER -> sw

\* The variables before the first line: isDirect is not initialized.
NothingRead(garbage) ==
  [elementType |-> "", tableName |-> "", matchType |-> "",
   isDirect |-> IF garbage.isDirect THEN 1 ELSE 0,
   name |-> [e \in {"meter", "counter"} |-> ""]]

-----------------------------------------------------------------------------
(* The commands of ParsePopulateFlowTableCommand.                          *)

table_set_default(sw, parms) ==
  IF Len(parms) >= 3
    THEN Called(sw, mt_set_default_action(sw.rt, parms[2], parms[3], From(parms, 4)))
    ELSE Threw(sw, "PARAMETER_NUM_ERROR")

\* The interface once table t has been looked up.
LookedUpTable(sw, t, garbage) ==
  IF t \in DOMAIN sw.m_flowTable THEN sw
  ELSE [sw EXCEPT !.m_flowTable = Assigned(@, t, garbage.matchType)]

\* The last word before the arrow, which is looked for behind the action.
LastKey(parms) ==
  LET arrows == {i \in 4 .. Len(parms) : parms[i] = "=>"}
  IN  IF arrows = {} THEN Len(parms) ELSE Min(arrows) - 1

\* Mutant of table_add: the action parameters start at the arrow.
table_add_with_arrow(sw, parms, garbage) ==
  LET known == LookedUpTable(sw, parms[2], garbage)
      type  == known.m_flowTable[parms[2]]
      last  == LastKey(parms)
      keys  == FlattenSeq([i \in 1 .. last - 3 |-> Key(type, parms[i + 3])])
  IN  Called(known, mt_add_entry(known.rt, parms[2], type, keys, parms[3],
                                 From(parms, last + 1), "0"))

\* The words up to the arrow are keys, the words after it parameters of the
\* action.  Other types than exact and lpm end with a priority.
table_add(sw, parms, garbage) ==
  LET known  == LookedUpTable(sw, parms[2], garbage)
      type   == known.m_flowTable[parms[2]]
      last   == LastKey(parms)
      keys   == FlattenSeq([i \in 1 .. last - 3 |-> Key(type, parms[i + 3])])
      tail   == From(parms, last + 2)
      add(data, priority) ==
        Called(known, mt_add_entry(known.rt, parms[2], type, keys, parms[3],
                                   data, priority))
  IN  CASE type \notin MatchTypes /\ last > 3 -> Threw(known, "MATCH_TYPE_ERROR")
        [] type = "exact" -> add(tail, "0")
        [] type = "lpm"   -> add(tail, "")
        [] OTHER -> add(SubSeq(tail, 1, Len(tail) - 1), parms[Len(parms)])

table_modify(sw, parms) ==
  IF Len(parms) >= 4
    THEN Called(sw, mt_modify_entry(sw.rt, parms[2], StrToInt[parms[4]], parms[3],
                                    From(parms, 5)))
    ELSE Threw(sw, "PARAMETER_NUM_ERROR")

table_delete(sw, parms) ==
  IF Len(parms) = 3
    THEN Called(sw, mt_delete_entry(sw.rt, parms[2], StrToInt[parms[3]]))
    ELSE Threw(sw, "PARAMETER_NUM_ERROR")

table_set_timeout(sw, parms) ==
  IF Len(parms) = 4
    THEN Called(sw, mt_set_entry_ttl(sw.rt, parms[2], StrToInt[parms[3]], parms[4]))
    ELSE Threw(sw, "PARAMETER_NUM_ERROR")

array_set_rates(sw, parms) ==
  IF Len(parms) > 2
    THEN Called(sw, meter_array_set_rates(sw.rt, parms[2], From(parms, 3)))
    ELSE Threw(sw, "PARAMETER_NUM_ERROR")

LookedUpMeter(sw, m, garbage) ==
  IF m \in DOMAIN sw.m_meter THEN sw
  ELSE [sw EXCEPT !.m_meter =
                  Assigned(@, m, [isDirect |-> garbage.isDirect, tableName |-> ""])]

\* Mutant of set_rates: an index of an array is not told from the array.
set_rates_of_array(sw, parms, garbage) ==
  IF Len(parms) > 3
    THEN LET known == LookedUpMeter(sw, parms[2], garbage)
             meter == known.m_meter[parms[2]]
         IN  Called(known,
               IF meter.isDirect
                 THEN mt_set_meter_rates(known.rt, meter.tableName, StrToInt[parms[3]],
                                         From(parms, 4))
                 ELSE meter_array_set_rates(known.rt, parms[2], From(parms, 4)))
    ELSE Threw(sw, "PARAMETER_NUM_ERROR")

set_rates(sw, parms, garbage) ==
  IF Len(parms) > 3
    THEN LET known == LookedUpMeter(sw, parms[2], garbage)
             meter == known.m_meter[parms[2]]
             index == StrToInt[parms[3]]
         IN  Called(known,
               IF meter.isDirect
                 THEN mt_set_meter_rates(known.rt, meter.tableName, index, From(parms, 4))
                 ELSE meter_set_rates(known.rt, parms[2], index, From(parms, 4)))
    ELSE Threw(sw, "PARAMETER_NUM_ERROR")

\* SwitchApi: the number of each command.
g_apiMap ==
  [table_set_default |-> 0, table_num_entries |-> 1, table_clear |-> 2,
   table_add |-> 3, table_set_timeout |-> 4, table_modify |-> 5,
   table_delete |-> 6, meter_array_set_rates |-> 7, meter_set_rates |-> 8,
   meter_get_rates |-> 9, counter_read |-> 10, counter_reset |-> 11,
   register_read |-> 12, register_write |-> 13, register_reset |-> 14,
   table_dump_entry |-> 15, table_dump |-> 16]

\* Looking an unknown name up inserts it with the number 0.
CommandType(name) == IF name \in DOMAIN g_apiMap THEN g_apiMap[name] ELSE 0

ParsePopulateFlowTableCommand(sw, parms, garbage) ==
  LET is(name) == CommandType(parms[1]) = g_apiMap[name]
  IN  CASE parms = <<>>                -> Done(sw, <<>>)
        [] is("table_set_default")     -> table_set_default(sw, parms)
        [] is("table_add")             -> table_add(sw, parms, garbage)
        [] is("table_set_timeout")     -> table_set_timeout(sw, parms)
        [] is("table_modify")          -> table_modify(sw, parms)
        [] is("table_delete")          -> table_delete(sw, parms)
        [] is("meter_array_set_rates") -> array_set_rates(sw, parms)
        [] is("meter_set_rates")       -> set_rates(sw, parms, garbage)
        [] OTHER                       -> Threw(sw, "COMMAND_ERROR")

-----------------------------------------------------------------------------
(* The commands of ParseAttainFlowTableInfoCommand.                        *)

\* A command with exactly n words.
WithWords(sw, parms, n, answer) ==
  IF Len(parms) = n THEN answer ELSE Threw(sw, "PARAMETER_NUM_ERROR")

get_rates(sw, parms) ==
  LET meter == sw.m_meter[parms[2]]
      index == StrToInt[parms[3]]
  IN  IF parms[2] \notin DOMAIN sw.m_meter THEN Threw(sw, "METER_NO_EXIST")
      ELSE Called(sw, IF meter.isDirect
                        THEN mt_get_meter_rates(sw.rt, meter.tableName, index)
                        ELSE meter_get_rates(sw.rt, parms[2], index))

counter_read(sw, parms) ==
  LET counter == sw.m_counter[parms[2]]
      index   == StrToInt[parms[3]]
  IN  IF parms[2] \notin DOMAIN sw.m_counter THEN Threw(sw, "COUNTER_NO_EXIST")
      ELSE Called(sw, IF counter.isDirect
                        THEN mt_read_counters(sw.rt, counter.tableName, index)
                        ELSE read_counters(sw.rt, parms[2], index))

\* Mutant of counter_reset: a counter that names a table is taken for direct.
counter_reset_of_table(sw, parms) ==
  LET counter == sw.m_counter[parms[2]]
  IN  IF parms[2] \notin DOMAIN sw.m_counter THEN Threw(sw, "COUNTER_NO_EXIST")
      ELSE Called(sw, IF counter.tableName # ""
                        THEN mt_reset_counters(sw.rt, counter.tableName)
                        ELSE reset_counters(sw.rt, parms[2]))

counter_reset(sw, parms) ==
  LET counter == sw.m_counter[parms[2]]
  IN  IF parms[2] \notin DOMAIN sw.m_counter THEN Threw(sw, "COUNTER_NO_EXIST")
      ELSE Called(sw, IF counter.isDirect
                        THEN mt_reset_counters(sw.rt, counter.tableName)
                        ELSE reset_counters(sw.rt, parms[2]))

ParseAttainFlowTableInfoCommand(sw, parms) ==
  LET is(name) == CommandType(parms[1]) = g_apiMap[name]
      index    == StrToInt[parms[3]]
      words(n, answer) == WithWords(sw, parms, n, answer)
  IN  CASE parms = <<>> -> Done(sw, <<>>)
        [] is("table_num_entries") -> words(2, Called(sw, mt_get_num_entries(sw.rt, parms[2])))
        [] is("table_clear")       -> words(2, Called(sw, mt_clear_entries(sw.rt, parms[2])))
        [] is("meter_get_rates")   -> words(3, get_rates(sw, parms))
        [] is("counter_read")      -> words(3, counter_read(sw, parms))
        [] is("counter_reset")     -> words(2, counter_reset(sw, parms))
        [] is("register_read")     -> words(3, Called(sw, register_read(sw.rt, parms[2], index)))
        [] is("register_write")    ->
             words(4, Called(sw, register_write(sw.rt, parms[2], index, parms[4])))
        [] is("register_reset")    -> words(2, Called(sw, register_reset(sw.rt, parms[2])))
        [] is("table_dump_entry")  -> words(3, Called(sw, mt_get_entry(sw.rt, parms[2], index)))
        [] is("table_dump")        -> words(2, Done(sw, mt_get_entries(sw.rt, parms[2])))
        [] OTHER                   -> Threw(sw, "COMMAND_ERROR")
=============================================================================
