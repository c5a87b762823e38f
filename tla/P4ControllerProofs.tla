-------------------------- MODULE P4ControllerProofs --------------------------
(***************************************************************************)
(* Proofs about the control interface, for every P4 program, every set of  *)
(* commands and files, and any number of switches.                         *)
(***************************************************************************)
EXTENDS P4Controller, SequenceTheorems, LoopTheorems

-----------------------------------------------------------------------------
(* The runtime.                                                            *)

\* The shape of a runtime, with what TypeOK says of it.
IsRuntime(rt) ==
  /\ DOMAIN rt = {"entries", "default_action", "rates", "counts", "registers"}
  /\ DOMAIN rt.entries = Tables
  /\ \A t \in Tables : DOMAIN rt.entries[t] \subseteq Handles
  /\ DOMAIN rt.rates = MeterCells
  /\ rt.counts \in [CounterCells -> 0 .. MaxCount]

\* A program that has just been loaded is one.
LEMMA LoadedIsRuntime == IsRuntime(Loaded)
  BY P4ControllerAssumption DEF IsRuntime, Loaded

\* The handle the runtime chooses among the free ones is a free one.
LEMMA HandleIsFree ==
  ASSUME NEW rt, NEW t, Handles \ DOMAIN rt.entries[t] # {}
  PROVE  LET free == Handles \ DOMAIN rt.entries[t]
         IN  (CHOOSE h \in free : \A g \in free : h <= g) \in free
<1> DEFINE free == Handles \ DOMAIN rt.entries[t]
<1>1. free \subseteq Nat
  BY P4ControllerAssumption DEF Handles
<1>2. \E h \in free : \A g \in free : h <= g
  BY <1>1, LeastNatural
<1> QED
  BY <1>2

\* What adding an entry does to the entries of its table.
LEMMA AddEntryAdds ==
  ASSUME NEW rt, IsRuntime(rt), NEW t, NEW type, NEW key, NEW action, NEW data, NEW priority,
         mt_add_entry(rt, t, type, key, action, data, priority).success
  PROVE  LET old == rt.entries[t]
             new == mt_add_entry(rt, t, type, key, action, data, priority).rt.entries[t]
         IN  /\ t \in Tables /\ Len(key) = 1
             /\ \A h \in DOMAIN old : new[h] = old[h]
             /\ \E h \in DOMAIN new \ DOMAIN old :
                  new[h] = [key |-> key, action |-> action, data |-> data,
                            priority |-> priority, ttl |-> "0"]
<1> DEFINE free == Handles \ DOMAIN rt.entries[t]
           handle == CHOOSE h \in free : \A g \in free : h <= g
           entry == [key |-> key, action |-> action, data |-> data,
                     priority |-> priority, ttl |-> "0"]
           new == [h \in DOMAIN rt.entries[t] \cup {handle} |->
                     IF h = handle THEN entry ELSE rt.entries[t][h]]
<1>1. t \in Tables /\ Len(key) = 1 /\ free # {}
  BY DEF mt_add_entry, Refused
<1>2. handle \in free
  BY <1>1, HandleIsFree
<1> DEFINE counts == [c \in CounterCells |-> IF c = <<t, handle>> THEN 0 ELSE rt.counts[c]]
           after == [rt EXCEPT !.entries[t] = new, !.counts = counts]
<1>3. mt_add_entry(rt, t, type, key, action, data, priority).rt = after
  BY <1>1 DEF mt_add_entry, Refused, Success
<1>4. after.entries[t] = new
  <2> HIDE DEF new, counts
  <2> QED
    BY <1>1 DEF IsRuntime
<1> HIDE DEF after, entry
<1>5. /\ DOMAIN new = DOMAIN rt.entries[t] \cup {handle}
      /\ new[handle] = entry
      /\ \A h \in DOMAIN rt.entries[t] : new[h] = rt.entries[t][h]
  <2> HIDE DEF handle
  <2> QED
    BY <1>2
<1> HIDE DEF new, handle
<1> QED
  BY <1>1, <1>2, <1>3, <1>4, <1>5 DEF entry

LEMMA AddEntryKeeps ==
  ASSUME NEW rt, IsRuntime(rt), NEW t, NEW type, NEW key, NEW action, NEW data, NEW priority
  PROVE  IsRuntime(mt_add_entry(rt, t, type, key, action, data, priority).rt)
<1> DEFINE free == Handles \ DOMAIN rt.entries[t]
           handle == CHOOSE h \in free : \A g \in free : h <= g
           call == mt_add_entry(rt, t, type, key, action, data, priority)
<1>1. CASE call.success
  <2>1. t \in Tables /\ free # {}
    BY <1>1 DEF mt_add_entry, Refused
  <2>2. handle \in Handles
    BY <2>1, HandleIsFree
  <2>3. DOMAIN call.rt.entries[t] = DOMAIN rt.entries[t] \cup {handle}
    BY <1>1, <2>1 DEF mt_add_entry, Refused, Success, IsRuntime
  <2>4. /\ DOMAIN call.rt = DOMAIN rt
        /\ DOMAIN call.rt.entries = Tables
        /\ \A u \in Tables : u # t => call.rt.entries[u] = rt.entries[u]
        /\ call.rt.rates = rt.rates
    BY <1>1, <2>1 DEF mt_add_entry, Refused, Success, IsRuntime
  <2>5. call.rt.counts = [c \in CounterCells |-> IF c = <<t, handle>> THEN 0 ELSE rt.counts[c]]
    BY <1>1, <2>1 DEF mt_add_entry, Refused, Success, IsRuntime
  <2>6. call.rt.counts \in [CounterCells -> 0 .. MaxCount]
    BY <2>5, P4ControllerAssumption DEF IsRuntime
  <2> QED
    BY <2>2, <2>3, <2>4, <2>6 DEF IsRuntime
<1>2. CASE ~call.success
  BY <1>2 DEF mt_add_entry, Success, Refused
<1> QED
  BY <1>1, <1>2

LEMMA SetDefaultKeeps ==
  ASSUME NEW rt, IsRuntime(rt), NEW t, NEW action, NEW data
  PROVE  IsRuntime(mt_set_default_action(rt, t, action, data).rt)
  BY DEF IsRuntime, mt_set_default_action, Success, Refused

LEMMA ModifyEntryKeeps ==
  ASSUME NEW rt, IsRuntime(rt), NEW t, NEW h, NEW action, NEW data
  PROVE  IsRuntime(mt_modify_entry(rt, t, h, action, data).rt)
  BY DEF IsRuntime, mt_modify_entry, Success, Refused, HasEntry

LEMMA SetTtlKeeps ==
  ASSUME NEW rt, IsRuntime(rt), NEW t, NEW h, NEW ttl
  PROVE  IsRuntime(mt_set_entry_ttl(rt, t, h, ttl).rt)
  BY DEF IsRuntime, mt_set_entry_ttl, Success, Refused, HasEntry

LEMMA WithoutEntriesKeeps ==
  ASSUME NEW rt, IsRuntime(rt), NEW t \in Tables, NEW gone
  PROVE  IsRuntime(WithoutEntries(rt, t, gone))
  BY DEF IsRuntime, WithoutEntries

LEMMA SetRatesKeeps ==
  ASSUME NEW rt, IsRuntime(rt), NEW cells, NEW configs
  PROVE  IsRuntime(SetRates(rt, cells, configs).rt)
  BY DEF IsRuntime, SetRates, Success

LEMMA ResetCountsKeeps ==
  ASSUME NEW rt, IsRuntime(rt), NEW cells
  PROVE  IsRuntime(ResetCounts(rt, cells).rt)
  BY P4ControllerAssumption DEF IsRuntime, ResetCounts, Success

-----------------------------------------------------------------------------
(* The interface.                                                          *)

\* The shape of an interface, with what TypeOK says of it.
IsInterface(sw) ==
  /\ DOMAIN sw = {"m_flowTable", "m_meter", "m_counter", "rt"}
  /\ \A t \in DOMAIN sw.m_flowTable : sw.m_flowTable[t] \in MatchTypes \cup {"other"}
  /\ \A m \in DOMAIN sw.m_meter : sw.m_meter[m].isDirect \in BOOLEAN
  /\ \A c \in DOMAIN sw.m_counter : sw.m_counter[c].isDirect \in BOOLEAN
  /\ IsRuntime(sw.rt)

\* What an interface believes, the later one believes as well.
Believes(later, sw) ==
  /\ \A t \in DOMAIN sw.m_flowTable :
       t \in DOMAIN later.m_flowTable /\ later.m_flowTable[t] = sw.m_flowTable[t]
  /\ \A m \in DOMAIN sw.m_meter :
       m \in DOMAIN later.m_meter /\ later.m_meter[m] = sw.m_meter[m]
  /\ later.m_counter = sw.m_counter

LEMMA NewIsInterface == IsInterface(NewInterface)
  BY LoadedIsRuntime DEF IsInterface, NewInterface, EmptyMap

\* A command that does nothing but call the runtime.
LEMMA CalledKeeps ==
  ASSUME NEW sw, IsInterface(sw), NEW call, IsRuntime(call.rt)
  PROVE  /\ IsInterface(Called(sw, call).sw)
         /\ Believes(Called(sw, call).sw, sw)
  BY DEF IsInterface, Called, Done, Threw, Believes

LEMMA ThrewKeeps ==
  ASSUME NEW sw, IsInterface(sw), NEW error
  PROVE  IsInterface(Threw(sw, error).sw) /\ Believes(Threw(sw, error).sw, sw)
  BY DEF Threw, Believes

LEMMA DoneKeeps ==
  ASSUME NEW sw, IsInterface(sw), NEW value
  PROVE  IsInterface(Done(sw, value).sw) /\ Believes(Done(sw, value).sw, sw)
  BY DEF Done, Believes

\* Looking a name up adds it at most, and changes nothing else.
LEMMA LookedUpTableKeeps ==
  ASSUME NEW sw, IsInterface(sw), NEW t, NEW garbage \in Garbage
  PROVE  /\ IsInterface(LookedUpTable(sw, t, garbage))
         /\ Believes(LookedUpTable(sw, t, garbage), sw)
         /\ LookedUpTable(sw, t, garbage).rt = sw.rt
         /\ t \in DOMAIN LookedUpTable(sw, t, garbage).m_flowTable
<1>1. garbage.matchType \in MatchTypes \cup {"other"}
  BY P4ControllerAssumption DEF Garbage
<1> QED
  BY <1>1 DEF LookedUpTable, Assigned, IsInterface, Believes

LEMMA LookedUpMeterKeeps ==
  ASSUME NEW sw, IsInterface(sw), NEW m, NEW garbage \in Garbage
  PROVE  /\ IsInterface(LookedUpMeter(sw, m, garbage))
         /\ Believes(LookedUpMeter(sw, m, garbage), sw)
         /\ LookedUpMeter(sw, m, garbage).rt = sw.rt
         /\ m \in DOMAIN LookedUpMeter(sw, m, garbage).m_meter
<1>1. garbage.isDirect \in BOOLEAN
  BY DEF Garbage
<1> QED
  BY <1>1 DEF LookedUpMeter, Assigned, IsInterface, Believes

\* What two steps keep one after the other is kept.
LEMMA BelievesLater ==
  ASSUME NEW sw, NEW known, NEW later, Believes(known, sw), Believes(later, known)
  PROVE  Believes(later, sw)
  BY DEF Believes

\* Every runtime call that a command makes leaves a runtime.
LEMMA CallsKeep ==
  ASSUME NEW rt, IsRuntime(rt)
  PROVE  /\ \A t, action, data : IsRuntime(mt_set_default_action(rt, t, action, data).rt)
         /\ \A t, h, action, data : IsRuntime(mt_modify_entry(rt, t, h, action, data).rt)
         /\ \A t, h, ttl : IsRuntime(mt_set_entry_ttl(rt, t, h, ttl).rt)
         /\ \A t, h : IsRuntime(mt_delete_entry(rt, t, h).rt)
         /\ \A t : IsRuntime(mt_clear_entries(rt, t).rt)
         /\ \A t, h, configs : IsRuntime(mt_set_meter_rates(rt, t, h, configs).rt)
         /\ \A name, configs : IsRuntime(meter_array_set_rates(rt, name, configs).rt)
         /\ \A name, index, configs : IsRuntime(meter_set_rates(rt, name, index, configs).rt)
         /\ \A t : IsRuntime(mt_reset_counters(rt, t).rt)
         /\ \A name : IsRuntime(reset_counters(rt, name).rt)
         /\ \A name, index, value : IsRuntime(register_write(rt, name, index, value).rt)
         /\ \A name : IsRuntime(register_reset(rt, name).rt)
<1>1. \A value : IsRuntime(Success(rt, value).rt) /\ IsRuntime(Refused(rt).rt)
  BY DEF Success, Refused
<1>2. \A t, h : IsRuntime(mt_delete_entry(rt, t, h).rt)
  BY <1>1, WithoutEntriesKeeps DEF mt_delete_entry, HasEntry, Success
<1>3. \A t : IsRuntime(mt_clear_entries(rt, t).rt)
  BY <1>1, WithoutEntriesKeeps DEF mt_clear_entries, Success
<1>4. \A t, h, configs : IsRuntime(mt_set_meter_rates(rt, t, h, configs).rt)
  BY <1>1, SetRatesKeeps DEF mt_set_meter_rates
<1>5. \A name, configs : IsRuntime(meter_array_set_rates(rt, name, configs).rt)
  BY <1>1, SetRatesKeeps DEF meter_array_set_rates
<1>6. \A name, index, configs : IsRuntime(meter_set_rates(rt, name, index, configs).rt)
  BY <1>1, SetRatesKeeps DEF meter_set_rates
<1>7. /\ \A t : IsRuntime(mt_reset_counters(rt, t).rt)
      /\ \A name : IsRuntime(reset_counters(rt, name).rt)
  BY <1>1, ResetCountsKeeps DEF mt_reset_counters, reset_counters
<1>8. \A name, index, value : IsRuntime(register_write(rt, name, index, value).rt)
  BY DEF register_write, Success, Refused, IsRuntime
<1>9. \A name : IsRuntime(register_reset(rt, name).rt)
  BY DEF register_reset, Success, Refused, IsRuntime
<1> QED
  BY <1>2, <1>3, <1>4, <1>5, <1>6, <1>7, <1>8, <1>9,
     SetDefaultKeeps, ModifyEntryKeeps, SetTtlKeeps

\* Those that only read return the runtime they were given.
LEMMA ReadsKeep ==
  ASSUME NEW rt
  PROVE  /\ \A t : mt_get_num_entries(rt, t).rt = rt
         /\ \A t, h : mt_get_entry(rt, t, h).rt = rt
         /\ \A t, h : mt_get_meter_rates(rt, t, h).rt = rt
         /\ \A name, index : meter_get_rates(rt, name, index).rt = rt
         /\ \A t, h : mt_read_counters(rt, t, h).rt = rt
         /\ \A name, index : read_counters(rt, name, index).rt = rt
         /\ \A name, index : register_read(rt, name, index).rt = rt
  BY DEF mt_get_num_entries, mt_get_entry, mt_get_meter_rates, meter_get_rates,
         mt_read_counters, read_counters, register_read, Success, Refused

\* The commands of the first parser, one by one.
LEMMA SimpleCommandsKeep ==
  ASSUME NEW sw, IsInterface(sw), NEW parms
  PROVE  \A answer \in {table_set_default(sw, parms), table_modify(sw, parms),
                         table_delete(sw, parms), table_set_timeout(sw, parms),
                         array_set_rates(sw, parms)} :
           IsInterface(answer.sw) /\ Believes(answer.sw, sw)
<1>1. IsRuntime(sw.rt)
  BY DEF IsInterface
<1> DEFINE keeps(answer) == IsInterface(answer.sw) /\ Believes(answer.sw, sw)
<1>2. keeps(table_set_default(sw, parms))
  BY <1>1, CallsKeep, CalledKeeps, ThrewKeeps DEF table_set_default
<1>3. keeps(table_modify(sw, parms))
  BY <1>1, CallsKeep, CalledKeeps, ThrewKeeps DEF table_modify
<1>4. keeps(table_delete(sw, parms))
  BY <1>1, CallsKeep, CalledKeeps, ThrewKeeps DEF table_delete
<1>5. keeps(table_set_timeout(sw, parms))
  BY <1>1, CallsKeep, CalledKeeps, ThrewKeeps DEF table_set_timeout
<1>6. keeps(array_set_rates(sw, parms))
  BY <1>1, CallsKeep, CalledKeeps, ThrewKeeps DEF array_set_rates
<1> QED
  BY <1>2, <1>3, <1>4, <1>5, <1>6

LEMMA TableAddKeeps ==
  ASSUME NEW sw, IsInterface(sw), NEW parms, NEW garbage \in Garbage
  PROVE  /\ IsInterface(table_add(sw, parms, garbage).sw)
         /\ Believes(table_add(sw, parms, garbage).sw, sw)
<1> DEFINE known == LookedUpTable(sw, parms[2], garbage)
<1>1. IsInterface(known) /\ Believes(known, sw) /\ IsRuntime(known.rt)
  BY LookedUpTableKeeps DEF IsInterface
<1>2. \A keys, type, data, priority :
        LET answer == Called(known, mt_add_entry(known.rt, parms[2], type, keys, parms[3], data, priority))
        IN  IsInterface(answer.sw) /\ Believes(answer.sw, known)
  BY <1>1, AddEntryKeeps, CalledKeeps
<1>3. \A error : IsInterface(Threw(known, error).sw) /\ Believes(Threw(known, error).sw, known)
  BY <1>1, ThrewKeeps
<1> DEFINE type == known.m_flowTable[parms[2]]
           last == LastKey(parms)
           keys == FlattenSeq([i \in 1 .. last - 3 |-> Key(type, parms[i + 3])])
           tail == From(parms, last + 2)
           add(data, priority) ==
             Called(known, mt_add_entry(known.rt, parms[2], type, keys, parms[3], data, priority))
<1>4. table_add(sw, parms, garbage) \in
        {Threw(known, "MATCH_TYPE_ERROR"), add(tail, "0"), add(tail, ""),
         add(SubSeq(tail, 1, Len(tail) - 1), parms[Len(parms)])}
  BY DEF table_add
<1> QED
  BY <1>1, <1>2, <1>3, <1>4, BelievesLater

LEMMA SetRatesCommandKeeps ==
  ASSUME NEW sw, IsInterface(sw), NEW parms, NEW garbage \in Garbage
  PROVE  /\ IsInterface(set_rates(sw, parms, garbage).sw)
         /\ Believes(set_rates(sw, parms, garbage).sw, sw)
<1> DEFINE known == LookedUpMeter(sw, parms[2], garbage)
<1>1. IsInterface(known) /\ Believes(known, sw) /\ IsRuntime(known.rt)
  BY LookedUpMeterKeeps DEF IsInterface
<1>2. \/ set_rates(sw, parms, garbage) = Threw(sw, "PARAMETER_NUM_ERROR")
      \/ \E t, h, configs :
           set_rates(sw, parms, garbage) = Called(known, mt_set_meter_rates(known.rt, t, h, configs))
      \/ \E name, index, configs :
           set_rates(sw, parms, garbage) = Called(known, meter_set_rates(known.rt, name, index, configs))
  BY DEF set_rates
<1>3. \A t, h, configs :
        LET answer == Called(known, mt_set_meter_rates(known.rt, t, h, configs))
        IN  IsInterface(answer.sw) /\ Believes(answer.sw, known)
  BY <1>1, CallsKeep, CalledKeeps
<1>4. \A name, index, configs :
        LET answer == Called(known, meter_set_rates(known.rt, name, index, configs))
        IN  IsInterface(answer.sw) /\ Believes(answer.sw, known)
  BY <1>1, CallsKeep, CalledKeeps
<1> QED
  BY <1>1, <1>2, <1>3, <1>4, BelievesLater, ThrewKeeps

\* Whatever line the first parser is given, an interface stays one and keeps
\* what it believed.
LEMMA PopulateKeeps ==
  ASSUME NEW sw, IsInterface(sw), NEW parms, NEW garbage \in Garbage
  PROVE  LET answer == ParsePopulateFlowTableCommand(sw, parms, garbage)
         IN  IsInterface(answer.sw) /\ Believes(answer.sw, sw)
<1> DEFINE answer == ParsePopulateFlowTableCommand(sw, parms, garbage)
<1>1. \/ answer = Done(sw, <<>>)
      \/ answer \in {table_set_default(sw, parms), table_modify(sw, parms),
                     table_delete(sw, parms), table_set_timeout(sw, parms),
                     array_set_rates(sw, parms)}
      \/ answer = table_add(sw, parms, garbage)
      \/ answer = set_rates(sw, parms, garbage)
      \/ answer = Threw(sw, "COMMAND_ERROR")
  BY DEF ParsePopulateFlowTableCommand
<1> HIDE DEF answer
<1> QED
  BY <1>1, DoneKeeps, SimpleCommandsKeep, TableAddKeeps, SetRatesCommandKeeps, ThrewKeeps DEF answer

\* The same of the second parser.
LEMMA AttainKeeps ==
  ASSUME NEW sw, IsInterface(sw), NEW parms
  PROVE  LET answer == ParseAttainFlowTableInfoCommand(sw, parms)
         IN  IsInterface(answer.sw) /\ Believes(answer.sw, sw)
<1> DEFINE answer == ParseAttainFlowTableInfoCommand(sw, parms)
           calledBy(a) == \E call : a = Called(sw, call) /\ IsRuntime(call.rt)
           threwBy(a)  == \E error : a = Threw(sw, error)
           fine(a)     == calledBy(a) \/ threwBy(a) \/ \E value : a = Done(sw, value)
<1>1. IsRuntime(sw.rt)
  BY DEF IsInterface
<1>2. \A call : IsRuntime(call.rt) => fine(Called(sw, call))
  OBVIOUS
<1>3. \A n, a : fine(a) => fine(WithWords(sw, parms, n, a))
  BY DEF WithWords
<1>4. fine(get_rates(sw, parms)) /\ fine(counter_read(sw, parms)) /\ fine(counter_reset(sw, parms))
  BY <1>1, CallsKeep, ReadsKeep DEF get_rates, counter_read, counter_reset
<1> DEFINE index == StrToInt[parms[3]]
<1>5. /\ fine(Called(sw, mt_get_num_entries(sw.rt, parms[2])))
      /\ fine(Called(sw, mt_clear_entries(sw.rt, parms[2])))
      /\ fine(Called(sw, register_read(sw.rt, parms[2], index)))
      /\ fine(Called(sw, register_write(sw.rt, parms[2], index, parms[4])))
      /\ fine(Called(sw, register_reset(sw.rt, parms[2])))
      /\ fine(Called(sw, mt_get_entry(sw.rt, parms[2], index)))
      /\ fine(Done(sw, mt_get_entries(sw.rt, parms[2])))
  <2>1. /\ fine(Called(sw, mt_get_num_entries(sw.rt, parms[2])))
        /\ fine(Called(sw, register_read(sw.rt, parms[2], index)))
        /\ fine(Called(sw, mt_get_entry(sw.rt, parms[2], index)))
    BY <1>1, <1>2, ReadsKeep
  <2>2. /\ fine(Called(sw, mt_clear_entries(sw.rt, parms[2])))
        /\ fine(Called(sw, register_write(sw.rt, parms[2], index, parms[4])))
        /\ fine(Called(sw, register_reset(sw.rt, parms[2])))
    BY <1>1, <1>2, CallsKeep
  <2>3. fine(Done(sw, mt_get_entries(sw.rt, parms[2])))
    OBVIOUS
  <2> QED
    BY <2>1, <2>2, <2>3
<1>6. fine(Done(sw, <<>>)) /\ fine(Threw(sw, "COMMAND_ERROR"))
  OBVIOUS
<1>7. fine(answer)
  <2> HIDE DEF fine
  <2> QED
    BY <1>3, <1>4, <1>5, <1>6 DEF ParseAttainFlowTableInfoCommand
<1>8. \A a : fine(a) => IsInterface(a.sw) /\ Believes(a.sw, sw)
  BY CalledKeeps, ThrewKeeps, DoneKeeps
<1> QED
  BY <1>7, <1>8

\* A line of the info file leaves an interface.
LEMMA WithElementKeeps ==
  ASSUME NEW sw, IsInterface(sw), NEW element
  PROVE  IsInterface(WithElement(sw, element))
  BY DEF WithElement, Assigned, IsInterface

-----------------------------------------------------------------------------
(* Sequences.                                                              *)

LEMMA SequenceIsOne ==
  ASSUME NEW S, NEW s \in Seq(S)
  PROVE  IsSequence(s)
<1>1. s \in [1 .. Len(s) -> Range(s)]
  BY DEF Range
<1> QED
  BY <1>1 DEF IsSequence

\* Replacing an element, and adding one.
LEMMA ReplacedInSequence ==
  ASSUME NEW s, IsSequence(s), NEW i \in DOMAIN s, NEW x
  PROVE  /\ IsSequence([s EXCEPT ![i] = x])
         /\ DOMAIN [s EXCEPT ![i] = x] = DOMAIN s
         /\ Len([s EXCEPT ![i] = x]) = Len(s)
         /\ [s EXCEPT ![i] = x][i] = x
         /\ \A j \in DOMAIN s : j # i => [s EXCEPT ![i] = x][j] = s[j]
<1> DEFINE t == [s EXCEPT ![i] = x]
           S == Range(s) \cup {x}
<1>1. s \in Seq(S) /\ x \in S
  BY DEF IsSequence
<1> HIDE DEF S
<1>2. t \in Seq(S) /\ Len(t) = Len(s) /\ DOMAIN t = DOMAIN s
  <2>1. i \in 1 .. Len(s)
    BY <1>1
  <2>2. t \in Seq(S) /\ Len(t) = Len(s)
    BY <1>1, <2>1, ExceptSeq
  <2>3. DOMAIN t = DOMAIN s
    OBVIOUS
  <2> QED
    BY <2>2, <2>3
<1>3. IsSequence(t)
  BY <1>2, SequenceIsOne
<1> QED
  BY <1>2, <1>3

LEMMA AppendedToSequence ==
  ASSUME NEW s, IsSequence(s), NEW x
  PROVE  /\ IsSequence(Append(s, x))
         /\ Len(Append(s, x)) = Len(s) + 1
         /\ DOMAIN Append(s, x) = DOMAIN s \cup {Len(s) + 1}
         /\ Append(s, x)[Len(s) + 1] = x
         /\ \A j \in DOMAIN s : Append(s, x)[j] = s[j]
<1> DEFINE t == Append(s, x)
<1>1. s \in Seq(Range(s) \cup {x})
  BY DEF IsSequence
<1>2. t \in Seq(Range(s) \cup {x}) /\ Len(t) = Len(s) + 1 /\ DOMAIN t = 1 .. Len(s) + 1
  BY <1>1
<1>3. IsSequence(t)
  BY <1>2, SequenceIsOne
<1> QED
  BY <1>1, <1>2, <1>3

-----------------------------------------------------------------------------
(* The controller.                                                         *)

FileReaders == {"ReadP4Info", "PopulateFlowTable", "AttainSwitchFlowTableInfo"}

KnownPaths == DOMAIN Files \cup {g_flowTablePath, g_viewFlowTablePath, m_p4InfoPath}

PathRecords == [flowTable : KnownPaths, view : KnownPaths]

CallRecords == [function : FileReaders, at : Nat, path : KnownPaths, lines : Nat]

\* The calls of functions that read files: of interfaces that exist, never past
\* the end of the file, and the info file first.
CallsInv ==
  /\ calls \in Seq(CallRecords)
  /\ \A k \in DOMAIN calls :
       /\ calls[k].at \in Switches
       /\ calls[k].lines <= Len(Lines(calls[k].path))
       /\ calls[k].function = "ReadP4Info" => k = 1 /\ calls[k].path = m_p4InfoPath

SwitchesInv ==
  /\ IsSequence(m_p4Switches)
  /\ \A i \in Switches : IsInterface(m_p4Switches[i])

\* The inductive invariant behind TypeOK.
ControlInv ==
  /\ way \in Ways /\ running \in BOOLEAN
  /\ SwitchesInv
  /\ paths \in Seq(PathRecords)
  /\ Len(paths) = Len(m_p4Switches)
  /\ CallsInv

\* The step changes interface i at most, which keeps what it believes.
ChangesOne(i) ==
  \E sw : /\ IsInterface(sw) /\ Believes(sw, m_p4Switches[i])
          /\ m_p4Switches' = [m_p4Switches EXCEPT ![i] = sw]

LEMMA LinesAreSequences ==
  ASSUME NEW path
  PROVE  /\ IsSequence(Lines(path))
         /\ Len(Lines(path)) \in Nat
         /\ \A k \in 1 .. Len(Lines(path)) : IsSequence(Lines(path)[k])
<1>1. CASE path \in DOMAIN Files
  BY <1>1, P4ControllerAssumption DEF Lines, IsSequence, Range
<1>2. CASE path \notin DOMAIN Files
  BY <1>2 DEF Lines, IsSequence, Range
<1> QED
  BY <1>1, <1>2

\* A step that changes one interface so leaves interfaces, and keeps all
\* beliefs.
LEMMA OneChangedKeeps ==
  ASSUME SwitchesInv, NEW i \in Switches, ChangesOne(i)
  PROVE  /\ SwitchesInv'
         /\ Switches' = Switches
         /\ Len(m_p4Switches') = Len(m_p4Switches)
         /\ \A j \in Switches : Believes(m_p4Switches'[j], m_p4Switches[j])
<1> PICK sw : /\ IsInterface(sw) /\ Believes(sw, m_p4Switches[i])
              /\ m_p4Switches' = [m_p4Switches EXCEPT ![i] = sw]
  BY DEF ChangesOne
<1>1. /\ IsSequence(m_p4Switches')
      /\ DOMAIN m_p4Switches' = DOMAIN m_p4Switches
      /\ Len(m_p4Switches') = Len(m_p4Switches)
      /\ m_p4Switches'[i] = sw
      /\ \A j \in DOMAIN m_p4Switches : j # i => m_p4Switches'[j] = m_p4Switches[j]
  BY ReplacedInSequence DEF SwitchesInv, Switches
<1>2. \A j \in Switches : Believes(m_p4Switches[j], m_p4Switches[j])
  BY DEF Believes
<1> QED
  BY <1>1, <1>2 DEF SwitchesInv, Switches

\* The steps that execute one command change one interface so.
LEMMA PopulateChangesOne ==
  ASSUME SwitchesInv, NEW i \in Switches, NEW parms, NEW garbage \in Garbage,
         m_p4Switches' = [m_p4Switches EXCEPT
                            ![i] = ParsePopulateFlowTableCommand(@, parms, garbage).sw]
  PROVE  ChangesOne(i)
<1> DEFINE sw == ParsePopulateFlowTableCommand(m_p4Switches[i], parms, garbage).sw
<1>1. IsInterface(sw) /\ Believes(sw, m_p4Switches[i])
  BY PopulateKeeps DEF SwitchesInv
<1> QED
  BY <1>1 DEF ChangesOne

LEMMA AttainChangesOne ==
  ASSUME SwitchesInv, NEW i \in Switches, NEW parms,
         m_p4Switches' = [m_p4Switches EXCEPT
                            ![i] = ParseAttainFlowTableInfoCommand(@, parms).sw]
  PROVE  ChangesOne(i)
<1> DEFINE sw == ParseAttainFlowTableInfoCommand(m_p4Switches[i], parms).sw
<1>1. IsInterface(sw) /\ Believes(sw, m_p4Switches[i])
  BY AttainKeeps DEF SwitchesInv
<1> QED
  BY <1>1 DEF ChangesOne

\* A packet that is counted or writes a register.
LEMMA CountChangesOne ==
  ASSUME SwitchesInv, NEW i \in Switches, count(i)
  PROVE  ChangesOne(i)
<1> PICK c \in HitCells(m_p4Switches[i].rt) :
           m_p4Switches' = [m_p4Switches EXCEPT ![i].rt.counts[c] = @ + 1]
  BY DEF count
<1> DEFINE old == m_p4Switches[i]
           sw  == [old EXCEPT !.rt.counts[c] = @ + 1]
<1>1. IsInterface(old)
  BY DEF SwitchesInv
<1>2. c \in CounterCells /\ old.rt.counts[c] < MaxCount
  BY DEF HitCells
<1> HIDE DEF old
<1>3. IsRuntime([old.rt EXCEPT !.counts[c] = @ + 1])
  BY <1>1, <1>2, P4ControllerAssumption DEF IsInterface, IsRuntime
<1>4. IsInterface(sw) /\ Believes(sw, old)
  BY <1>1, <1>3 DEF IsInterface, Believes
<1> QED
  BY <1>4 DEF ChangesOne, old

LEMMA RegisterWriteChangesOne ==
  ASSUME SwitchesInv, NEW i \in Switches, NEW c \in RegisterCells, NEW value,
         register_write_primitive(i, c, value)
  PROVE  ChangesOne(i)
<1> DEFINE old == m_p4Switches[i]
           sw  == [old EXCEPT !.rt.registers[c] = value]
<1>1. IsInterface(old)
  BY DEF SwitchesInv
<1>2. m_p4Switches' = [m_p4Switches EXCEPT ![i] = sw]
  BY DEF register_write_primitive
<1> HIDE DEF old
<1>3. IsRuntime([old.rt EXCEPT !.registers[c] = value])
  BY <1>1 DEF IsInterface, IsRuntime
<1>4. IsInterface(sw) /\ Believes(sw, old)
  BY <1>1, <1>3 DEF IsInterface, Believes
<1> QED
  BY <1>2, <1>4 DEF ChangesOne, old

-----------------------------------------------------------------------------
(* The invariant.                                                          *)

LEMMA InitEstablishes == Init => ControlInv
  BY DEF Init, ControlInv, SwitchesInv, CallsInv, Switches, IsSequence, Range

\* Steps that change one interface and read no file.
LEMMA CommandsPreserve ==
  ASSUME ControlInv, NEW i \in Switches, ChangesOne(i),
         UNCHANGED <<way, running, paths, calls>>
  PROVE  ControlInv'
<1>1. SwitchesInv' /\ Switches' = Switches /\ Len(m_p4Switches') = Len(m_p4Switches)
  BY OneChangedKeeps DEF ControlInv
<1>2. CallsInv'
  BY <1>1 DEF ControlInv, CallsInv
<1> QED
  BY <1>1, <1>2 DEF ControlInv

\* The call at work has read a line more.
LEMMA LineMore ==
  ASSUME NEW c \in CallRecords
  PROVE  LET next == [c EXCEPT !.lines = @ + 1]
         IN  /\ next \in CallRecords /\ next.lines = c.lines + 1
             /\ next.at = c.at /\ next.path = c.path /\ next.function = c.function
  BY DEF CallRecords

LEMMA ReadLineAdvances ==
  ASSUME CallsInv, NEW function, ReadLine(function), Switches' = Switches
  PROVE  CallsInv' /\ calls[1].at \in Switches /\ IsSequence(Line)
<1> DEFINE n == Len(Lines(calls[1].path))
<1>1. calls \in Seq(CallRecords) /\ calls # <<>> /\ calls[1].lines < n
  BY DEF CallsInv, ReadLine
<1> HIDE DEF n
<1>2. 1 \in 1 .. Len(calls) /\ calls[1] \in CallRecords /\ DOMAIN calls = 1 .. Len(calls)
  BY <1>1
<1>3. n \in Nat /\ \A k \in 1 .. n : IsSequence(Lines(calls[1].path)[k])
  BY LinesAreSequences DEF n
<1>4. IsSequence(Line)
  BY <1>1, <1>2, <1>3 DEF Line, CallRecords
<1> DEFINE next == [calls[1] EXCEPT !.lines = @ + 1]
<1>5. next \in CallRecords /\ next.at = calls[1].at /\ next.path = calls[1].path
      /\ next.function = calls[1].function /\ next.lines <= n
  <2>1. calls[1].lines + 1 <= n
    BY <1>1, <1>2, <1>3 DEF CallRecords
  <2> QED
    BY <1>2, <2>1, LineMore
<1>6. calls' = [calls EXCEPT ![1] = next]
  BY DEF ReadLine
<1> HIDE DEF next
<1>7. /\ calls' \in Seq(CallRecords) /\ DOMAIN calls' = DOMAIN calls
      /\ \A k \in DOMAIN calls : calls'[k] = IF k = 1 THEN next ELSE calls[k]
  <2>1. /\ calls' \in Seq(CallRecords) /\ Len(calls') = Len(calls)
        /\ \A k \in 1 .. Len(calls) : calls'[k] = IF k = 1 THEN next ELSE calls[k]
    BY <1>1, <1>2, <1>5, <1>6, ExceptSeq
  <2>2. DOMAIN calls' = DOMAIN calls
    BY <1>6
  <2> QED
    BY <1>2, <2>1, <2>2
<1>8. \A k \in DOMAIN calls :
        /\ calls[k].at \in Switches
        /\ calls[k].lines <= Len(Lines(calls[k].path))
        /\ calls[k].function = "ReadP4Info" => k = 1 /\ calls[k].path = m_p4InfoPath
  BY DEF CallsInv
<1>9. \A k \in DOMAIN calls' :
        /\ calls'[k].at \in Switches'
        /\ calls'[k].lines <= Len(Lines(calls'[k].path))
        /\ calls'[k].function = "ReadP4Info" => k = 1 /\ calls'[k].path = m_p4InfoPath
  BY <1>2, <1>5, <1>7, <1>8 DEF n
<1> QED
  BY <1>2, <1>4, <1>7, <1>8, <1>9 DEF CallsInv

\* A line of a command file is a command, whichever parser it is given to.
LEMMA PopulateFlowTableChangesOne ==
  ASSUME ControlInv, NEW garbage \in Garbage, PopulateFlowTable(garbage)
  PROVE  calls[1].at \in Switches /\ ChangesOne(calls[1].at)
<1>1. calls[1].at \in Switches
  BY SMT DEF ControlInv, CallsInv, PopulateFlowTable, ReadLine
<1> QED
  BY <1>1, PopulateChangesOne DEF ControlInv, PopulateFlowTable

LEMMA AttainInfoChangesOne ==
  ASSUME ControlInv, AttainSwitchFlowTableInfo
  PROVE  calls[1].at \in Switches /\ ChangesOne(calls[1].at)
<1>1. calls[1].at \in Switches
  BY SMT DEF ControlInv, CallsInv, AttainSwitchFlowTableInfo, ReadLine
<1> QED
  BY <1>1, AttainChangesOne DEF ControlInv, AttainSwitchFlowTableInfo

LEMMA CommandFilesPreserve ==
  ASSUME ControlInv, NEW function, ReadLine(function),
         calls[1].at \in Switches, ChangesOne(calls[1].at)
  PROVE  ControlInv'
<1>1. SwitchesInv' /\ Switches' = Switches /\ Len(m_p4Switches') = Len(m_p4Switches)
  BY OneChangedKeeps DEF ControlInv
<1>2. CallsInv'
  BY <1>1, ReadLineAdvances DEF ControlInv
<1> QED
  BY <1>1, <1>2 DEF ControlInv, ReadLine

LEMMA ReadP4InfoPreserves ==
  ASSUME ControlInv, ReadP4Info
  PROVE  ControlInv'
<1> DEFINE i == calls[1].at
           sw == WithElement(m_p4Switches[i], read')
<1>1. i \in Switches /\ IsSequence(m_p4Switches)
  BY SMT DEF ControlInv, CallsInv, SwitchesInv, ReadP4Info, ReadLine
<1>2. IsInterface(sw)
  BY <1>1, WithElementKeeps DEF ControlInv, SwitchesInv
<1>3. m_p4Switches' = [m_p4Switches EXCEPT ![i] = sw]
  BY DEF ReadP4Info
<1> HIDE DEF i, sw
<1>4. /\ IsSequence(m_p4Switches')
      /\ DOMAIN m_p4Switches' = DOMAIN m_p4Switches
      /\ Len(m_p4Switches') = Len(m_p4Switches)
      /\ m_p4Switches'[i] = sw
      /\ \A j \in DOMAIN m_p4Switches : j # i => m_p4Switches'[j] = m_p4Switches[j]
  BY <1>1, <1>3, ReplacedInSequence DEF Switches
<1>5. SwitchesInv' /\ Switches' = Switches
  BY <1>2, <1>4 DEF SwitchesInv, Switches, ControlInv
<1>6. CallsInv'
  BY <1>5, ReadLineAdvances DEF ControlInv, ReadP4Info
<1> QED
  BY <1>4, <1>5, <1>6 DEF ControlInv, ReadP4Info, ReadLine

\* The function at work returns.
LEMMA ReturnPreserves ==
  ASSUME ControlInv, Return
  PROVE  ControlInv'
<1>1. calls \in Seq(CallRecords) /\ calls # <<>> /\ calls' = Tail(calls)
  BY DEF ControlInv, CallsInv, Return
<1>2. calls' \in Seq(CallRecords) /\ \A k \in DOMAIN calls' : k + 1 \in DOMAIN calls /\ k + 1 # 1 /\ calls'[k] = calls[k + 1]
  BY <1>1
<1>3. Switches' = Switches /\ SwitchesInv'
  BY DEF Return, Switches, SwitchesInv, ControlInv
<1>4. CallsInv'
  BY <1>2, <1>3 DEF CallsInv, ControlInv
<1> QED
  BY <1>3, <1>4 DEF ControlInv, Return

\* The script calls functions that read files at interfaces that exist.
LEMMA CallIsRecord ==
  ASSUME NEW function \in FileReaders, NEW i \in Nat, NEW path \in KnownPaths
  PROVE  LET call == Call(function, i, path)
         IN  /\ call \in CallRecords
             /\ call.at = i /\ call.path = path /\ call.function = function
             /\ call.lines <= Len(Lines(call.path))
  BY LinesAreSequences DEF Call, CallRecords

LEMMA PathsAreKnown ==
  ASSUME NEW p \in PathRecords, NEW path \in KnownPaths
  PROVE  /\ p.flowTable \in KnownPaths /\ p.view \in KnownPaths
         /\ [p EXCEPT !.flowTable = path] \in PathRecords
         /\ [p EXCEPT !.view = path] \in PathRecords
  BY DEF PathRecords

LEMMA SwitchesAreNumbered ==
  ASSUME ControlInv
  PROVE  /\ Switches = 1 .. Len(m_p4Switches) /\ Len(m_p4Switches) \in Nat
         /\ paths \in Seq(PathRecords) /\ Len(paths) = Len(m_p4Switches)
         /\ \A i \in Switches : paths[i] \in PathRecords
<1>1. Switches = 1 .. Len(m_p4Switches) /\ Len(m_p4Switches) \in Nat
  BY DEF ControlInv, SwitchesInv, IsSequence, Switches
<1>2. paths \in Seq(PathRecords) /\ Len(paths) = Len(m_p4Switches)
  BY DEF ControlInv
<1> QED
  BY <1>1, <1>2

LEMMA PathsOfSwitches ==
  ASSUME ControlInv, NEW i \in Switches
  PROVE  i \in Nat /\ paths[i].flowTable \in KnownPaths /\ paths[i].view \in KnownPaths
<1>1. i \in Nat /\ paths[i] \in PathRecords
  BY SwitchesAreNumbered
<1> QED
  BY <1>1, PathsAreKnown DEF KnownPaths

\* Calls of the functions that execute commands.
LEMMA CommandCalls ==
  ASSUME NEW c \in Seq(CallRecords), calls' = c, Switches' = Switches,
         \A k \in DOMAIN c : /\ c[k].at \in Switches
                             /\ c[k].lines <= Len(Lines(c[k].path))
                             /\ c[k].function # "ReadP4Info"
  PROVE  CallsInv'
  BY DEF CallsInv

LEMMA OneCall ==
  ASSUME ControlInv, NEW i \in Switches, NEW path \in KnownPaths,
         NEW function \in FileReaders \ {"ReadP4Info"},
         calls' = <<Call(function, i, path)>>,
         UNCHANGED <<way, running, m_p4Switches, paths>>
  PROVE  ControlInv'
<1> DEFINE c == Call(function, i, path)
<1>1. /\ c \in CallRecords /\ c.at = i /\ c.lines <= Len(Lines(c.path)) /\ c.function = function
  BY CallIsRecord, PathsOfSwitches
<1> HIDE DEF c
<1>2. <<c>> \in Seq(CallRecords) /\ DOMAIN <<c>> = {1} /\ <<c>>[1] = c
  BY <1>1
<1>3. Switches' = Switches
  BY DEF Switches
<1>4. CallsInv'
  BY <1>1, <1>2, <1>3, CommandCalls DEF c
<1> QED
  BY <1>4 DEF ControlInv, SwitchesInv, Switches

LEMMA PopulatePreserves ==
  ASSUME ControlInv, NEW i \in Switches, Populate(i)
  PROVE  ControlInv'
<1>1. paths[i].flowTable \in KnownPaths
  BY PathsOfSwitches
<1>2. "PopulateFlowTable" \in FileReaders \ {"ReadP4Info"}
  BY DEF FileReaders
<1> QED
  BY <1>1, <1>2, OneCall DEF Populate, Step

LEMMA ViewPreserves ==
  ASSUME ControlInv, NEW i \in Switches, ViewP4SwitchFlowTableInfo(i)
  PROVE  ControlInv'
<1>1. paths[i].view \in KnownPaths
  BY PathsOfSwitches
<1>2. "AttainSwitchFlowTableInfo" \in FileReaders \ {"ReadP4Info"}
  BY DEF FileReaders
<1> QED
  BY <1>1, <1>2, OneCall DEF ViewP4SwitchFlowTableInfo, View, Step

LEMMA ViewAllPreserves ==
  ASSUME ControlInv, ViewAllSwitchFlowTableInfo
  PROVE  ControlInv'
<1>1. \A i \in Switches : /\ View(i) \in CallRecords /\ View(i).at = i
                          /\ View(i).lines <= Len(Lines(View(i).path))
                          /\ View(i).function # "ReadP4Info"
  <2> TAKE i \in Switches
  <2>1. i \in Nat /\ paths[i].view \in KnownPaths
    BY PathsOfSwitches
  <2>2. "AttainSwitchFlowTableInfo" \in FileReaders
    BY DEF FileReaders
  <2> QED
    BY <2>1, <2>2, CallIsRecord DEF View
<1> DEFINE c == [i \in Switches |-> View(i)]
<1>2. /\ c \in Seq(CallRecords) /\ DOMAIN c = Switches
      /\ \A i \in Switches : c[i] = View(i)
  BY <1>1, SwitchesAreNumbered
<1>3. calls' = c /\ Switches' = Switches
  BY DEF ViewAllSwitchFlowTableInfo, Switches
<1> HIDE DEF c
<1>4. CallsInv'
  BY <1>1, <1>2, <1>3, CommandCalls
<1> QED
  BY <1>4 DEF ControlInv, ViewAllSwitchFlowTableInfo, Step, SwitchesInv, Switches

LEMMA SetPathsPreserve ==
  ASSUME ControlInv, NEW i \in Switches, NEW path \in DOMAIN Files,
         SetP4SwitchFlowTablePath(i, path) \/ SetP4SwitchViewFlowTablePath(i, path)
  PROVE  ControlInv'
<1> DEFINE table == [paths[i] EXCEPT !.flowTable = path]
           view  == [paths[i] EXCEPT !.view = path]
<1>1. paths \in Seq(PathRecords) /\ i \in 1 .. Len(paths) /\ Len(paths) = Len(m_p4Switches)
  BY SwitchesAreNumbered
<1>2. table \in PathRecords /\ view \in PathRecords
  BY <1>1, PathsAreKnown DEF KnownPaths
<1>3. \/ paths' = [paths EXCEPT ![i] = table]
      \/ paths' = [paths EXCEPT ![i] = view]
  BY DEF SetP4SwitchFlowTablePath, SetP4SwitchViewFlowTablePath
<1> HIDE DEF table, view
<1>4. paths' \in Seq(PathRecords) /\ Len(paths') = Len(paths)
  BY <1>1, <1>2, <1>3, ExceptSeq
<1>5. UNCHANGED <<way, running, m_p4Switches, calls>>
  BY DEF SetP4SwitchFlowTablePath, SetP4SwitchViewFlowTablePath, Step
<1> QED
  BY <1>1, <1>4, <1>5 DEF ControlInv, SwitchesInv, Switches, CallsInv

\* A new device adds an interface, and calls two functions for it.
LEMMA AddP4SwitchPreserves ==
  ASSUME ControlInv, NEW garbage \in Garbage, AddP4Switch(garbage)
  PROVE  ControlInv'
<1> DEFINE n == Len(m_p4Switches) + 1
           p == [flowTable |-> g_flowTablePath, view |-> g_viewFlowTablePath]
<1>1. /\ m_p4Switches' = Append(m_p4Switches, NewInterface)
      /\ paths' = Append(paths, p) /\ calls = <<>> /\ way' = way
  BY DEF AddP4Switch, Idle
<1>2. /\ IsSequence(m_p4Switches') /\ Len(m_p4Switches') = n
      /\ DOMAIN m_p4Switches' = DOMAIN m_p4Switches \cup {n}
      /\ m_p4Switches'[n] = NewInterface
      /\ \A j \in DOMAIN m_p4Switches : m_p4Switches'[j] = m_p4Switches[j]
  <2> HIDE DEF p
  <2> QED
    BY <1>1, AppendedToSequence DEF ControlInv, SwitchesInv
<1>3. SwitchesInv' /\ n \in Nat /\ n \in Switches'
  BY <1>2, NewIsInterface, SwitchesAreNumbered DEF ControlInv, SwitchesInv, Switches
<1>4. p \in PathRecords
  BY DEF PathRecords, KnownPaths
<1> HIDE DEF p
<1>5. paths' \in Seq(PathRecords) /\ Len(paths') = n
  BY <1>1, <1>4, SwitchesAreNumbered
<1>6. running' \in BOOLEAN
  <2>1. running' = (m_p4InfoPath \in DOMAIN Files) \/ running' = running
    BY DEF AddP4Switch
  <2>2. running \in BOOLEAN
    BY DEF ControlInv
  <2>3. (m_p4InfoPath \in DOMAIN Files) = TRUE \/ (m_p4InfoPath \in DOMAIN Files) = FALSE
    OBVIOUS
  <2>4. running' = TRUE \/ running' = FALSE \/ running' = running
    BY <2>1, <2>3, Zenon
  <2> QED
    BY <2>2, <2>4
<1> HIDE DEF n
<1>7. CallsInv'
  <2>1. CASE way = "LOCAL_CALL"
    <3> DEFINE c == Call("ReadP4Info", n, m_p4InfoPath)
               d == Call("PopulateFlowTable", n, g_flowTablePath)
    <3>1. calls' = <<c, d>>
      BY <2>1 DEF AddP4Switch, n
    <3>2. "ReadP4Info" \in FileReaders /\ "PopulateFlowTable" \in FileReaders
      BY DEF FileReaders
    <3>3. g_flowTablePath \in KnownPaths /\ m_p4InfoPath \in KnownPaths
      BY DEF KnownPaths
    <3>4. /\ c \in CallRecords /\ c.at = n /\ c.lines <= Len(Lines(c.path))
          /\ c.path = m_p4InfoPath
      BY <1>3, <3>2, <3>3, CallIsRecord
    <3>5. /\ d \in CallRecords /\ d.at = n /\ d.lines <= Len(Lines(d.path))
          /\ d.function = "PopulateFlowTable"
      BY <1>3, <3>2, <3>3, CallIsRecord
    <3> HIDE DEF c, d
    <3>6. <<c, d>> \in Seq(CallRecords) /\ DOMAIN <<c, d>> = {1, 2}
          /\ <<c, d>>[1] = c /\ <<c, d>>[2] = d
      BY <3>4, <3>5
    <3> QED
      BY <1>3, <3>1, <3>4, <3>5, <3>6 DEF CallsInv
  <2>2. CASE way # "LOCAL_CALL"
    <3>1. calls' = <<>>
      BY <1>1, <2>2 DEF AddP4Switch
    <3> QED
      BY <3>1 DEF CallsInv
  <2> QED
    BY <2>1, <2>2
<1> QED
  BY <1>1, <1>2, <1>3, <1>5, <1>6, <1>7 DEF ControlInv

\* Every step of an interface that the script or a packet causes.
LEMMA ScriptPreserves ==
  ASSUME ControlInv, NEW i, Script(i)
  PROVE  ControlInv'
<1>1. CASE \E parms \in PopulateCommands, garbage \in Garbage : GivePopulateCommand(i, parms, garbage)
  <2> PICK parms \in PopulateCommands, garbage \in Garbage : GivePopulateCommand(i, parms, garbage)
    BY <1>1
  <2>1. i \in Switches /\ UNCHANGED <<way, running, paths, calls>>
    BY DEF GivePopulateCommand, Step
  <2>2. ChangesOne(i)
    BY <2>1, PopulateChangesOne DEF ControlInv, GivePopulateCommand
  <2> QED
    BY <2>1, <2>2, CommandsPreserve
<1>2. CASE \E parms \in AttainCommands : GiveAttainCommand(i, parms)
  <2> PICK parms \in AttainCommands : GiveAttainCommand(i, parms)
    BY <1>2
  <2>1. i \in Switches /\ UNCHANGED <<way, running, paths, calls>>
    BY DEF GiveAttainCommand, Step
  <2>2. ChangesOne(i)
    BY <2>1, AttainChangesOne DEF ControlInv, GiveAttainCommand
  <2> QED
    BY <2>1, <2>2, CommandsPreserve
<1>3. CASE \E path \in DOMAIN Files :
             SetP4SwitchFlowTablePath(i, path) \/ SetP4SwitchViewFlowTablePath(i, path)
  <2>1. i \in Switches
    BY <1>3 DEF SetP4SwitchFlowTablePath, SetP4SwitchViewFlowTablePath, Step
  <2> QED
    BY <1>3, <2>1, SetPathsPreserve
<1>4. CASE Populate(i)
  BY <1>4, PopulatePreserves DEF Populate, Step
<1>5. CASE ViewP4SwitchFlowTableInfo(i)
  BY <1>5, ViewPreserves DEF ViewP4SwitchFlowTableInfo, Step
<1> QED
  BY <1>1, <1>2, <1>3, <1>4, <1>5 DEF Script

LEMMA PacketsPreserve ==
  ASSUME ControlInv, NEW i, Packets(i)
  PROVE  ControlInv'
<1>1. i \in Switches /\ UNCHANGED <<way, running, paths, calls>>
  BY DEF Packets, count, register_write_primitive, Step
<1>2. ChangesOne(i)
  BY <1>1, CountChangesOne, RegisterWriteChangesOne DEF Packets, ControlInv
<1> QED
  BY <1>1, <1>2, CommandsPreserve

LEMMA StepPreserves ==
  ASSUME ControlInv, [Next]_vars
  PROVE  ControlInv'
<1>1. ASSUME NEW garbage \in Garbage, AddP4Switch(garbage) PROVE ControlInv'
  BY <1>1, AddP4SwitchPreserves
<1>2. ASSUME NEW garbage \in Garbage, PopulateFlowTable(garbage) PROVE ControlInv'
  BY <1>2, PopulateFlowTableChangesOne, CommandFilesPreserve DEF PopulateFlowTable
<1>3. CASE ReadP4Info
  BY <1>3, ReadP4InfoPreserves
<1>4. CASE AttainSwitchFlowTableInfo
  BY <1>4, AttainInfoChangesOne, CommandFilesPreserve DEF AttainSwitchFlowTableInfo
<1>5. CASE Return
  BY <1>5, ReturnPreserves
<1>6. ASSUME NEW i \in 1 .. MaxSwitches, Script(i) \/ Packets(i) PROVE ControlInv'
  BY <1>6, ScriptPreserves, PacketsPreserve
<1>7. CASE ViewAllSwitchFlowTableInfo
  BY <1>7, ViewAllPreserves
<1>8. CASE UNCHANGED vars
  BY <1>8 DEF vars, ControlInv, SwitchesInv, CallsInv, Switches
<1> QED
  BY <1>1, <1>2, <1>3, <1>4, <1>5, <1>6, <1>7, <1>8 DEF Next

LEMMA ControlHolds == Spec => []ControlInv
  BY InitEstablishes, StepPreserves, PTL DEF Spec

LEMMA TypesFollow ==
  ASSUME ControlInv
  PROVE  TypeOK
<1>1. \A k \in DOMAIN calls : /\ calls[k].at \in Switches
                              /\ calls[k].lines \in 0 .. Len(Lines(calls[k].path))
  <2> TAKE k \in DOMAIN calls
  <2>1. calls[k] \in CallRecords /\ calls[k].at \in Switches
        /\ calls[k].lines <= Len(Lines(calls[k].path))
    BY DEF ControlInv, CallsInv
  <2>2. calls[k].lines \in Nat
    BY <2>1 DEF CallRecords
  <2>3. Len(Lines(calls[k].path)) \in Nat
    BY LinesAreSequences
  <2> QED
    BY <2>1, <2>2, <2>3
<1>2. \A i \in Switches : IsInterface(m_p4Switches[i])
  BY DEF ControlInv, SwitchesInv
<1> QED
  BY <1>1, <1>2 DEF TypeOK, ControlInv, IsInterface, IsRuntime

\* Every variable has its type: the match types and flags that an interface
\* found in memory never written are match types and flags, the counters stay
\* in range, and no function works on an interface that does not exist or past
\* the end of its file.
THEOREM TypesHold == Spec => []TypeOK
  BY ControlHolds, TypesFollow, PTL

-----------------------------------------------------------------------------
(* What the commands say of themselves.                                    *)

\* Every name of a command has a number of its own.
LEMMA CommandsAreNumbered ==
  \A name, other \in DOMAIN g_apiMap : name # other => g_apiMap[name] # g_apiMap[other]
  BY DEF g_apiMap

LEMMA IsTableAdd ==
  ASSUME NEW sw, NEW parms, NEW garbage, parms # <<>>, parms[1] = "table_add"
  PROVE  ParsePopulateFlowTableCommand(sw, parms, garbage) = table_add(sw, parms, garbage)
  BY DEF ParsePopulateFlowTableCommand, CommandType, g_apiMap

LEMMA IsSetRates ==
  ASSUME NEW sw, NEW parms, NEW garbage, parms # <<>>, parms[1] = "meter_set_rates"
  PROVE  ParsePopulateFlowTableCommand(sw, parms, garbage) = set_rates(sw, parms, garbage)
  BY DEF ParsePopulateFlowTableCommand, CommandType, g_apiMap

\* An answer without an exception; a call of the runtime that gives such an
\* answer is one that succeeded.
Good(answer) == answer.error = ""

LEMMA ThrewIsNotGood ==
  ASSUME NEW sw, NEW error, error # ""
  PROVE  ~Good(Threw(sw, error))
  BY DEF Good, Threw

LEMMA CalledSucceeds ==
  ASSUME NEW sw, IsInterface(sw), NEW call, Good(Called(sw, call))
  PROVE  LET later == Called(sw, call).sw
         IN  /\ call.success /\ later.rt = call.rt
             /\ later.m_flowTable = sw.m_flowTable
             /\ later.m_meter = sw.m_meter
             /\ later.m_counter = sw.m_counter
  BY DEF Called, Done, Threw, Good, IsInterface

\* A line that is executed without an exception.
LEMMA AcceptedAnswers ==
  ASSUME NEW i, NEW parms, NEW garbage, Accepted(i, parms, garbage), SwitchesInv
  PROVE  LET answer == ParsePopulateFlowTableCommand(m_p4Switches[i], parms, garbage)
         IN  /\ i \in Switches /\ IsInterface(m_p4Switches[i])
             /\ Good(answer) /\ m_p4Switches'[i] = answer.sw
<1> DEFINE answer == ParsePopulateFlowTableCommand(m_p4Switches[i], parms, garbage)
<1>1. i \in Switches /\ Good(answer)
  BY DEF Accepted, Good
<1>2. m_p4Switches' = [m_p4Switches EXCEPT ![i] = answer.sw]
  <2>1. CASE GivePopulateCommand(i, parms, garbage)
    BY <2>1 DEF GivePopulateCommand
  <2>2. CASE PopulateFlowTable(garbage) /\ calls[1].at = i /\ Line = parms
    BY <2>2 DEF PopulateFlowTable
  <2> QED
    BY <2>1, <2>2 DEF Accepted, Populates
<1> HIDE DEF answer
<1> QED
  BY <1>1, <1>2, ReplacedInSequence DEF SwitchesInv, Switches, answer

\* A line that is given to an interface is a sequence of words.
LEMMA LinesAreWords ==
  ASSUME NEW parms \in PopulateCommands \cup AttainCommands \cup FileLines
  PROVE  IsSequence(parms)
  BY P4ControllerAssumption DEF FileLines

\* The last key is the word before the arrow, or the last word.
LEMMA LastKeyIsWord ==
  ASSUME NEW parms, IsSequence(parms), parms # <<>>
  PROVE  LastKey(parms) \in 1 .. Len(parms)
<1> DEFINE arrows == {i \in 4 .. Len(parms) : parms[i] = "=>"}
<1>1. Len(parms) \in Nat /\ Len(parms) > 0
  BY DEF IsSequence
<1>2. CASE arrows = {}
  BY <1>1, <1>2 DEF LastKey
<1>3. CASE arrows # {}
  <2>1. arrows \subseteq Nat
    BY <1>1
  <2>2. \E m \in arrows : \A n \in arrows : m <= n
    BY <1>3, <2>1, LeastNatural
  <2>3. Min(arrows) \in arrows
    BY <2>2 DEF Min
  <2>4. LastKey(parms) = Min(arrows) - 1
    BY <1>3 DEF LastKey
  <2> HIDE DEF LastKey
  <2> QED
    BY <1>1, <2>3, <2>4
<1> QED
  BY <1>2, <1>3

LEMMA BehindIsInRange ==
  ASSUME NEW parms, IsSequence(parms), parms # <<>>
  PROVE  LastKey(parms) + 2 \in 3 .. Len(parms) + 2
<1>1. Len(parms) \in Nat /\ LastKey(parms) \in 1 .. Len(parms)
  BY LastKeyIsWord DEF IsSequence
<1> QED
  BY <1>1

\* The words behind the arrow are those before the last and the last.
LEMMA LastIsBehind ==
  ASSUME NEW parms, IsSequence(parms), NEW k \in 3 .. Len(parms) + 2
  PROVE  LET behind == From(parms, k)
         IN  IF behind = <<>> THEN SubSeq(behind, 1, Len(behind) - 1) = <<>>
             ELSE behind = Append(SubSeq(behind, 1, Len(behind) - 1), parms[Len(parms)])
<1> DEFINE S == Range(parms)
           behind == From(parms, k)
<1>1. parms \in Seq(S) /\ k \in Nat /\ Len(parms) \in Nat
  BY DEF IsSequence
<1> HIDE DEF S
<1>2. CASE k > Len(parms)
  <2>1. behind = <<>>
    BY <1>1, <1>2 DEF From
  <2> QED
    BY <2>1
<1>3. CASE k <= Len(parms)
  <2>1. /\ behind \in Seq(S) /\ Len(behind) = Len(parms) - k + 1
        /\ behind[Len(parms) - k + 1] = parms[Len(parms)]
    BY <1>1, <1>3 DEF From
  <2>2. behind # <<>>
    BY <1>1, <1>3, <2>1
  <2> HIDE DEF behind
  <2>3. behind = Append(SubSeq(behind, 1, Len(behind) - 1), behind[Len(behind)])
    BY <2>1, <2>2
  <2> QED
    BY <2>1, <2>2, <2>3 DEF behind
<1> QED
  BY <1>1, <1>2, <1>3

-----------------------------------------------------------------------------
(* Entries are added as they were written.                                 *)

\* What the property says of one line, with the interfaces before and after.
AsWritten(sw, later, parms) ==
  LET old    == sw.rt.entries[parms[2]]
      new    == later.rt.entries[parms[2]]
      type   == later.m_flowTable[parms[2]]
      behind == From(parms, LastKey(parms) + 2)
  IN  /\ \A h \in DOMAIN old : new[h] = old[h]
      /\ \E h \in DOMAIN new \ DOMAIN old :
           /\ Len(new[h].key) = 1
           /\ new[h].action = parms[3]
           /\ behind = IF type \in {"exact", "lpm"} \/ behind = <<>>
                         THEN new[h].data ELSE Append(new[h].data, new[h].priority)

\* Words behind the arrow as the entry of a table stores them.
Stores(type, behind, data, priority) ==
  behind = IF type \in {"exact", "lpm"} \/ behind = <<>> THEN data ELSE Append(data, priority)

\* What table_add does once it knows the table, its type and the keys.
Adding(known, parms, type, keys) ==
  LET last == LastKey(parms)
      tail == From(parms, last + 2)
      add(data, priority) ==
        Called(known, mt_add_entry(known.rt, parms[2], type, keys, parms[3], data, priority))
  IN  CASE type \notin MatchTypes /\ last > 3 -> Threw(known, "MATCH_TYPE_ERROR")
        [] type = "exact" -> add(tail, "0")
        [] type = "lpm"   -> add(tail, "")
        [] OTHER -> add(SubSeq(tail, 1, Len(tail) - 1), parms[Len(parms)])

LEMMA TableAddIsAdding ==
  ASSUME NEW sw, NEW parms, NEW garbage
  PROVE  LET known == LookedUpTable(sw, parms[2], garbage)
             type  == known.m_flowTable[parms[2]]
         IN  \E keys : table_add(sw, parms, garbage) = Adding(known, parms, type, keys)
<1> DEFINE known == LookedUpTable(sw, parms[2], garbage)
           type == known.m_flowTable[parms[2]]
           keys == FlattenSeq([i \in 1 .. LastKey(parms) - 3 |-> Key(type, parms[i + 3])])
<1>1. table_add(sw, parms, garbage) = Adding(known, parms, type, keys)
  BY Zenon DEF table_add, Adding
<1> QED
  BY <1>1

LEMMA FourCases ==
  ASSUME NEW type, NEW last, NEW a, NEW b, NEW c, NEW d
  PROVE  LET chosen == CASE type \notin MatchTypes /\ last > 3 -> a
                         [] type = "exact" -> b
                         [] type = "lpm"   -> c
                         [] OTHER -> d
         IN  \/ chosen = a
             \/ type = "exact" /\ chosen = b
             \/ type = "lpm" /\ chosen = c
             \/ type \notin {"exact", "lpm"} /\ chosen = d
  OBVIOUS

\* The words are stored whatever the type.
LEMMA AddingStores ==
  ASSUME NEW known, NEW parms, IsSequence(parms), parms # <<>>, NEW type, NEW keys,
         Good(Adding(known, parms, type, keys))
  PROVE  \E data, priority :
           /\ Stores(type, From(parms, LastKey(parms) + 2), data, priority)
           /\ Adding(known, parms, type, keys) =
                Called(known, mt_add_entry(known.rt, parms[2], type, keys, parms[3], data, priority))
<1> DEFINE tail == From(parms, LastKey(parms) + 2)
           last == parms[Len(parms)]
           front == SubSeq(tail, 1, Len(tail) - 1)
           call(data, priority) ==
             mt_add_entry(known.rt, parms[2], type, keys, parms[3], data, priority)
           added(data, priority) ==
             Adding(known, parms, type, keys) = Called(known, call(data, priority))
<1>1. \/ Adding(known, parms, type, keys) = Threw(known, "MATCH_TYPE_ERROR")
      \/ type = "exact" /\ added(tail, "0")
      \/ type = "lpm" /\ added(tail, "")
      \/ type \notin {"exact", "lpm"} /\ added(front, last)
  <2> HIDE DEF call, tail, front, last
  <2>1. Adding(known, parms, type, keys) =
          CASE type \notin MatchTypes /\ LastKey(parms) > 3 -> Threw(known, "MATCH_TYPE_ERROR")
            [] type = "exact" -> Called(known, call(tail, "0"))
            [] type = "lpm"   -> Called(known, call(tail, ""))
            [] OTHER -> Called(known, call(front, last))
    BY Zenon DEF Adding, call, tail, front, last
  <2> QED
    BY <2>1, FourCases
<1>2. Adding(known, parms, type, keys) # Threw(known, "MATCH_TYPE_ERROR")
  BY ThrewIsNotGood
<1>3. LastKey(parms) + 2 \in 3 .. Len(parms) + 2
  BY BehindIsInRange
<1>4. IF tail = <<>> THEN front = <<>> ELSE tail = Append(front, last)
  BY <1>3, LastIsBehind
<1> HIDE DEF tail, front, last
<1>5. type \in {"exact", "lpm"} => Stores(type, tail, tail, "0") /\ Stores(type, tail, tail, "")
  BY DEF Stores
<1>6. type \notin {"exact", "lpm"} => Stores(type, tail, front, last)
  BY <1>4 DEF Stores
<1> HIDE DEF added
<1>7. \E data, priority : Stores(type, tail, data, priority) /\ added(data, priority)
  BY <1>1, <1>2, <1>5, <1>6
<1> QED
  BY <1>7 DEF tail, added

\* An entry that the runtime has added is the one it was given.
LEMMA AddedAsWritten ==
  ASSUME NEW sw, NEW known, IsInterface(known), known.rt = sw.rt, NEW parms,
         NEW keys, NEW data, NEW priority,
         Stores(known.m_flowTable[parms[2]], From(parms, LastKey(parms) + 2), data, priority),
         NEW call,
         call = mt_add_entry(known.rt, parms[2], known.m_flowTable[parms[2]], keys,
                             parms[3], data, priority),
         Good(Called(known, call))
  PROVE  AsWritten(sw, Called(known, call).sw, parms)
<1> DEFINE later == Called(known, call).sw
           old == sw.rt.entries[parms[2]]
           new == later.rt.entries[parms[2]]
           entry == [key |-> keys, action |-> parms[3], data |-> data,
                     priority |-> priority, ttl |-> "0"]
<1>1. call.success /\ later.rt = call.rt /\ later.m_flowTable = known.m_flowTable
  BY CalledSucceeds
<1>3. IsRuntime(known.rt)
  BY DEF IsInterface
<1> DEFINE stored == call.rt.entries[parms[2]]
<1>4. /\ Len(keys) = 1
      /\ \A h \in DOMAIN old : stored[h] = old[h]
      /\ \E h \in DOMAIN stored \ DOMAIN old : stored[h] = entry
  <2>1. mt_add_entry(known.rt, parms[2], known.m_flowTable[parms[2]], keys,
                     parms[3], data, priority).success
    BY <1>1
  <2>2. old = known.rt.entries[parms[2]]
    OBVIOUS
  <2> HIDE DEF old
  <2> QED
    BY <1>3, <2>1, <2>2, AddEntryAdds
<1>5. new = stored
  BY <1>1
<1> HIDE DEF later, stored, old, new
<1>6. PICK h \in DOMAIN new \ DOMAIN old : new[h] = entry
  BY <1>4, <1>5
<1>7. /\ new[h].key = keys /\ new[h].action = parms[3]
      /\ new[h].data = data /\ new[h].priority = priority
  BY <1>6
<1> HIDE DEF entry
<1>8. \A g \in DOMAIN old : new[g] = old[g]
  BY <1>4, <1>5
<1> DEFINE goal(g) ==
             /\ Len(new[g].key) = 1 /\ new[g].action = parms[3]
             /\ Stores(later.m_flowTable[parms[2]], From(parms, LastKey(parms) + 2),
                       new[g].data, new[g].priority)
<1>9. goal(h)
  BY <1>1, <1>4, <1>7
<1>10. \E g \in DOMAIN new \ DOMAIN old : goal(g)
  BY <1>6, <1>9
<1> QED
  BY <1>8, <1>10 DEF AsWritten, Stores, later, old, new

LEMMA TableAddAdds ==
  ASSUME NEW sw, IsInterface(sw), NEW parms, IsSequence(parms), parms # <<>>,
         NEW garbage \in Garbage, Good(table_add(sw, parms, garbage))
  PROVE  AsWritten(sw, table_add(sw, parms, garbage).sw, parms)
<1> DEFINE known == LookedUpTable(sw, parms[2], garbage)
           type == known.m_flowTable[parms[2]]
<1>1. IsInterface(known) /\ known.rt = sw.rt
  BY LookedUpTableKeeps
<1>2. PICK keys : table_add(sw, parms, garbage) = Adding(known, parms, type, keys)
  BY TableAddIsAdding
<1> HIDE DEF known
<1>3. PICK data, priority :
        /\ Stores(type, From(parms, LastKey(parms) + 2), data, priority)
        /\ Adding(known, parms, type, keys) =
             Called(known, mt_add_entry(known.rt, parms[2], type, keys, parms[3], data, priority))
  BY <1>2, AddingStores
<1> QED
  BY <1>1, <1>2, <1>3, AddedAsWritten

LEMMA EntriesAsWritten ==
  ASSUME ControlInv, NEW i \in Switches, NEW garbage \in Garbage,
         NEW parms \in Named(PopulateCommands \cup FileLines, "table_add"),
         Accepted(i, parms, garbage)
  PROVE  AsWritten(m_p4Switches[i], m_p4Switches'[i], parms)
<1>1. parms # <<>> /\ parms[1] = "table_add" /\ IsSequence(parms)
  BY LinesAreWords DEF Named
<1> DEFINE answer == ParsePopulateFlowTableCommand(m_p4Switches[i], parms, garbage)
<1>2. IsInterface(m_p4Switches[i]) /\ Good(answer) /\ m_p4Switches'[i] = answer.sw
  BY AcceptedAnswers DEF ControlInv
<1>3. answer = table_add(m_p4Switches[i], parms, garbage)
  BY <1>1, IsTableAdd
<1> QED
  BY <1>1, <1>2, <1>3, TableAddAdds

\* An entry is stored as the line that adds it was written: one key, the
\* action, the words behind the arrow as data and priority; and it takes no
\* other entry's place.
THEOREM EntriesAreAsWritten == Spec => EntryAsWritten
<1>1. ControlInv /\ [Next]_vars =>
        [\A i \in Switches, garbage \in Garbage,
            parms \in Named(PopulateCommands \cup FileLines, "table_add") :
           Accepted(i, parms, garbage) =>
             LET old    == m_p4Switches[i].rt.entries[parms[2]]
                 new    == m_p4Switches'[i].rt.entries[parms[2]]
                 type   == m_p4Switches'[i].m_flowTable[parms[2]]
                 behind == From(parms, LastKey(parms) + 2)
             IN  /\ \A h \in DOMAIN old : new[h] = old[h]
                 /\ \E h \in DOMAIN new \ DOMAIN old :
                      /\ Len(new[h].key) = 1
                      /\ new[h].action = parms[3]
                      /\ behind = IF type \in {"exact", "lpm"} \/ behind = <<>>
                                    THEN new[h].data ELSE Append(new[h].data, new[h].priority)]_vars
  BY EntriesAsWritten DEF AsWritten
<1> QED
  BY <1>1, ControlHolds, PTL DEF Spec, EntryAsWritten

-----------------------------------------------------------------------------
(* Meters and counters: of the entries of tables, or arrays.               *)

\* Whether a name that is known has a cell with the number i, and which.
Shown(known, rt, tables, arrays, name, i) ==
  IF known[name].isDirect
    THEN known[name].tableName \in tables /\ HasEntry(rt, known[name].tableName, i)
    ELSE <<name, i>> \in arrays \X Indices

Cell(known, name, i) == <<Denotes(known, name)[2], i>>

\* The cell tells what the name stands for: no array has the name of a table.
LEMMA CellTells ==
  ASSUME NEW known, NEW rt, NEW tables, NEW arrays, tables \cap arrays = {},
         NEW a, NEW i, Shown(known, rt, tables, arrays, a, i), known[a].isDirect \in BOOLEAN,
         NEW b, NEW j, Shown(known, rt, tables, arrays, b, j), known[b].isDirect \in BOOLEAN,
         Cell(known, a, i) = Cell(known, b, j)
  PROVE  Denotes(known, a) = Denotes(known, b) /\ i = j
<1> DEFINE where(n) == IF known[n].isDirect THEN known[n].tableName ELSE n
<1>1. \A n : /\ Denotes(known, n)[1] = known[n].isDirect /\ Denotes(known, n)[2] = where(n)
             /\ Denotes(known, n) = <<known[n].isDirect, where(n)>>
  BY DEF Denotes
<1>2. where(a) = where(b) /\ i = j
  BY <1>1 DEF Cell
<1>3. known[a].isDirect = known[b].isDirect
  <2>1. CASE known[a].isDirect /\ ~known[b].isDirect
    BY <1>2, <2>1 DEF Shown
  <2>2. CASE ~known[a].isDirect /\ known[b].isDirect
    BY <1>2, <2>2 DEF Shown
  <2> QED
    BY <2>1, <2>2
<1> QED
  BY <1>1, <1>2, <1>3

\* A name that stands for the same as one that has a cell has that cell.
LEMMA SameCell ==
  ASSUME NEW known, NEW rt, NEW tables, NEW arrays, NEW a, NEW b, NEW i,
         Denotes(known, a) = Denotes(known, b)
  PROVE  /\ Cell(known, a, i) = Cell(known, b, i)
         /\ known[a].isDirect \in BOOLEAN /\ known[b].isDirect \in BOOLEAN =>
              (Shown(known, rt, tables, arrays, a, i) <=> Shown(known, rt, tables, arrays, b, i))
<1> DEFINE where(n) == IF known[n].isDirect THEN known[n].tableName ELSE n
<1>1. \A n : /\ Denotes(known, n)[1] = known[n].isDirect /\ Denotes(known, n)[2] = where(n)
  BY DEF Denotes
<1>2. known[a].isDirect = known[b].isDirect /\ where(a) = where(b)
  BY <1>1
<1> QED
  BY <1>2 DEF Cell, Shown

\* A cell that has a name is one of the runtime.
LEMMA ShownIsCell ==
  ASSUME NEW rt, IsRuntime(rt), NEW known, NEW tables, tables \subseteq Tables, NEW arrays,
         NEW name, NEW i, Shown(known, rt, tables, arrays, name, i)
  PROVE  Cell(known, name, i) \in (tables \X Handles) \cup (arrays \X Indices)
  BY DEF Shown, Cell, Denotes, HasEntry, IsRuntime

\* What the two commands that read show.
RateOf(sw, m, i) ==
  IF Shown(sw.m_meter, sw.rt, MeteredTables, MeterArrays, m, i)
    THEN sw.rt.rates[Cell(sw.m_meter, m, i)] ELSE NotShown

CountOf(sw, c, i) ==
  IF Shown(sw.m_counter, sw.rt, CountedTables, CounterArrays, c, i)
    THEN sw.rt.counts[Cell(sw.m_counter, c, i)] ELSE NotShown

LEMMA CalledShows ==
  ASSUME NEW sw, NEW call
  PROVE  LET answer == Called(sw, call)
         IN  (IF answer.error = "" THEN answer.value ELSE NotShown) =
               (IF call.success THEN call.value ELSE NotShown)
  BY DEF Called, Done, Threw

LEMMA RatesAreShown ==
  ASSUME NEW sw, NEW m \in DOMAIN sw.m_meter, NEW index
  PROVE  Shows(sw, <<"meter_get_rates", m, index>>) = RateOf(sw, m, StrToInt[index])
<1> DEFINE parms == <<"meter_get_rates", m, index>>
           meter == sw.m_meter[m]
           i == StrToInt[index]
           call == IF meter.isDirect THEN mt_get_meter_rates(sw.rt, meter.tableName, i)
                                     ELSE meter_get_rates(sw.rt, m, i)
<1>1. parms # <<>> /\ parms[1] = "meter_get_rates" /\ Len(parms) = 3 /\ parms[2] = m /\ parms[3] = index
  OBVIOUS
<1>2. get_rates(sw, parms) = Called(sw, call)
  BY DEF get_rates
<1> HIDE DEF parms
<1>3. ParseAttainFlowTableInfoCommand(sw, parms) = get_rates(sw, parms)
  BY <1>1 DEF ParseAttainFlowTableInfoCommand, CommandType, g_apiMap, WithWords
<1>4. Shows(sw, parms) = IF call.success THEN call.value ELSE NotShown
  <2> HIDE DEF call
  <2> QED
    BY <1>2, <1>3, CalledShows DEF Shows
<1>5. (IF call.success THEN call.value ELSE NotShown) = RateOf(sw, m, i)
  BY DEF mt_get_meter_rates, meter_get_rates, Success, Refused, RateOf, Shown, Cell, Denotes
<1> QED
  BY <1>4, <1>5 DEF parms

LEMMA CountsAreShown ==
  ASSUME NEW sw, NEW c \in DOMAIN sw.m_counter, NEW index
  PROVE  Shows(sw, <<"counter_read", c, index>>) = CountOf(sw, c, StrToInt[index])
<1> DEFINE parms == <<"counter_read", c, index>>
           counter == sw.m_counter[c]
           i == StrToInt[index]
           call == IF counter.isDirect THEN mt_read_counters(sw.rt, counter.tableName, i)
                                       ELSE read_counters(sw.rt, c, i)
<1>1. parms # <<>> /\ parms[1] = "counter_read" /\ Len(parms) = 3 /\ parms[2] = c /\ parms[3] = index
  OBVIOUS
<1>2. counter_read(sw, parms) = Called(sw, call)
  BY DEF counter_read
<1> HIDE DEF parms
<1>3. ParseAttainFlowTableInfoCommand(sw, parms) = counter_read(sw, parms)
  BY <1>1 DEF ParseAttainFlowTableInfoCommand, CommandType, g_apiMap, WithWords
<1>4. Shows(sw, parms) = IF call.success THEN call.value ELSE NotShown
  <2> HIDE DEF call
  <2> QED
    BY <1>2, <1>3, CalledShows DEF Shows
<1>5. (IF call.success THEN call.value ELSE NotShown) = CountOf(sw, c, i)
  BY DEF mt_read_counters, read_counters, Success, Refused, CountOf, Shown, Cell, Denotes
<1> QED
  BY <1>4, <1>5 DEF parms

-----------------------------------------------------------------------------
(* Rates are read back.                                                    *)

\* The rates of one cell are set; the interface knows of meters what it knew
\* and the one that was looked up.
SetsRatesOf(sw, later, m, i, configs) ==
  /\ \A n \in DOMAIN sw.m_meter :
       n \in DOMAIN later.m_meter /\ later.m_meter[n] = sw.m_meter[n]
  /\ Shown(later.m_meter, sw.rt, MeteredTables, MeterArrays, m, i)
  /\ later.rt.entries = sw.rt.entries
  /\ later.rt.rates = [c \in MeterCells |-> IF c = Cell(later.m_meter, m, i)
                                              THEN configs ELSE sw.rt.rates[c]]

\* A call of the runtime that succeeds sets the rates of the cell it is for.
LEMMA CallSetsRates ==
  ASSUME NEW rt, IsRuntime(rt), NEW known, NEW m, NEW i, NEW configs, NEW call,
         call = IF known[m].isDirect
                  THEN mt_set_meter_rates(rt, known[m].tableName, i, configs)
                  ELSE meter_set_rates(rt, m, i, configs),
         call.success
  PROVE  /\ Shown(known, rt, MeteredTables, MeterArrays, m, i)
         /\ call.rt.entries = rt.entries
         /\ call.rt.rates = [c \in MeterCells |-> IF c = Cell(known, m, i)
                                                    THEN configs ELSE rt.rates[c]]
<1> DEFINE cell == Cell(known, m, i)
           rates == [c \in MeterCells |-> IF c \in {cell} THEN configs ELSE rt.rates[c]]
<1>1. SetRates(rt, {cell}, configs).rt.entries = rt.entries
      /\ SetRates(rt, {cell}, configs).rt.rates = rates
  <2>1. SetRates(rt, {cell}, configs).rt = [rt EXCEPT !.rates = rates]
    BY DEF SetRates, Success
  <2> HIDE DEF rates, cell
  <2> QED
    BY <2>1 DEF IsRuntime
<1>2. rates = [c \in MeterCells |-> IF c = cell THEN configs ELSE rt.rates[c]]
  OBVIOUS
<1>3. CASE known[m].isDirect
  <2>1. cell = <<known[m].tableName, i>>
    BY <1>3 DEF Cell, Denotes
  <2>2. call = mt_set_meter_rates(rt, known[m].tableName, i, configs)
    BY <1>3
  <2>3. /\ known[m].tableName \in MeteredTables /\ HasEntry(rt, known[m].tableName, i)
        /\ call = SetRates(rt, {cell}, configs)
    <3> HIDE DEF cell
    <3> QED
      BY <2>1, <2>2 DEF mt_set_meter_rates, Refused
  <2> HIDE DEF rates, cell
  <2> QED
    BY <1>1, <1>2, <1>3, <2>3 DEF Shown, cell
<1>4. CASE ~known[m].isDirect
  <2>1. cell = <<m, i>>
    BY <1>4 DEF Cell, Denotes
  <2>2. call = meter_set_rates(rt, m, i, configs)
    BY <1>4
  <2>3. <<m, i>> \in MeterArrays \X Indices /\ call = SetRates(rt, {cell}, configs)
    <3> HIDE DEF cell
    <3> QED
      BY <2>1, <2>2 DEF meter_set_rates, Refused
  <2> HIDE DEF rates, cell
  <2> QED
    BY <1>1, <1>2, <1>4, <2>3 DEF Shown, cell
<1> QED
  BY <1>3, <1>4

LEMMA SetRatesSets ==
  ASSUME NEW sw, IsInterface(sw), NEW parms, NEW garbage \in Garbage,
         Good(set_rates(sw, parms, garbage))
  PROVE  SetsRatesOf(sw, set_rates(sw, parms, garbage).sw, parms[2],
                     StrToInt[parms[3]], From(parms, 4))
<1> DEFINE known == LookedUpMeter(sw, parms[2], garbage)
           i == StrToInt[parms[3]]
           meter == known.m_meter[parms[2]]
           call == IF meter.isDirect
                     THEN mt_set_meter_rates(known.rt, meter.tableName, i, From(parms, 4))
                     ELSE meter_set_rates(known.rt, parms[2], i, From(parms, 4))
           answer == set_rates(sw, parms, garbage)
<1>1. IsInterface(known) /\ Believes(known, sw) /\ known.rt = sw.rt
  BY LookedUpMeterKeeps
<1>2. answer = Called(known, call)
  <2>1. answer = IF Len(parms) > 3 THEN Called(known, call) ELSE Threw(sw, "PARAMETER_NUM_ERROR")
    BY Zenon DEF set_rates
  <2>2. ~Good(Threw(sw, "PARAMETER_NUM_ERROR"))
    BY ThrewIsNotGood
  <2> HIDE DEF call, known
  <2> QED
    BY <2>1, <2>2
<1> HIDE DEF known, answer
<1>3. call.success /\ answer.sw.rt = call.rt /\ answer.sw.m_meter = known.m_meter
  <2> HIDE DEF call
  <2> QED
    BY <1>1, <1>2, CalledSucceeds DEF answer
<1>4. IsRuntime(known.rt)
  BY <1>1 DEF IsInterface
<1>5. LET rt == known.rt
      IN  /\ Shown(known.m_meter, rt, MeteredTables, MeterArrays, parms[2], i)
          /\ call.rt.entries = rt.entries
          /\ call.rt.rates = [c \in MeterCells |-> IF c = Cell(known.m_meter, parms[2], i)
                                                     THEN From(parms, 4) ELSE rt.rates[c]]
  <2>1. call = IF known.m_meter[parms[2]].isDirect
                 THEN mt_set_meter_rates(known.rt, known.m_meter[parms[2]].tableName, i, From(parms, 4))
                 ELSE meter_set_rates(known.rt, parms[2], i, From(parms, 4))
    BY Zenon
  <2> HIDE DEF call, i
  <2> QED
    BY <1>3, <1>4, <2>1, CallSetsRates
<1> HIDE DEF call, i
<1> QED
  BY <1>1, <1>3, <1>5 DEF SetsRatesOf, Believes, answer, i

\* Then every name of the meter shows them, and no name of another meter
\* shows anything new.
LEMMA RatesAreReadBack ==
  ASSUME NEW sw, IsInterface(sw), NEW later, IsInterface(later),
         NEW m, NEW i, NEW configs, SetsRatesOf(sw, later, m, i, configs),
         m \in DOMAIN later.m_meter, NEW n \in DOMAIN later.m_meter, NEW j
  PROVE  IF Denotes(later.m_meter, n) = Denotes(later.m_meter, m) /\ j = i
           THEN RateOf(later, n, j) = configs
           ELSE n \in DOMAIN sw.m_meter => RateOf(later, n, j) = RateOf(sw, n, j)
<1> DEFINE known == later.m_meter
           shown(a, k) == Shown(known, sw.rt, MeteredTables, MeterArrays, a, k)
<1>1. /\ shown(m, i) /\ later.rt.entries = sw.rt.entries
      /\ later.rt.rates = [c \in MeterCells |-> IF c = Cell(known, m, i)
                                                  THEN configs ELSE sw.rt.rates[c]]
  BY DEF SetsRatesOf
<1>2. \A a, k : Shown(known, later.rt, MeteredTables, MeterArrays, a, k) <=> shown(a, k)
  BY <1>1 DEF Shown, HasEntry
<1>3. \A a \in DOMAIN known : known[a].isDirect \in BOOLEAN
  BY DEF IsInterface
<1>4. \A a, k : shown(a, k) => Cell(known, a, k) \in MeterCells
  BY ShownIsCell, P4ControllerAssumption DEF IsInterface, MeterCells
<1> HIDE DEF shown, known
<1>5. ASSUME Denotes(known, n) = Denotes(known, m), j = i
      PROVE  RateOf(later, n, j) = configs
  <2>1. shown(n, j) /\ Cell(known, n, j) = Cell(known, m, i)
    BY <1>1, <1>3, <1>5, SameCell DEF shown, known
  <2>2. RateOf(later, n, j) = later.rt.rates[Cell(known, n, j)]
    BY <1>2, <2>1 DEF RateOf, known
  <2> QED
    BY <1>1, <1>4, <2>1, <2>2
<1>6. ASSUME ~(Denotes(known, n) = Denotes(known, m) /\ j = i), n \in DOMAIN sw.m_meter
      PROVE  RateOf(later, n, j) = RateOf(sw, n, j)
  <2>1. known[n] = sw.m_meter[n]
    BY <1>6 DEF SetsRatesOf, known
  <2>2. /\ Shown(sw.m_meter, sw.rt, MeteredTables, MeterArrays, n, j) <=> shown(n, j)
        /\ Cell(sw.m_meter, n, j) = Cell(known, n, j)
    BY <2>1 DEF Shown, shown, Cell, Denotes
  <2>3. CASE shown(n, j)
    <3>1. Cell(known, n, j) # Cell(known, m, i)
      <4>1. MeteredTables \cap MeterArrays = {}
        BY P4ControllerAssumption
      <4> QED
        BY <1>1, <1>3, <1>6, <2>3, <4>1, CellTells DEF shown, known
    <3>2. later.rt.rates[Cell(known, n, j)] = sw.rt.rates[Cell(known, n, j)]
      BY <1>1, <1>4, <2>3, <3>1
    <3> QED
      BY <1>2, <2>2, <2>3, <3>2 DEF RateOf, known
  <2>4. CASE ~shown(n, j)
    BY <1>2, <2>2, <2>4 DEF RateOf, known
  <2> QED
    BY <2>3, <2>4
<1> QED
  BY <1>5, <1>6 DEF known

\* What the property says of one line, with the interfaces before and after.
ReadBack(sw, later, parms) ==
  LET known == later.m_meter
  IN  \A m \in DOMAIN known, index \in DOMAIN StrToInt :
        LET get   == <<"meter_get_rates", m, index>>
            after == Shows(later, get)
        IN  IF /\ Denotes(known, m) = Denotes(known, parms[2])
               /\ StrToInt[index] = StrToInt[parms[3]]
              THEN after = From(parms, 4)
              ELSE m \in DOMAIN sw.m_meter => after = Shows(sw, get)

LEMMA SetRatesReadsBack ==
  ASSUME NEW sw, IsInterface(sw), NEW parms, NEW garbage \in Garbage,
         Good(set_rates(sw, parms, garbage))
  PROVE  ReadBack(sw, set_rates(sw, parms, garbage).sw, parms)
<1> DEFINE later == set_rates(sw, parms, garbage).sw
           i == StrToInt[parms[3]]
<1>1. IsInterface(later)
  BY SetRatesCommandKeeps
<1>2. parms[2] \in DOMAIN later.m_meter
  <2> DEFINE known == LookedUpMeter(sw, parms[2], garbage)
  <2>1. IsInterface(known) /\ parms[2] \in DOMAIN known.m_meter
    BY LookedUpMeterKeeps
  <2>2. \E call : set_rates(sw, parms, garbage) = Called(known, call)
    <3>1. set_rates(sw, parms, garbage) # Threw(sw, "PARAMETER_NUM_ERROR")
      BY ThrewIsNotGood
    <3> QED
      BY <3>1, Zenon DEF set_rates
  <2> HIDE DEF known
  <2> QED
    BY <2>1, <2>2, CalledSucceeds
<1>3. SetsRatesOf(sw, later, parms[2], i, From(parms, 4))
  BY SetRatesSets
<1> HIDE DEF later
<1>4. \A m \in DOMAIN later.m_meter, index \in DOMAIN StrToInt :
        LET after == RateOf(later, m, StrToInt[index])
        IN  IF Denotes(later.m_meter, m) = Denotes(later.m_meter, parms[2]) /\ StrToInt[index] = i
              THEN after = From(parms, 4)
              ELSE m \in DOMAIN sw.m_meter => after = RateOf(sw, m, StrToInt[index])
  BY <1>1, <1>2, <1>3, RatesAreReadBack
<1>5. /\ \A m \in DOMAIN later.m_meter, index \in DOMAIN StrToInt :
           Shows(later, <<"meter_get_rates", m, index>>) = RateOf(later, m, StrToInt[index])
      /\ \A m \in DOMAIN sw.m_meter, index \in DOMAIN StrToInt :
           Shows(sw, <<"meter_get_rates", m, index>>) = RateOf(sw, m, StrToInt[index])
  BY RatesAreShown
<1>6. ReadBack(sw, later, parms)
  BY <1>4, <1>5 DEF ReadBack
<1> QED
  BY <1>6 DEF later

LEMMA MetersReadBack ==
  ASSUME ControlInv, NEW i \in Switches, NEW garbage \in Garbage,
         NEW parms \in Named(PopulateCommands \cup FileLines, "meter_set_rates"),
         Accepted(i, parms, garbage)
  PROVE  ReadBack(m_p4Switches[i], m_p4Switches'[i], parms)
<1>1. parms # <<>> /\ parms[1] = "meter_set_rates"
  BY DEF Named
<1> DEFINE answer == ParsePopulateFlowTableCommand(m_p4Switches[i], parms, garbage)
<1>2. IsInterface(m_p4Switches[i]) /\ Good(answer) /\ m_p4Switches'[i] = answer.sw
  BY AcceptedAnswers DEF ControlInv
<1>3. answer = set_rates(m_p4Switches[i], parms, garbage)
  BY <1>1, IsSetRates
<1> QED
  BY <1>2, <1>3, SetRatesReadsBack

\* Rates that were set are the rates that are shown, under every name of the
\* meter and under no name of another.
THEOREM RatesReadBack == Spec => MeterReadBack
<1>1. ControlInv /\ [Next]_vars =>
        [\A i \in Switches, garbage \in Garbage,
            parms \in Named(PopulateCommands \cup FileLines, "meter_set_rates") :
           Accepted(i, parms, garbage) =>
             LET known == m_p4Switches'[i].m_meter
             IN  \A m \in DOMAIN known, index \in DOMAIN StrToInt :
                   LET get   == <<"meter_get_rates", m, index>>
                       after == Shows(m_p4Switches'[i], get)
                   IN  IF /\ Denotes(known, m) = Denotes(known, parms[2])
                          /\ StrToInt[index] = StrToInt[parms[3]]
                         THEN after = From(parms, 4)
                         ELSE m \in DOMAIN m_p4Switches[i].m_meter =>
                                after = Shows(m_p4Switches[i], get)]_vars
  BY MetersReadBack DEF ReadBack
<1> QED
  BY <1>1, ControlHolds, PTL DEF Spec, MeterReadBack

-----------------------------------------------------------------------------
(* Counters count.                                                         *)

\* One interface before and after: what it knows of counters and its entries
\* are the same.
SameCounters(sw, later) ==
  later.m_counter = sw.m_counter /\ later.rt.entries = sw.rt.entries

LEMMA CounterCellsTell ==
  ASSUME NEW sw, IsInterface(sw), NEW a \in DOMAIN sw.m_counter, NEW i,
         NEW b \in DOMAIN sw.m_counter, NEW j,
         Shown(sw.m_counter, sw.rt, CountedTables, CounterArrays, a, i),
         Shown(sw.m_counter, sw.rt, CountedTables, CounterArrays, b, j),
         Cell(sw.m_counter, a, i) = Cell(sw.m_counter, b, j)
  PROVE  Denotes(sw.m_counter, a) = Denotes(sw.m_counter, b) /\ i = j
<1>1. CountedTables \cap CounterArrays = {}
  BY P4ControllerAssumption
<1>2. sw.m_counter[a].isDirect \in BOOLEAN /\ sw.m_counter[b].isDirect \in BOOLEAN
  BY DEF IsInterface
<1> QED
  BY <1>1, <1>2, CellTells

\* A counter that shows something else than before has a cell whose count is
\* another one.
LEMMA MovedCell ==
  ASSUME NEW sw, IsInterface(sw), NEW later, SameCounters(sw, later),
         NEW c \in DOMAIN sw.m_counter, NEW i,
         CountOf(later, c, i) # CountOf(sw, c, i)
  PROVE  LET cell == Cell(sw.m_counter, c, i)
         IN  /\ Shown(sw.m_counter, sw.rt, CountedTables, CounterArrays, c, i)
             /\ cell \in CounterCells
             /\ later.rt.counts[cell] # sw.rt.counts[cell]
             /\ CountOf(later, c, i) = later.rt.counts[cell]
             /\ CountOf(sw, c, i) = sw.rt.counts[cell]
<1> DEFINE cell == Cell(sw.m_counter, c, i)
           shown == Shown(sw.m_counter, sw.rt, CountedTables, CounterArrays, c, i)
<1>1. Shown(later.m_counter, later.rt, CountedTables, CounterArrays, c, i) <=> shown
  BY DEF SameCounters, Shown, HasEntry
<1>2. Cell(later.m_counter, c, i) = cell
  BY DEF SameCounters
<1>3. shown => cell \in CounterCells
  BY ShownIsCell, P4ControllerAssumption DEF IsInterface, CounterCells
<1> HIDE DEF shown, cell
<1>4. CountOf(later, c, i) = IF shown THEN later.rt.counts[cell] ELSE NotShown
  BY <1>1, <1>2 DEF CountOf
<1>5. CountOf(sw, c, i) = IF shown THEN sw.rt.counts[cell] ELSE NotShown
  BY DEF CountOf, shown, cell
<1> QED
  BY <1>3, <1>4, <1>5 DEF shown, cell

\* A packet adds one to one cell.
AddsOne(sw, later, cell) == later.rt.counts = [sw.rt.counts EXCEPT ![cell] = @ + 1]

LEMMA CountCounts ==
  ASSUME SwitchesInv, NEW i \in Switches, count(i)
  PROVE  LET sw == m_p4Switches[i]
             later == m_p4Switches'[i]
         IN  /\ SameCounters(sw, later)
             /\ \E cell \in CounterCells : AddsOne(sw, later, cell)
<1> PICK cell \in HitCells(m_p4Switches[i].rt) :
           m_p4Switches' = [m_p4Switches EXCEPT ![i].rt.counts[cell] = @ + 1]
  BY DEF count
<1> DEFINE sw == m_p4Switches[i]
           later == m_p4Switches'[i]
           next == [sw EXCEPT !.rt.counts[cell] = @ + 1]
<1>1. IsInterface(sw) /\ cell \in CounterCells
  BY DEF SwitchesInv, HitCells
<1>2. later = next
  <2>1. m_p4Switches' = [m_p4Switches EXCEPT ![i] = next]
    OBVIOUS
  <2> HIDE DEF next
  <2> QED
    BY <2>1 DEF Switches
<1> HIDE DEF sw, later
<1>3. next.m_counter = sw.m_counter /\ next.rt = [sw.rt EXCEPT !.counts[cell] = @ + 1]
  BY <1>1 DEF IsInterface
<1>4. DOMAIN sw.rt = {"entries", "default_action", "rates", "counts", "registers"}
  BY <1>1 DEF IsInterface, IsRuntime
<1> HIDE DEF next
<1>5. next.rt.entries = sw.rt.entries /\ next.rt.counts = [sw.rt.counts EXCEPT ![cell] = @ + 1]
  BY <1>3, <1>4
<1> QED
  <2>1. SameCounters(sw, later) /\ AddsOne(sw, later, cell)
    BY <1>2, <1>3, <1>5 DEF SameCounters, AddsOne
  <2> QED
    BY <1>1, <2>1 DEF sw, later

\* So what one counter shows is one more, and no other counter shows anything
\* new.
LEMMA CountMoves ==
  ASSUME NEW sw, IsInterface(sw), NEW later, SameCounters(sw, later),
         NEW cell \in CounterCells, AddsOne(sw, later, cell),
         NEW c \in DOMAIN sw.m_counter, NEW i, CountOf(later, c, i) # CountOf(sw, c, i)
  PROVE  /\ CountOf(later, c, i) = CountOf(sw, c, i) + 1
         /\ \A d \in DOMAIN sw.m_counter : \A j :
              CountOf(later, d, j) # CountOf(sw, d, j) =>
                Denotes(sw.m_counter, c) = Denotes(sw.m_counter, d) /\ i = j
<1>1. DOMAIN sw.rt.counts = CounterCells
  BY DEF IsInterface, IsRuntime
<1>2. \A other \in CounterCells : other # cell => later.rt.counts[other] = sw.rt.counts[other]
  BY <1>1 DEF AddsOne
<1>3. later.rt.counts[cell] = sw.rt.counts[cell] + 1
  BY <1>1 DEF AddsOne
<1>4. ASSUME NEW d \in DOMAIN sw.m_counter, NEW j, CountOf(later, d, j) # CountOf(sw, d, j)
      PROVE  /\ Shown(sw.m_counter, sw.rt, CountedTables, CounterArrays, d, j)
             /\ Cell(sw.m_counter, d, j) = cell
             /\ CountOf(later, d, j) = later.rt.counts[cell]
             /\ CountOf(sw, d, j) = sw.rt.counts[cell]
  <2> DEFINE moved == Cell(sw.m_counter, d, j)
  <2>1. /\ Shown(sw.m_counter, sw.rt, CountedTables, CounterArrays, d, j)
        /\ moved \in CounterCells /\ later.rt.counts[moved] # sw.rt.counts[moved]
        /\ CountOf(later, d, j) = later.rt.counts[moved]
        /\ CountOf(sw, d, j) = sw.rt.counts[moved]
    BY <1>4, MovedCell
  <2> HIDE DEF moved
  <2>2. moved = cell
    BY <1>2, <2>1
  <2> QED
    BY <2>1, <2>2 DEF moved
<1>5. CountOf(later, c, i) = CountOf(sw, c, i) + 1
  BY <1>3, <1>4
<1>6. ASSUME NEW d \in DOMAIN sw.m_counter, NEW j, CountOf(later, d, j) # CountOf(sw, d, j)
      PROVE  Denotes(sw.m_counter, c) = Denotes(sw.m_counter, d) /\ i = j
  <2>1. /\ Shown(sw.m_counter, sw.rt, CountedTables, CounterArrays, c, i)
        /\ Shown(sw.m_counter, sw.rt, CountedTables, CounterArrays, d, j)
        /\ Cell(sw.m_counter, c, i) = Cell(sw.m_counter, d, j)
    BY <1>4, <1>6
  <2> QED
    BY <2>1, CounterCellsTell
<1> QED
  BY <1>5, <1>6

\* A reset leaves zero in the cells of what the name stands for.
CellsOf(counter, name) ==
  IF counter.isDirect THEN {counter.tableName} \X Handles ELSE {name} \X Indices

ResetsCounter(sw, later, name) ==
  LET counter == sw.m_counter[name]
  IN  /\ SameCounters(sw, later)
      /\ name \in DOMAIN sw.m_counter
      /\ later.rt.counts = [c \in CounterCells |-> IF c \in CellsOf(counter, name)
                                                     THEN 0 ELSE sw.rt.counts[c]]
      /\ IF counter.isDirect THEN counter.tableName \in CountedTables ELSE name \in CounterArrays

LEMMA ResetResets ==
  ASSUME NEW sw, IsInterface(sw), NEW parms, Good(counter_reset(sw, parms))
  PROVE  ResetsCounter(sw, counter_reset(sw, parms).sw, parms[2])
<1> DEFINE name == parms[2]
           counter == sw.m_counter[name]
           call == IF counter.isDirect THEN mt_reset_counters(sw.rt, counter.tableName)
                                       ELSE reset_counters(sw.rt, name)
           cells == CellsOf(counter, name)
           counts == [c \in CounterCells |-> IF c \in cells THEN 0 ELSE sw.rt.counts[c]]
           answer == counter_reset(sw, parms)
<1>1. name \in DOMAIN sw.m_counter /\ answer = Called(sw, call)
  <2>1. answer = IF name \notin DOMAIN sw.m_counter THEN Threw(sw, "COUNTER_NO_EXIST")
                 ELSE Called(sw, call)
    BY Zenon DEF counter_reset
  <2>2. ~Good(Threw(sw, "COUNTER_NO_EXIST"))
    BY ThrewIsNotGood
  <2> HIDE DEF call, name
  <2> QED
    BY <2>1, <2>2
<1> HIDE DEF answer
<1>2. call.success /\ answer.sw.rt = call.rt /\ answer.sw.m_counter = sw.m_counter
  <2> HIDE DEF call
  <2> QED
    BY <1>1, CalledSucceeds DEF answer
<1>3. ResetCounts(sw.rt, cells).rt.entries = sw.rt.entries
      /\ ResetCounts(sw.rt, cells).rt.counts = counts
  <2>1. ResetCounts(sw.rt, cells).rt = [sw.rt EXCEPT !.counts = counts]
    BY DEF ResetCounts, Success
  <2>2. DOMAIN sw.rt = {"entries", "default_action", "rates", "counts", "registers"}
    BY DEF IsInterface, IsRuntime
  <2> HIDE DEF counts, cells
  <2> QED
    BY <2>1, <2>2
<1>4. /\ call = ResetCounts(sw.rt, cells)
      /\ IF counter.isDirect THEN counter.tableName \in CountedTables ELSE name \in CounterArrays
  <2>1. CASE counter.isDirect
    <3>1. call = mt_reset_counters(sw.rt, counter.tableName)
          /\ cells = {counter.tableName} \X Handles
      BY <2>1 DEF CellsOf
    <3> HIDE DEF call, cells, counter
    <3> QED
      BY <1>2, <2>1, <3>1 DEF mt_reset_counters, Refused
  <2>2. CASE ~counter.isDirect
    <3>1. call = reset_counters(sw.rt, name) /\ cells = {name} \X Indices
      BY <2>2 DEF CellsOf
    <3> HIDE DEF call, cells, counter
    <3> QED
      BY <1>2, <2>2, <3>1 DEF reset_counters, Refused
  <2> QED
    BY <2>1, <2>2
<1>5. SameCounters(sw, answer.sw)
  <2> HIDE DEF call, cells, counts
  <2> QED
    BY <1>2, <1>3, <1>4 DEF SameCounters
<1>6. answer.sw.rt.counts = counts
  <2> HIDE DEF call, cells, counts
  <2> QED
    BY <1>2, <1>3, <1>4
<1> HIDE DEF call
<1>7. ResetsCounter(sw, answer.sw, name)
  BY <1>1, <1>4, <1>5, <1>6 DEF ResetsCounter
<1> QED
  BY <1>7 DEF answer

LEMMA ResetMoves ==
  ASSUME NEW sw, IsInterface(sw), NEW later, NEW name, ResetsCounter(sw, later, name),
         NEW c \in DOMAIN sw.m_counter, NEW i
  PROVE  /\ CountOf(later, c, i) # CountOf(sw, c, i) =>
              Denotes(sw.m_counter, c) = Denotes(sw.m_counter, name)
         /\ Denotes(sw.m_counter, c) = Denotes(sw.m_counter, name) =>
              CountOf(later, c, i) \in {0, NotShown}
<1> DEFINE known == sw.m_counter
           where(n) == IF known[n].isDirect THEN known[n].tableName ELSE n
           shown == Shown(known, sw.rt, CountedTables, CounterArrays, c, i)
           cell == Cell(known, c, i)
<1>1. SameCounters(sw, later) /\ name \in DOMAIN known
  BY DEF ResetsCounter
<1> DEFINE cells == CellsOf(known[name], name)
<1>2. /\ later.rt.counts = [d \in CounterCells |-> IF d \in cells THEN 0 ELSE sw.rt.counts[d]]
      /\ cells = IF known[name].isDirect THEN {known[name].tableName} \X Handles
                                         ELSE {name} \X Indices
      /\ IF known[name].isDirect THEN known[name].tableName \in CountedTables
                                 ELSE name \in CounterArrays
  BY DEF ResetsCounter, CellsOf
<1> HIDE DEF cells
<1>3. known[c].isDirect \in BOOLEAN /\ known[name].isDirect \in BOOLEAN
  BY <1>1 DEF IsInterface
<1>4. \A n : /\ Denotes(known, n)[1] = known[n].isDirect /\ Denotes(known, n)[2] = where(n)
             /\ Denotes(known, n) = <<known[n].isDirect, where(n)>>
  BY DEF Denotes
<1>5. cell = <<where(c), i>>
  BY <1>4 DEF Cell
<1>6. shown => /\ cell \in CounterCells
               /\ known[c].isDirect => where(c) \in CountedTables /\ i \in Handles
               /\ ~known[c].isDirect => where(c) \in CounterArrays /\ i \in Indices
  <2>1. shown => cell \in CounterCells
    BY ShownIsCell, P4ControllerAssumption DEF IsInterface, CounterCells
  <2>2. \A t \in Tables : DOMAIN sw.rt.entries[t] \subseteq Handles
    BY DEF IsInterface, IsRuntime
  <2> QED
    BY <2>1, <2>2 DEF Shown, HasEntry
<1>7. CountedTables \cap CounterArrays = {}
  BY P4ControllerAssumption
<1> HIDE DEF shown, cell
<1>8. ASSUME CountOf(later, c, i) # CountOf(sw, c, i)
      PROVE  Denotes(known, c) = Denotes(known, name)
  <2>1. shown /\ later.rt.counts[cell] # sw.rt.counts[cell]
    BY <1>1, <1>8, MovedCell DEF shown, cell
  <2>2. cell \in cells
    BY <1>2, <1>6, <2>1
  <2>3. where(c) = where(name)
    BY <1>2, <1>5, <2>2
  <2>4. known[c].isDirect = known[name].isDirect
    BY <1>2, <1>3, <1>6, <1>7, <2>1, <2>3
  <2> QED
    BY <1>4, <2>3, <2>4
<1>9. ASSUME Denotes(known, c) = Denotes(known, name)
      PROVE  CountOf(later, c, i) \in {0, NotShown}
  <2>1. known[c].isDirect = known[name].isDirect /\ where(c) = where(name)
    BY <1>4, <1>9
  <2>2. CASE shown
    <3>1. cell \in cells
      BY <1>2, <1>5, <1>6, <2>1, <2>2
    <3>2. later.rt.counts[cell] = 0
      BY <1>2, <1>6, <2>2, <3>1
    <3> QED
      BY <1>1, <3>2 DEF CountOf, SameCounters, cell
  <2>3. CASE ~shown
    <3>1. ~Shown(later.m_counter, later.rt, CountedTables, CounterArrays, c, i)
      BY <1>1, <2>3 DEF SameCounters, Shown, HasEntry, shown
    <3> QED
      BY <3>1 DEF CountOf
  <2> QED
    BY <2>2, <2>3
<1> QED
  BY <1>8, <1>9

\* What the property says of one interface before and after.
Counts(sw, later) ==
  LET before == Readings(sw)
      after  == Readings(later)
      moved  == {c \in DOMAIN before : after[c] # before[c]}
      known  == sw.m_counter
  IN  \A c \in moved :
        /\ after[c] = before[c] + 1
        /\ \A d \in moved : /\ Denotes(known, c[1]) = Denotes(known, d[1])
                            /\ StrToInt[c[2]] = StrToInt[d[2]]

Resets(sw, later, name) ==
  LET before == Readings(sw)
      after  == Readings(later)
      moved  == {c \in DOMAIN before : after[c] # before[c]}
      known  == sw.m_counter
  IN  /\ \A c \in moved : Denotes(known, c[1]) = Denotes(known, name)
      /\ \A c \in DOMAIN after :
           Denotes(known, c[1]) = Denotes(known, name) => after[c] \in {0, NotShown}

LEMMA ReadingsAreCounts ==
  ASSUME NEW sw
  PROVE  /\ DOMAIN Readings(sw) = (DOMAIN sw.m_counter) \X (DOMAIN StrToInt)
         /\ \A c \in DOMAIN Readings(sw) :
              /\ c[1] \in DOMAIN sw.m_counter
              /\ Readings(sw)[c] = CountOf(sw, c[1], StrToInt[c[2]])
<1>1. DOMAIN Readings(sw) = (DOMAIN sw.m_counter) \X (DOMAIN StrToInt)
  BY DEF Readings
<1>2. ASSUME NEW c \in (DOMAIN sw.m_counter) \X (DOMAIN StrToInt)
      PROVE  /\ c[1] \in DOMAIN sw.m_counter
             /\ Readings(sw)[c] = CountOf(sw, c[1], StrToInt[c[2]])
  <2>1. c[1] \in DOMAIN sw.m_counter
    OBVIOUS
  <2>2. Shows(sw, <<"counter_read", c[1], c[2]>>) = CountOf(sw, c[1], StrToInt[c[2]])
    BY <2>1, CountsAreShown
  <2>3. Readings(sw)[c] = Shows(sw, <<"counter_read", c[1], c[2]>>)
    BY DEF Readings
  <2> QED
    BY <2>1, <2>2, <2>3
<1> QED
  BY <1>1, <1>2

LEMMA PacketsCount ==
  ASSUME ControlInv, NEW i \in Switches, count(i)
  PROVE  Counts(m_p4Switches[i], m_p4Switches'[i])
<1> DEFINE sw == m_p4Switches[i]
           later == m_p4Switches'[i]
<1>1. IsInterface(sw)
  BY DEF ControlInv, SwitchesInv
<1>2. /\ SameCounters(sw, later)
      /\ \E cell \in CounterCells : AddsOne(sw, later, cell)
  BY CountCounts DEF ControlInv
<1> HIDE DEF sw, later
<1> PICK cell \in CounterCells : AddsOne(sw, later, cell)
  BY <1>2
<1>3. DOMAIN Readings(later) = DOMAIN Readings(sw)
  BY <1>2, ReadingsAreCounts DEF SameCounters
<1>4. ASSUME NEW c \in DOMAIN Readings(sw), Readings(later)[c] # Readings(sw)[c]
      PROVE  /\ Readings(later)[c] = Readings(sw)[c] + 1
             /\ \A d \in DOMAIN Readings(sw) : Readings(later)[d] # Readings(sw)[d] =>
                  /\ Denotes(sw.m_counter, c[1]) = Denotes(sw.m_counter, d[1])
                  /\ StrToInt[c[2]] = StrToInt[d[2]]
  <2>1. \A d \in DOMAIN Readings(sw) :
          /\ d[1] \in DOMAIN sw.m_counter
          /\ Readings(sw)[d] = CountOf(sw, d[1], StrToInt[d[2]])
          /\ Readings(later)[d] = CountOf(later, d[1], StrToInt[d[2]])
    BY <1>3, ReadingsAreCounts
  <2>2. c[1] \in DOMAIN sw.m_counter
        /\ CountOf(later, c[1], StrToInt[c[2]]) # CountOf(sw, c[1], StrToInt[c[2]])
    BY <1>4, <2>1
  <2>3. /\ CountOf(later, c[1], StrToInt[c[2]]) = CountOf(sw, c[1], StrToInt[c[2]]) + 1
        /\ \A d \in DOMAIN sw.m_counter : \A j :
             CountOf(later, d, j) # CountOf(sw, d, j) =>
               Denotes(sw.m_counter, c[1]) = Denotes(sw.m_counter, d) /\ StrToInt[c[2]] = j
    BY <1>1, <1>2, <2>2, CountMoves
  <2> QED
    BY <2>1, <2>3
<1> QED
  BY <1>4 DEF Counts, sw, later

LEMMA IsCounterReset ==
  ASSUME NEW sw, NEW parms, parms # <<>>, parms[1] = "counter_reset",
         Good(ParseAttainFlowTableInfoCommand(sw, parms))
  PROVE  ParseAttainFlowTableInfoCommand(sw, parms) = counter_reset(sw, parms)
<1>1. ParseAttainFlowTableInfoCommand(sw, parms) = WithWords(sw, parms, 2, counter_reset(sw, parms))
  BY DEF ParseAttainFlowTableInfoCommand, CommandType, g_apiMap
<1>2. ~Good(Threw(sw, "PARAMETER_NUM_ERROR"))
  BY ThrewIsNotGood
<1> QED
  BY <1>1, <1>2 DEF WithWords

LEMMA CountersReset ==
  ASSUME ControlInv, NEW i \in Switches,
         NEW parms \in Named(AttainCommands \cup FileLines, "counter_reset"),
         Attains(i, parms), Good(ParseAttainFlowTableInfoCommand(m_p4Switches[i], parms))
  PROVE  Resets(m_p4Switches[i], m_p4Switches'[i], parms[2])
<1> DEFINE sw == m_p4Switches[i]
           later == m_p4Switches'[i]
           answer == ParseAttainFlowTableInfoCommand(sw, parms)
           name == parms[2]
<1>1. IsInterface(sw)
  BY DEF ControlInv, SwitchesInv
<1>2. later = answer.sw
  <2>1. m_p4Switches' = [m_p4Switches EXCEPT ![i] = answer.sw]
    <3>1. CASE GiveAttainCommand(i, parms)
      BY <3>1 DEF GiveAttainCommand
    <3>2. CASE AttainSwitchFlowTableInfo /\ calls[1].at = i /\ Line = parms
      BY <3>2 DEF AttainSwitchFlowTableInfo
    <3> QED
      BY <3>1, <3>2 DEF Attains
  <2> HIDE DEF answer
  <2> QED
    BY <2>1 DEF Switches
<1>3. answer = counter_reset(sw, parms)
  BY IsCounterReset DEF Named
<1>4. ResetsCounter(sw, later, name)
  BY <1>1, <1>2, <1>3, ResetResets
<1> HIDE DEF sw, later, name
<1>5. DOMAIN Readings(later) = DOMAIN Readings(sw)
  BY <1>4, ReadingsAreCounts DEF SameCounters, ResetsCounter
<1>6. \A d \in DOMAIN Readings(sw) :
        /\ d[1] \in DOMAIN sw.m_counter
        /\ Readings(sw)[d] = CountOf(sw, d[1], StrToInt[d[2]])
        /\ Readings(later)[d] = CountOf(later, d[1], StrToInt[d[2]])
  BY <1>5, ReadingsAreCounts
<1>7. \A d \in DOMAIN Readings(sw) :
        /\ Readings(later)[d] # Readings(sw)[d] =>
             Denotes(sw.m_counter, d[1]) = Denotes(sw.m_counter, name)
        /\ Denotes(sw.m_counter, d[1]) = Denotes(sw.m_counter, name) =>
             Readings(later)[d] \in {0, NotShown}
  BY <1>1, <1>4, <1>6, ResetMoves
<1> QED
  BY <1>5, <1>7 DEF Resets, sw, later, name

\* Counters count: a packet in one of them, once; a reset in none but the one
\* it names.
THEOREM CountersAreCounted == Spec => CountersCount
<1>1. ControlInv /\ [Next]_vars =>
        [\A i \in Switches :
           LET before == Readings(m_p4Switches[i])
               after  == Readings(m_p4Switches'[i])
               moved  == {c \in DOMAIN before : after[c] # before[c]}
               known  == m_p4Switches[i].m_counter
           IN  /\ count(i) =>
                    \A c \in moved :
                      /\ after[c] = before[c] + 1
                      /\ \A d \in moved : /\ Denotes(known, c[1]) = Denotes(known, d[1])
                                          /\ StrToInt[c[2]] = StrToInt[d[2]]
               /\ \A parms \in Named(AttainCommands \cup FileLines, "counter_reset") :
                    /\ Attains(i, parms)
                    /\ ParseAttainFlowTableInfoCommand(m_p4Switches[i], parms).error = ""
                    => /\ \A c \in moved : Denotes(known, c[1]) = Denotes(known, parms[2])
                       /\ \A c \in DOMAIN after :
                            Denotes(known, c[1]) = Denotes(known, parms[2]) => after[c] \in {0, NotShown}]_vars
  <2>1. ASSUME ControlInv, NEW i \in Switches, count(i)
        PROVE  Counts(m_p4Switches[i], m_p4Switches'[i])
    BY <2>1, PacketsCount
  <2>2. ASSUME ControlInv, NEW i \in Switches,
               NEW parms \in Named(AttainCommands \cup FileLines, "counter_reset"),
               Attains(i, parms),
               ParseAttainFlowTableInfoCommand(m_p4Switches[i], parms).error = ""
        PROVE  Resets(m_p4Switches[i], m_p4Switches'[i], parms[2])
    <3>1. Good(ParseAttainFlowTableInfoCommand(m_p4Switches[i], parms))
      BY <2>2 DEF Good
    <3> QED
      BY <2>2, <3>1, CountersReset
  <2> QED
    BY <2>1, <2>2 DEF Counts, Resets
<1> QED
  BY <1>1, ControlHolds, PTL DEF Spec, CountersCount

-----------------------------------------------------------------------------
(* What the P4 info file says is kept.                                     *)

Info == Lines(m_p4InfoPath)

\* The interface believes what the first n lines of the file say.
KnowsInfo(sw, n) ==
  \A k \in 1 .. n :
    Complete(Info[k]) /\ (\A l \in k + 1 .. n : ~Repeats(Info[l], Info[k])) =>
      Believed(sw, Info[k])

IsRead(r) ==
  /\ DOMAIN r = {"elementType", "tableName", "matchType", "isDirect", "name"}
  /\ DOMAIN r.name = {"meter", "counter"}

Where(r) == [isDirect |-> r.isDirect = 1, tableName |-> r.tableName]

\* What was read last has been stored: an empty line, which stores it again,
\* changes nothing.
ReadFits(sw, r) ==
  /\ r.elementType = "table" /\ r.matchType \in MatchTypes =>
       r.tableName \in DOMAIN sw.m_flowTable /\ sw.m_flowTable[r.tableName] = r.matchType
  /\ r.elementType = "meter" =>
       r.name["meter"] \in DOMAIN sw.m_meter /\ sw.m_meter[r.name["meter"]] = Where(r)
  /\ r.elementType = "counter" =>
       r.name["counter"] \in DOMAIN sw.m_counter /\ sw.m_counter[r.name["counter"]] = Where(r)

ReadsInfo == calls # <<>> /\ calls[1].function = "ReadP4Info"

\* The inductive invariant behind InfoKept.
InfoInv ==
  /\ way = "LOCAL_CALL" => \A i \in Switches : KnowsInfo(m_p4Switches[i], InfoRead(i))
  /\ IsRead(read)
  /\ ReadsInfo => ReadFits(m_p4Switches[calls[1].at], read)

\* One line read, in terms of the maps.
LEMMA ElementIsRead ==
  ASSUME NEW r, IsRead(r), NEW line
  PROVE  LET next    == ReadElement(r, line)
             element == Word(line, 1, r.elementType)
         IN  /\ IsRead(next) /\ next.elementType = element
             /\ element = "table" =>
                  /\ next.tableName = Word(line, 2, r.tableName)
                  /\ next.matchType = Word(line, 3, r.matchType)
             /\ element \in {"meter", "counter"} =>
                  /\ next.name[element] = Word(line, 2, r.name[element])
                  /\ next.isDirect = Flag(line, r.isDirect)
                  /\ next.tableName = NameBehindFlag(line, r.tableName)
<1> DEFINE element == Word(line, 1, r.elementType)
           two(old) == Word(line, 2, old)
           three(old) == Word(line, 3, old)
           flag(old) == Flag(line, old)
           behind(old) == NameBehindFlag(line, old)
           next == ReadElement(r, line)
<1>1. CASE element = "table"
  <2>1. next = [r EXCEPT !.elementType = element, !.tableName = two(@), !.matchType = three(@)]
    BY <1>1 DEF ReadElement
  <2> HIDE DEF next, element, two, three
  <2> QED
    BY <1>1, <2>1 DEF IsRead, next, element, two, three
<1>2. CASE element \in {"meter", "counter"}
  <2>1. next = [r EXCEPT !.elementType = element, !.name[element] = two(@),
                         !.isDirect = flag(@), !.tableName = behind(@)]
    BY <1>2 DEF ReadElement
  <2> HIDE DEF next, element, two, flag, behind
  <2> QED
    BY <1>2, <2>1 DEF IsRead, next, element, two, flag, behind
<1>3. CASE element \notin {"table", "meter", "counter"}
  <2>1. next = [r EXCEPT !.elementType = element]
    BY <1>3 DEF ReadElement
  <2> HIDE DEF next, element
  <2> QED
    BY <1>3, <2>1 DEF IsRead, next, element
<1> QED
  BY <1>1, <1>2, <1>3

\* The interface after it: the element is assigned, and the rest is what it
\* was.
Stored(sw, later, r) ==
  /\ LET t == r.tableName
         m == r.name["meter"]
         c == r.name["counter"]
     IN  /\ r.elementType = "table" /\ r.matchType \in MatchTypes =>
              t \in DOMAIN later.m_flowTable /\ later.m_flowTable[t] = r.matchType
         /\ r.elementType = "meter" =>
              m \in DOMAIN later.m_meter /\ later.m_meter[m] = Where(r)
         /\ r.elementType = "counter" =>
              c \in DOMAIN later.m_counter /\ later.m_counter[c] = Where(r)
         /\ \A n \in DOMAIN sw.m_flowTable :
              ~(r.elementType = "table" /\ r.matchType \in MatchTypes /\ n = t) =>
                n \in DOMAIN later.m_flowTable /\ later.m_flowTable[n] = sw.m_flowTable[n]
         /\ \A n \in DOMAIN sw.m_meter :
              ~(r.elementType = "meter" /\ n = m) =>
                n \in DOMAIN later.m_meter /\ later.m_meter[n] = sw.m_meter[n]
         /\ \A n \in DOMAIN sw.m_counter :
              ~(r.elementType = "counter" /\ n = c) =>
                n \in DOMAIN later.m_counter /\ later.m_counter[n] = sw.m_counter[n]

LEMMA AssignedIs ==
  ASSUME NEW map, NEW name, NEW value
  PROVE  LET next == Assigned(map, name, value)
         IN  /\ name \in DOMAIN next /\ next[name] = value
             /\ \A n \in DOMAIN map : n # name => n \in DOMAIN next /\ next[n] = map[n]
  BY DEF Assigned

LEMMA ElementIsStored ==
  ASSUME NEW sw, IsInterface(sw), NEW r
  PROVE  Stored(sw, WithElement(sw, r), r)
<1> DEFINE later == WithElement(sw, r)
           table == Assigned(sw.m_flowTable, r.tableName, r.matchType)
           meter == Assigned(sw.m_meter, r.name["meter"], Where(r))
           counter == Assigned(sw.m_counter, r.name["counter"], Where(r))
<1>1. CASE r.elementType = "table" /\ r.matchType \in MatchTypes
  <2>1. later = [sw EXCEPT !.m_flowTable = table]
    BY <1>1 DEF WithElement
  <2>2. later.m_flowTable = table /\ later.m_meter = sw.m_meter /\ later.m_counter = sw.m_counter
    <3> HIDE DEF later, table
    <3> QED
      BY <2>1 DEF IsInterface
  <2> HIDE DEF later
  <2> QED
    BY <1>1, <2>2, AssignedIs DEF Stored, later
<1>2. CASE r.elementType = "meter"
  <2>1. later = [sw EXCEPT !.m_meter = meter]
    BY <1>2 DEF WithElement, Where
  <2>2. later.m_flowTable = sw.m_flowTable /\ later.m_meter = meter /\ later.m_counter = sw.m_counter
    <3> HIDE DEF later, meter
    <3> QED
      BY <2>1 DEF IsInterface
  <2> HIDE DEF later
  <2> QED
    BY <1>2, <2>2, AssignedIs DEF Stored, later
<1>3. CASE r.elementType = "counter"
  <2>1. later = [sw EXCEPT !.m_counter = counter]
    BY <1>3 DEF WithElement, Where
  <2>2. later.m_flowTable = sw.m_flowTable /\ later.m_meter = sw.m_meter /\ later.m_counter = counter
    <3> HIDE DEF later, counter
    <3> QED
      BY <2>1 DEF IsInterface
  <2> HIDE DEF later
  <2> QED
    BY <1>3, <2>2, AssignedIs DEF Stored, later
<1>4. CASE /\ ~(r.elementType = "table" /\ r.matchType \in MatchTypes)
           /\ r.elementType \notin {"meter", "counter"}
  <2>1. later = sw
    BY <1>4 DEF WithElement
  <2> HIDE DEF later
  <2> QED
    BY <1>4, <2>1 DEF Stored, later
<1> QED
  BY <1>1, <1>2, <1>3, <1>4

\* What an interface believes, kind by kind.
LEMMA BelievedIs ==
  ASSUME NEW sw, NEW line
  PROVE  LET name  == line[2]
             where == [isDirect |-> Extracted(line[3]).number = 1, tableName |-> line[4]]
         IN  /\ line[1] = "table" =>
                  (Believed(sw, line) <=>
                     name \in DOMAIN sw.m_flowTable /\ sw.m_flowTable[name] = line[3])
             /\ line[1] = "meter" =>
                  (Believed(sw, line) <=>
                     name \in DOMAIN sw.m_meter /\ sw.m_meter[name] = where)
             /\ line[1] = "counter" =>
                  (Believed(sw, line) <=>
                     name \in DOMAIN sw.m_counter /\ sw.m_counter[name] = where)
             /\ line[1] \notin {"table", "meter", "counter"} => Believed(sw, line)
  BY DEF Believed

LEMMA BeliefIsOfMaps ==
  ASSUME NEW sw, NEW later, NEW said, Believed(sw, said),
         said[1] = "table" /\ said[2] \in DOMAIN sw.m_flowTable =>
           said[2] \in DOMAIN later.m_flowTable /\ later.m_flowTable[said[2]] = sw.m_flowTable[said[2]],
         said[1] = "meter" /\ said[2] \in DOMAIN sw.m_meter =>
           said[2] \in DOMAIN later.m_meter /\ later.m_meter[said[2]] = sw.m_meter[said[2]],
         said[1] = "counter" /\ said[2] \in DOMAIN sw.m_counter =>
           said[2] \in DOMAIN later.m_counter /\ later.m_counter[said[2]] = sw.m_counter[said[2]]
  PROVE  Believed(later, said)
<1>1. CASE said[1] = "table"
  <2>1. said[2] \in DOMAIN sw.m_flowTable /\ sw.m_flowTable[said[2]] = said[3]
    BY <1>1, BelievedIs
  <2>2. said[2] \in DOMAIN later.m_flowTable /\ later.m_flowTable[said[2]] = said[3]
    BY <1>1, <2>1
  <2> QED
    BY <1>1, <2>2, BelievedIs
<1> DEFINE where == [isDirect |-> Extracted(said[3]).number = 1, tableName |-> said[4]]
<1>2. CASE said[1] = "meter"
  <2>1. said[2] \in DOMAIN sw.m_meter /\ sw.m_meter[said[2]] = where
    BY <1>2, BelievedIs
  <2> HIDE DEF where
  <2>2. said[2] \in DOMAIN later.m_meter /\ later.m_meter[said[2]] = where
    BY <1>2, <2>1
  <2> QED
    BY <1>2, <2>2, BelievedIs DEF where
<1>3. CASE said[1] = "counter"
  <2>1. said[2] \in DOMAIN sw.m_counter /\ sw.m_counter[said[2]] = where
    BY <1>3, BelievedIs
  <2> HIDE DEF where
  <2>2. said[2] \in DOMAIN later.m_counter /\ later.m_counter[said[2]] = where
    BY <1>3, <2>1
  <2> QED
    BY <1>3, <2>2, BelievedIs DEF where
<1>4. CASE said[1] \notin {"table", "meter", "counter"}
  BY <1>4, BelievedIs
<1> QED
  BY <1>1, <1>2, <1>3, <1>4

\* A line that is empty, or that does not repeat an earlier one, leaves what
\* that one said; and a complete line is believed.
LEMMA BeliefStays ==
  ASSUME NEW sw, NEW later, NEW r, IsRead(r), ReadFits(sw, r),
         NEW line, IsSequence(line), NEW said, Believed(sw, said),
         ~Repeats(line, said), Stored(sw, later, ReadElement(r, line))
  PROVE  Believed(later, said)
<1> DEFINE next == ReadElement(r, line)
           element == Word(line, 1, r.elementType)
           name == said[2]
<1>1. Len(line) \in Nat /\ (line = <<>> <=> Len(line) = 0)
  BY DEF IsSequence
<1>2. /\ next.elementType = element
      /\ element = "table" =>
           /\ next.tableName = Word(line, 2, r.tableName)
           /\ next.matchType = Word(line, 3, r.matchType)
      /\ element \in {"meter", "counter"} =>
           /\ next.name[element] = Word(line, 2, r.name[element])
           /\ next.isDirect = Flag(line, r.isDirect)
           /\ next.tableName = NameBehindFlag(line, r.tableName)
  BY ElementIsRead
<1> HIDE DEF next
<1>3. CASE line = <<>>
  <2>1. \A old : /\ \A i \in 1 .. 4 : Word(line, i, old) = old
                 /\ Flag(line, old) = old /\ NameBehindFlag(line, old) = old
    BY <1>1, <1>3 DEF Word, Flag, NameBehindFlag
  <2>2. element = r.elementType
    BY <2>1
  <2>3. /\ r.elementType = "table" => next.tableName = r.tableName /\ next.matchType = r.matchType
        /\ r.elementType \in {"meter", "counter"} =>
             next.name[r.elementType] = r.name[r.elementType] /\ Where(next) = Where(r)
    BY <1>2, <2>1, <2>2 DEF Where
  <2> HIDE DEF element
  <2>4. /\ next.elementType = "table" /\ next.matchType \in MatchTypes =>
             /\ next.tableName \in DOMAIN sw.m_flowTable
             /\ sw.m_flowTable[next.tableName] = next.matchType
        /\ next.elementType = "meter" =>
             /\ next.name["meter"] \in DOMAIN sw.m_meter
             /\ sw.m_meter[next.name["meter"]] = Where(next)
        /\ next.elementType = "counter" =>
             /\ next.name["counter"] \in DOMAIN sw.m_counter
             /\ sw.m_counter[next.name["counter"]] = Where(next)
    BY <1>2, <2>2, <2>3 DEF ReadFits
  <2>5. /\ \A n \in DOMAIN sw.m_flowTable :
             n \in DOMAIN later.m_flowTable /\ later.m_flowTable[n] = sw.m_flowTable[n]
        /\ \A n \in DOMAIN sw.m_meter :
             n \in DOMAIN later.m_meter /\ later.m_meter[n] = sw.m_meter[n]
        /\ \A n \in DOMAIN sw.m_counter :
             n \in DOMAIN later.m_counter /\ later.m_counter[n] = sw.m_counter[n]
    BY <2>4 DEF Stored, next
  <2> QED
    BY <2>5, BeliefIsOfMaps
<1>4. CASE line # <<>>
  <2>1. element = line[1]
    BY <1>1, <1>4 DEF Word
  <2>2. line[1] = said[1] => line[2] # name /\ \A old : Word(line, 2, old) = line[2]
    <3> SUFFICES ASSUME line[1] = said[1]
                 PROVE  line[2] # name /\ \A old : Word(line, 2, old) = line[2]
      OBVIOUS
    <3>1. Len(line) # 1 /\ line[2] # name
      BY <1>4 DEF Repeats
    <3>2. 2 <= Len(line)
      BY <1>1, <1>4, <3>1
    <3> QED
      BY <3>1, <3>2 DEF Word
  <2>3. /\ said[1] = "table" /\ element = "table" => next.tableName # name
        /\ said[1] = "meter" /\ element = "meter" => next.name["meter"] # name
        /\ said[1] = "counter" /\ element = "counter" => next.name["counter"] # name
    <3> HIDE DEF element
    <3> QED
      BY <1>2, <2>1, <2>2
  <2> HIDE DEF element, name
  <2>4. /\ said[1] = "table" /\ name \in DOMAIN sw.m_flowTable =>
             name \in DOMAIN later.m_flowTable /\ later.m_flowTable[name] = sw.m_flowTable[name]
        /\ said[1] = "meter" /\ name \in DOMAIN sw.m_meter =>
             name \in DOMAIN later.m_meter /\ later.m_meter[name] = sw.m_meter[name]
        /\ said[1] = "counter" /\ name \in DOMAIN sw.m_counter =>
             name \in DOMAIN later.m_counter /\ later.m_counter[name] = sw.m_counter[name]
    BY <1>2, <2>3 DEF Stored, next
  <2> QED
    BY <2>4, BeliefIsOfMaps DEF name
<1> QED
  BY <1>3, <1>4

LEMMA CompleteIsBelieved ==
  ASSUME NEW sw, NEW later, NEW r, IsRead(r), NEW line, IsSequence(line), Complete(line),
         Stored(sw, later, ReadElement(r, line))
  PROVE  Believed(later, line)
<1> DEFINE next == ReadElement(r, line)
           element == Word(line, 1, r.elementType)
<1>1. Len(line) \in Nat /\ Len(line) >= 3
  <2>1. Len(line) \in Nat
    BY LenProperties DEF IsSequence
  <2>2. Len(line) = 3 \/ Len(line) = 4
    BY DEF Complete
  <2> QED
    BY <2>1, <2>2
<1>2. /\ next.elementType = element
      /\ element = "table" =>
           /\ next.tableName = Word(line, 2, r.tableName)
           /\ next.matchType = Word(line, 3, r.matchType)
      /\ element \in {"meter", "counter"} =>
           /\ next.name[element] = Word(line, 2, r.name[element])
           /\ next.isDirect = Flag(line, r.isDirect)
           /\ next.tableName = NameBehindFlag(line, r.tableName)
  BY ElementIsRead
<1> HIDE DEF next
<1>3. element = line[1] /\ \A old : Word(line, 2, old) = line[2] /\ Word(line, 3, old) = line[3]
  BY <1>1 DEF Word
<1>4. element # "table" => \A old : /\ Flag(line, old) = Extracted(line[3]).number
                                   /\ NameBehindFlag(line, old) = line[4]
  <2> SUFFICES ASSUME element # "table", NEW old
               PROVE  /\ Flag(line, old) = Extracted(line[3]).number
                      /\ NameBehindFlag(line, old) = line[4]
    OBVIOUS
  <2>1. Len(line) = 4 /\ IsNumber(line[3])
    BY <1>3 DEF Complete
  <2>2. Flag(line, old) = Extracted(line[3]).number
    <3>1. ~(Len(line) < 3)
      BY <2>1
    <3> QED
      BY <3>1, Zenon DEF Flag
  <2>3. Word(line, 4, old) = line[4]
    BY <2>1 DEF Word
  <2>4. ~(Len(line) < 3 \/ ~Extracted(line[3]).good) /\ ~(Extracted(line[3]).rest # "")
    <3>1. ~(Len(line) < 3)
      BY <2>1
    <3> QED
      BY <2>1, <3>1, Zenon DEF IsNumber
  <2>5. NameBehindFlag(line, old) = Word(line, 4, old)
    BY <2>4, Zenon DEF NameBehindFlag
  <2> QED
    BY <2>2, <2>3, <2>5
<1> HIDE DEF element
<1>5. element = "table" => line[3] \in MatchTypes
  BY <1>3 DEF Complete
<1>6. CASE element = "table"
  <2>1. /\ next.elementType = "table" /\ next.tableName = line[2]
        /\ next.matchType = line[3] /\ line[3] \in MatchTypes
    BY <1>2, <1>3, <1>5, <1>6
  <2>2. line[2] \in DOMAIN later.m_flowTable /\ later.m_flowTable[line[2]] = line[3]
    BY <2>1 DEF Stored, next
  <2> QED
    BY <1>3, <1>6, <2>2, BelievedIs
<1>7. CASE element \in {"meter", "counter"}
  <2>1. Where(next) = [isDirect |-> Extracted(line[3]).number = 1, tableName |-> line[4]]
    BY <1>2, <1>3, <1>4, <1>7 DEF Where
  <2>2. next.name[element] = line[2] /\ next.elementType = element
    BY <1>2, <1>3, <1>7
  <2>3. /\ element = "meter" =>
             line[2] \in DOMAIN later.m_meter /\ later.m_meter[line[2]] = Where(next)
        /\ element = "counter" =>
             line[2] \in DOMAIN later.m_counter /\ later.m_counter[line[2]] = Where(next)
    BY <1>2, <2>2 DEF Stored, next
  <2> HIDE DEF next
  <2> QED
    BY <1>3, <1>7, <2>1, <2>3, BelievedIs
<1>8. CASE element \notin {"table", "meter", "counter"}
  BY <1>3, <1>8 DEF Believed
<1> QED
  BY <1>6, <1>7, <1>8

\* One line of the file more.
LEMMA LineKnown ==
  ASSUME NEW sw, IsInterface(sw), NEW later, NEW r, IsRead(r), ReadFits(sw, r),
         NEW n \in Nat, n < Len(Info), KnowsInfo(sw, n),
         later = WithElement(sw, ReadElement(r, Info[n + 1]))
  PROVE  /\ KnowsInfo(later, n + 1)
         /\ ReadFits(later, ReadElement(r, Info[n + 1]))
<1> DEFINE line == Info[n + 1]
           next == ReadElement(r, line)
<1>1. Stored(sw, later, next)
  BY ElementIsStored
<1>2. ReadFits(later, next)
  BY <1>1 DEF Stored, ReadFits
<1>3. IsSequence(line)
  <2>1. Len(Info) \in Nat /\ \A k \in 1 .. Len(Info) : IsSequence(Info[k])
    BY LinesAreSequences DEF Info
  <2> QED
    BY <2>1
<1>4. ASSUME NEW k \in 1 .. n + 1, Complete(Info[k]),
             \A l \in k + 1 .. n + 1 : ~Repeats(Info[l], Info[k])
      PROVE  Believed(later, Info[k])
  <2>1. CASE k = n + 1
    BY <1>1, <1>3, <1>4, <2>1, CompleteIsBelieved
  <2>2. CASE k # n + 1
    <3>1. k \in 1 .. n /\ n + 1 \in k + 1 .. n + 1 /\ k + 1 .. n \subseteq k + 1 .. n + 1
      BY <2>2
    <3>2. Believed(sw, Info[k])
      BY <1>4, <3>1 DEF KnowsInfo
    <3>3. ~Repeats(line, Info[k])
      BY <1>4, <3>1
    <3> HIDE DEF line
    <3> QED
      BY <1>1, <1>3, <3>2, <3>3, BeliefStays DEF line
  <2> QED
    BY <2>1, <2>2
<1>5. KnowsInfo(later, n + 1)
  BY <1>4 DEF KnowsInfo
<1> QED
  BY <1>2, <1>5

\* An interface that keeps its beliefs keeps these.
LEMMA BelievesKeepsInfo ==
  ASSUME NEW sw, NEW later, Believes(later, sw), NEW n, KnowsInfo(sw, n)
  PROVE  KnowsInfo(later, n)
<1>1. ASSUME NEW said, Believed(sw, said) PROVE Believed(later, said)
  <2>1. /\ \A t \in DOMAIN sw.m_flowTable :
             t \in DOMAIN later.m_flowTable /\ later.m_flowTable[t] = sw.m_flowTable[t]
        /\ \A m \in DOMAIN sw.m_meter :
             m \in DOMAIN later.m_meter /\ later.m_meter[m] = sw.m_meter[m]
        /\ later.m_counter = sw.m_counter
    BY DEF Believes
  <2> QED
    BY <1>1, <2>1, BeliefIsOfMaps
<1> QED
  BY <1>1 DEF KnowsInfo

LEMMA InfoInit == Init => InfoInv
<1>1. \A garbage : IsRead(NothingRead(garbage))
  BY DEF IsRead, NothingRead
<1> QED
  BY <1>1 DEF Init, InfoInv, Switches, ReadsInfo

\* Steps that change one interface at most, and not by reading the file.
LEMMA OthersKeepInfo ==
  ASSUME InfoInv, way' = way, read' = read, Switches' = Switches, ~ReadsInfo',
         \A i \in Switches : /\ Believes(m_p4Switches'[i], m_p4Switches[i])
                             /\ InfoRead(i)' = InfoRead(i)
  PROVE  InfoInv'
<1>1. way = "LOCAL_CALL" => \A i \in Switches : KnowsInfo(m_p4Switches'[i], InfoRead(i))
  BY BelievesKeepsInfo DEF InfoInv
<1>2. way' = "LOCAL_CALL" => \A i \in Switches' : KnowsInfo(m_p4Switches'[i], InfoRead(i)')
  BY <1>1
<1> QED
  BY <1>2 DEF InfoInv, KnowsInfo, Info, Lines

\* All but the construction of a device and the lines of the info file.
LEMMA QuietSteps ==
  ASSUME ControlInv, InfoInv, way' = way, read' = read, ~ReadsInfo', ~ReadsInfo,
         \/ UNCHANGED m_p4Switches
         \/ \E i \in Switches : ChangesOne(i)
  PROVE  InfoInv'
<1>1. Switches' = Switches /\ \A j \in Switches : Believes(m_p4Switches'[j], m_p4Switches[j])
  <2>1. CASE UNCHANGED m_p4Switches
    BY <2>1 DEF Switches, Believes
  <2>2. CASE \E i \in Switches : ChangesOne(i)
    BY <2>2, OneChangedKeeps DEF ControlInv
  <2> QED
    BY <2>1, <2>2
<1>2. \A i : InfoRead(i)' = InfoRead(i)
  BY DEF InfoRead, ReadsInfo, Lines
<1> QED
  BY <1>1, <1>2, OthersKeepInfo

LEMMA ReadP4InfoKeepsInfo ==
  ASSUME ControlInv, InfoInv, ReadP4Info
  PROVE  InfoInv'
<1> DEFINE i == calls[1].at
           n == calls[1].lines
           line == Info[n + 1]
           sw == m_p4Switches[i]
           next == ReadElement(read, line)
           later == WithElement(sw, next)
<1>1. /\ calls \in Seq(CallRecords) /\ calls # <<>> /\ calls[1].function = "ReadP4Info"
      /\ i \in Switches /\ calls[1].path = m_p4InfoPath /\ n < Len(Info) /\ Line = line
  <2>1. /\ calls \in Seq(CallRecords) /\ calls # <<>> /\ calls[1].function = "ReadP4Info"
        /\ calls[1].lines < Len(Lines(calls[1].path))
    BY DEF ControlInv, CallsInv, ReadP4Info, ReadLine
  <2>2. 1 \in DOMAIN calls
    BY <2>1
  <2>3. calls[1].at \in Switches /\ calls[1].path = m_p4InfoPath
    BY <2>1, <2>2 DEF ControlInv, CallsInv
  <2> QED
    BY <2>1, <2>3 DEF Line, Info
<1>2. calls[1] \in CallRecords /\ n \in Nat
  <2>1. calls[1] \in CallRecords
    BY <1>1
  <2> QED
    BY <2>1 DEF CallRecords
<1>3. IsInterface(sw) /\ IsSequence(m_p4Switches)
  BY <1>1 DEF ControlInv, SwitchesInv
<1>4. /\ read' = next /\ way' = way
      /\ m_p4Switches' = [m_p4Switches EXCEPT ![i] = later]
  BY <1>1 DEF ReadP4Info, ReadLine
<1>5. /\ Switches' = Switches /\ m_p4Switches'[i] = later
      /\ \A j \in Switches : j # i => m_p4Switches'[j] = m_p4Switches[j]
  <2> HIDE DEF later, i
  <2> QED
    BY <1>1, <1>3, <1>4, ReplacedInSequence DEF Switches
<1>6. /\ calls' # <<>> /\ calls'[1].function = "ReadP4Info"
      /\ calls'[1].at = i /\ calls'[1].lines = n + 1
  <2> DEFINE c == [calls[1] EXCEPT !.lines = @ + 1]
  <2>1. calls' = [calls EXCEPT ![1] = c]
    BY DEF ReadP4Info, ReadLine
  <2>2. c.lines = n + 1 /\ c.at = i /\ c.function = "ReadP4Info"
    BY <1>1, <1>2, LineMore
  <2> HIDE DEF c
  <2>3. 1 \in DOMAIN calls
    BY <1>1
  <2>4. calls'[1] = c /\ DOMAIN calls' = DOMAIN calls
    BY <2>1, <2>3
  <2> QED
    BY <2>2, <2>3, <2>4
<1>7. IsRead(read) /\ ReadFits(sw, read)
  BY <1>1 DEF InfoInv, ReadsInfo
<1>8. IsRead(next)
  BY <1>7, ElementIsRead
<1>9. way = "LOCAL_CALL" => KnowsInfo(sw, n)
  BY <1>1 DEF InfoInv, InfoRead
<1>10. ReadFits(later, next)
  <2>1. Stored(sw, later, next)
    BY <1>3, ElementIsStored
  <2> QED
    BY <2>1 DEF Stored, ReadFits
<1>11. way = "LOCAL_CALL" => KnowsInfo(later, n + 1)
  BY <1>1, <1>2, <1>3, <1>7, <1>9, LineKnown
<1> HIDE DEF later, next, sw, line, i, n
<1>12. \A j : InfoRead(j)' = IF j = i THEN n + 1 ELSE InfoRead(j)
  BY <1>1, <1>6 DEF InfoRead, i, Lines
<1>13. ASSUME way = "LOCAL_CALL", NEW j \in Switches
       PROVE  KnowsInfo(m_p4Switches'[j], InfoRead(j)')
  <2>1. CASE j = i
    BY <1>5, <1>11, <1>12, <1>13, <2>1
  <2>2. CASE j # i
    <3>1. KnowsInfo(m_p4Switches[j], InfoRead(j))
      BY <1>13 DEF InfoInv
    <3> QED
      BY <1>5, <1>12, <2>2, <3>1
  <2> QED
    BY <2>1, <2>2
<1>14. ReadsInfo' => ReadFits(m_p4Switches'[calls'[1].at], read')
  BY <1>4, <1>5, <1>6, <1>10
<1> QED
  BY <1>4, <1>5, <1>8, <1>13, <1>14 DEF InfoInv, KnowsInfo, Info, Lines, ReadFits, Believed

\* The function at work returns: all lines have been read.
LEMMA ReturnKeepsInfo ==
  ASSUME ControlInv, InfoInv, Return
  PROVE  InfoInv'
<1>1. /\ calls \in Seq(CallRecords) /\ calls # <<>> /\ calls' = Tail(calls)
      /\ calls[1].lines = Len(Lines(calls[1].path))
      /\ UNCHANGED <<way, m_p4Switches, read>>
  BY DEF ControlInv, CallsInv, Return
<1>2. ~ReadsInfo'
  <2>1. SUFFICES ASSUME calls' # <<>> PROVE calls'[1].function # "ReadP4Info"
    BY DEF ReadsInfo
  <2>2. 2 \in DOMAIN calls /\ calls'[1] = calls[2]
    BY <1>1, <2>1
  <2> QED
    BY <2>2 DEF ControlInv, CallsInv
<1>3. ReadsInfo => calls[1].lines = Len(Lines(m_p4InfoPath))
  <2>1. 1 \in DOMAIN calls
    BY <1>1
  <2> QED
    BY <1>1, <2>1 DEF ReadsInfo, ControlInv, CallsInv
<1>4. \A i : InfoRead(i)' = InfoRead(i)
  BY <1>2, <1>3 DEF InfoRead, ReadsInfo, Lines
<1>5. Switches' = Switches /\ \A j \in Switches : Believes(m_p4Switches'[j], m_p4Switches[j])
  BY <1>1 DEF Switches, Believes
<1> QED
  BY <1>1, <1>2, <1>4, <1>5, OthersKeepInfo

\* A new interface has read no line.
LEMMA AddP4SwitchKeepsInfo ==
  ASSUME ControlInv, InfoInv, NEW garbage \in Garbage, AddP4Switch(garbage)
  PROVE  InfoInv'
<1> DEFINE n == Len(m_p4Switches) + 1
<1>1. calls = <<>> /\ way' = way /\ m_p4Switches' = Append(m_p4Switches, NewInterface)
  BY DEF AddP4Switch, Idle
<1>2. /\ Switches' = Switches \cup {n} /\ n \notin Switches
      /\ m_p4Switches'[n] = NewInterface
      /\ \A j \in Switches : m_p4Switches'[j] = m_p4Switches[j]
  <2>1. n \notin Switches
    BY SwitchesAreNumbered
  <2> QED
    BY <1>1, <2>1, AppendedToSequence DEF ControlInv, SwitchesInv, Switches
<1> HIDE DEF n
<1>3. CASE way = "LOCAL_CALL"
  <2>1. /\ calls' = <<Call("ReadP4Info", n, m_p4InfoPath),
                      Call("PopulateFlowTable", n, g_flowTablePath)>>
        /\ read' = NothingRead(garbage)
    BY <1>3 DEF AddP4Switch, n
  <2>2. /\ calls' # <<>> /\ calls'[1].function = "ReadP4Info" /\ calls'[1].at = n
        /\ calls'[1].lines = 0
    BY <2>1 DEF Call
  <2>3. IsRead(read') /\ read'.elementType = ""
    BY <2>1 DEF NothingRead, IsRead
  <2>4. \A j : InfoRead(j)' = IF j = n THEN 0 ELSE InfoRead(j)
    <3>1. \A j : InfoRead(j) = Len(Lines(m_p4InfoPath))
      BY <1>1 DEF InfoRead
    <3>2. \A j : InfoRead(j)' = IF j = n THEN 0 ELSE Len(Lines(m_p4InfoPath))
      BY <2>2 DEF InfoRead, Lines
    <3> QED
      BY <3>1, <3>2
  <2>5. \A j \in Switches : KnowsInfo(m_p4Switches[j], InfoRead(j))
    BY <1>3 DEF InfoInv
  <2>6. KnowsInfo(NewInterface, 0)
    BY DEF KnowsInfo
  <2>7. \A j \in Switches' : KnowsInfo(m_p4Switches'[j], InfoRead(j)')
    BY <1>2, <2>4, <2>5, <2>6
  <2>8. \A sw : ReadFits(sw, read')
    BY <2>3 DEF ReadFits
  <2> QED
    BY <1>1, <2>3, <2>7, <2>8 DEF InfoInv, KnowsInfo, Info, Lines, ReadFits, Believed
<1>4. CASE way # "LOCAL_CALL"
  BY <1>1, <1>4 DEF AddP4Switch, InfoInv, ReadsInfo
<1> QED
  BY <1>3, <1>4

\* A line of a command file is no line of the info file.
LEMMA ReadLineIsQuiet ==
  ASSUME ControlInv, NEW function, function # "ReadP4Info", ReadLine(function)
  PROVE  ~ReadsInfo /\ ~ReadsInfo'
<1> DEFINE c == [calls[1] EXCEPT !.lines = @ + 1]
<1>1. /\ calls \in Seq(CallRecords) /\ calls # <<>> /\ calls[1].function = function
      /\ calls' = [calls EXCEPT ![1] = c]
  BY DEF ControlInv, CallsInv, ReadLine
<1>2. 1 \in DOMAIN calls /\ calls[1] \in CallRecords
  BY <1>1
<1>3. c.function = function
  BY <1>1, <1>2, LineMore
<1> HIDE DEF c
<1>4. calls'[1] = c
  BY <1>1, <1>2
<1> QED
  BY <1>1, <1>3, <1>4 DEF ReadsInfo

\* The script and the packets run when no function reads a file.
LEMMA ScriptKeepsInfo ==
  ASSUME ControlInv, InfoInv, NEW i, Script(i) \/ Packets(i)
  PROVE  InfoInv'
<1>1. Step(i)
  BY DEF Script, Packets, GivePopulateCommand, GiveAttainCommand, SetP4SwitchFlowTablePath,
         SetP4SwitchViewFlowTablePath, Populate, ViewP4SwitchFlowTableInfo, count,
         register_write_primitive
<1>2. i \in Switches /\ way' = way /\ read' = read /\ calls = <<>>
  BY <1>1 DEF Step, Idle
<1>3. calls' = <<>> \/ \E c : calls' = <<c>> /\ c.function # "ReadP4Info"
  <2>1. CASE Populate(i) \/ ViewP4SwitchFlowTableInfo(i)
    <3>1. \A path : /\ Call("PopulateFlowTable", i, path).function # "ReadP4Info"
                   /\ Call("AttainSwitchFlowTableInfo", i, path).function # "ReadP4Info"
      BY DEF Call
    <3> QED
      BY <2>1, <3>1 DEF Populate, ViewP4SwitchFlowTableInfo, View
  <2>2. CASE ~(Populate(i) \/ ViewP4SwitchFlowTableInfo(i))
    BY <1>2, <2>2 DEF Script, Packets, GivePopulateCommand, GiveAttainCommand,
         SetP4SwitchFlowTablePath, SetP4SwitchViewFlowTablePath, count, register_write_primitive
  <2> QED
    BY <2>1, <2>2
<1>4. ~ReadsInfo /\ ~ReadsInfo'
  BY <1>2, <1>3 DEF ReadsInfo
<1>5. UNCHANGED m_p4Switches \/ ChangesOne(i)
  <2>1. ASSUME NEW parms, NEW garbage \in Garbage, GivePopulateCommand(i, parms, garbage)
        PROVE  ChangesOne(i)
    BY <1>2, <2>1, PopulateChangesOne DEF ControlInv, GivePopulateCommand
  <2>2. ASSUME NEW parms, GiveAttainCommand(i, parms)
        PROVE  ChangesOne(i)
    BY <1>2, <2>2, AttainChangesOne DEF ControlInv, GiveAttainCommand
  <2>3. Packets(i) => ChangesOne(i)
    BY <1>2, CountChangesOne, RegisterWriteChangesOne DEF Packets, ControlInv
  <2>4. Script(i) => \/ UNCHANGED m_p4Switches
                     \/ \E garbage \in Garbage : \E parms : GivePopulateCommand(i, parms, garbage)
                     \/ \E parms : GiveAttainCommand(i, parms)
    BY DEF Script, SetP4SwitchFlowTablePath, SetP4SwitchViewFlowTablePath, Populate,
           ViewP4SwitchFlowTableInfo
  <2> QED
    BY <2>1, <2>2, <2>3, <2>4
<1> QED
  BY <1>2, <1>4, <1>5, QuietSteps

LEMMA StepKeepsInfo ==
  ASSUME ControlInv, InfoInv, [Next]_vars
  PROVE  InfoInv'
<1>1. ASSUME NEW garbage \in Garbage, AddP4Switch(garbage) PROVE InfoInv'
  BY <1>1, AddP4SwitchKeepsInfo
<1>2. ASSUME NEW garbage \in Garbage, PopulateFlowTable(garbage) PROVE InfoInv'
  <2>1. calls[1].at \in Switches /\ ChangesOne(calls[1].at)
    BY <1>2, PopulateFlowTableChangesOne
  <2>2. way' = way /\ read' = read /\ ReadLine("PopulateFlowTable")
    BY <1>2 DEF PopulateFlowTable, ReadLine
  <2> QED
    BY <2>1, <2>2, QuietSteps, ReadLineIsQuiet
<1>3. CASE ReadP4Info
  BY <1>3, ReadP4InfoKeepsInfo
<1>4. CASE AttainSwitchFlowTableInfo
  <2>1. calls[1].at \in Switches /\ ChangesOne(calls[1].at)
    BY <1>4, AttainInfoChangesOne
  <2>2. way' = way /\ read' = read /\ ReadLine("AttainSwitchFlowTableInfo")
    BY <1>4 DEF AttainSwitchFlowTableInfo, ReadLine
  <2> QED
    BY <2>1, <2>2, QuietSteps, ReadLineIsQuiet
<1>5. CASE Return
  BY <1>5, ReturnKeepsInfo
<1>6. ASSUME NEW i \in 1 .. MaxSwitches, Script(i) \/ Packets(i) PROVE InfoInv'
  BY <1>6, ScriptKeepsInfo
<1>7. CASE ViewAllSwitchFlowTableInfo
  <2>1. way' = way /\ read' = read /\ calls = <<>> /\ UNCHANGED m_p4Switches
    BY <1>7 DEF ViewAllSwitchFlowTableInfo, Step, Idle
  <2>2. ~ReadsInfo'
    <3>1. calls' = [i \in Switches |-> View(i)]
      BY <1>7 DEF ViewAllSwitchFlowTableInfo
    <3>2. \A i : View(i).function # "ReadP4Info"
      BY DEF View, Call
    <3>3. 1 \in Switches
      BY <1>7 DEF ViewAllSwitchFlowTableInfo, Step
    <3> QED
      BY <3>1, <3>2, <3>3 DEF ReadsInfo
  <2> QED
    BY <2>1, <2>2, QuietSteps DEF ReadsInfo
<1>8. CASE UNCHANGED vars
  BY <1>8 DEF vars, InfoInv, ReadsInfo, Switches, KnowsInfo, Info, Lines, ReadFits, Believed,
              InfoRead, IsRead
<1> QED
  BY <1>1, <1>2, <1>3, <1>4, <1>5, <1>6, <1>7, <1>8 DEF Next

LEMMA InfoHolds == Spec => []InfoInv
  BY ControlHolds, InfoInit, StepKeepsInfo, PTL DEF Spec

\* What the P4 info file says is believed for ever, from the moment the line
\* has been read.
THEOREM InfoIsKept == Spec => []InfoKept
<1>1. InfoInv => InfoKept
  BY DEF InfoInv, InfoKept, KnowsInfo, Info
<1> QED
  BY <1>1, InfoHolds, PTL
=============================================================================
