---------------------------- MODULE P4Controller ----------------------------
(***************************************************************************)
(* The controller of all switches: class P4Controller of                   *)
(* model/p4-controller.cc.  Every P4NetDevice adds the interface of its    *)
(* switch when it is constructed; afterwards the simulation script gives   *)
(* commands to the interfaces, one by one or from files, while the         *)
(* packets of the simulation count, are metered and write registers.       *)
(*                                                                         *)
(* A path is a name in Files if it can be opened.  A file is read one line *)
(* at a time; the simulator has one thread, so that nothing else happens   *)
(* until the functions that read files have returned.                      *)
(***************************************************************************)
EXTENDS P4SwitchInterface

CONSTANTS
  Ways,               \* the values of g_populateFlowTableWay
  Files,              \* path -> the lines of the file; of a command file those
                      \* before the first of 500 characters or more, which
                      \* ends the loop that reads it
  g_flowTablePath, g_viewFlowTablePath,  \* the paths a new interface gets
  m_p4InfoPath,       \* where ReadP4Info looks
  PopulateCommands, AttainCommands,      \* lines given one by one
  Values,             \* what a P4 program writes to its registers
  MaxSwitches,        \* bound: devices that are constructed
  MaxSteps,           \* bound: steps after the last construction
  MaxCount            \* bound: packets that a counter counts

\* A line, or any other sequence.
IsSequence(s) == s \in Seq(Range(s))

ASSUME P4ControllerAssumption ==
  /\ \A path \in DOMAIN Files : IsSequence(Files[path]) /\ \A line \in Range(Files[path]) : IsSequence(line)
  /\ \A parms \in PopulateCommands \cup AttainCommands : IsSequence(parms)
  /\ MaxCount \in Nat
  /\ TableSize \in Nat \ {0} /\ ArraySize \in Nat \ {0}
  /\ MeteredTables \subseteq Tables /\ CountedTables \subseteq Tables
  /\ Tables \cap (MeterArrays \cup CounterArrays) = {}
  /\ FoundTypes \subseteq MatchTypes \cup {"other"}

\* A failed extraction leaves 0 or the largest number.
ASSUME ExtractedAssumption ==
  \A path \in DOMAIN Files : \A line \in Range(Files[path]) : \A word \in Range(line) :
    LET flag == Extracted(word)
    IN  flag.number \in Nat /\ flag.good \in BOOLEAN /\ (~flag.good => flag.number # 1)

VARIABLES
  way,                \* g_populateFlowTableWay
  running,            \* FALSE once the program has called abort
  m_p4Switches,       \* the interfaces, in the order of their devices
  paths,              \* m_flowTablePath and m_viewFlowTablePath of each
  calls,              \* the functions that read files, in the order they will
                      \* return: the first is at work
  read,               \* the local variables of ReadP4Info
  steps               \* of the script and of packets

vars == <<way, running, m_p4Switches, paths, calls, read, steps>>

Switches == DOMAIN m_p4Switches
Lines(path) == IF path \in DOMAIN Files THEN Files[path] ELSE <<>>

\* A call of a function of interface i that reads a file, with the number of
\* lines it has read.
Call(function, i, path) == [function |-> function, at |-> i, path |-> path, lines |-> 0]

Idle == running /\ calls = <<>>

\* The constructor of P4NetDevice, as far as the controller is concerned;
\* Init of the interface is the two calls.
AddP4Switch(garbage) ==
  /\ Idle
  /\ Len(m_p4Switches) < MaxSwitches
  /\ steps = 0
  /\ m_p4Switches' = Append(m_p4Switches, NewInterface)
  /\ paths' = Append(paths, [flowTable |-> g_flowTablePath, view |-> g_viewFlowTablePath])
  /\ IF way = "LOCAL_CALL"
       THEN /\ running' = (m_p4InfoPath \in DOMAIN Files)
            /\ calls' = LET i == Len(m_p4Switches) + 1
                        IN  <<Call("ReadP4Info", i, m_p4InfoPath),
                              Call("PopulateFlowTable", i, g_flowTablePath)>>
            /\ read' = NothingRead(garbage)
       ELSE UNCHANGED <<running, calls, read>>
  /\ UNCHANGED <<way, steps>>

-----------------------------------------------------------------------------
\* The functions that read files.

\* The line that the function at work reads next.
Line == Lines(calls[1].path)[calls[1].lines + 1]

\* The function at work, which is the one named, reads a line.
ReadLine(function) ==
  /\ running
  /\ calls # <<>>
  /\ calls[1].function = function
  /\ calls[1].lines < Len(Lines(calls[1].path))
  /\ calls' = [calls EXCEPT ![1].lines = @ + 1]
  /\ UNCHANGED <<way, running, paths, steps>>

ReadP4Info ==
  /\ ReadLine("ReadP4Info")
  /\ read' = ReadElement(read, Line)
  /\ m_p4Switches' = [m_p4Switches EXCEPT ![calls[1].at] = WithElement(@, read')]

\* A command that fails does not keep the next line from being executed.
PopulateFlowTable(garbage) ==
  /\ ReadLine("PopulateFlowTable")
  /\ m_p4Switches' = [m_p4Switches EXCEPT
                        ![calls[1].at] = ParsePopulateFlowTableCommand(@, Line, garbage).sw]
  /\ UNCHANGED read

AttainSwitchFlowTableInfo ==
  /\ ReadLine("AttainSwitchFlowTableInfo")
  /\ m_p4Switches' = [m_p4Switches EXCEPT
                        ![calls[1].at] = ParseAttainFlowTableInfoCommand(@, Line).sw]
  /\ UNCHANGED read

\* At the end of the file, or if it cannot be opened.
Return ==
  /\ running
  /\ calls # <<>>
  /\ calls[1].lines = Len(Lines(calls[1].path))
  /\ calls' = Tail(calls)
  /\ UNCHANGED <<way, running, m_p4Switches, paths, read, steps>>

-----------------------------------------------------------------------------
\* One step of the script or of a packet, at switch i.
Step(i) ==
  /\ Idle
  /\ steps < MaxSteps
  /\ i \in Switches
  /\ steps' = steps + 1
  /\ UNCHANGED <<way, running, read>>

GivePopulateCommand(i, parms, garbage) ==
  /\ Step(i)
  /\ m_p4Switches' = [m_p4Switches EXCEPT
                        ![i] = ParsePopulateFlowTableCommand(@, parms, garbage).sw]
  /\ UNCHANGED <<paths, calls>>

GiveAttainCommand(i, parms) ==
  /\ Step(i)
  /\ m_p4Switches' = [m_p4Switches EXCEPT
                        ![i] = ParseAttainFlowTableInfoCommand(@, parms).sw]
  /\ UNCHANGED <<paths, calls>>

SetP4SwitchFlowTablePath(i, path) ==
  /\ Step(i)
  /\ paths' = [paths EXCEPT ![i].flowTable = path]
  /\ UNCHANGED <<m_p4Switches, calls>>

SetP4SwitchViewFlowTablePath(i, path) ==
  /\ Step(i)
  /\ paths' = [paths EXCEPT ![i].view = path]
  /\ UNCHANGED <<m_p4Switches, calls>>

Populate(i) ==
  /\ Step(i)
  /\ calls' = <<Call("PopulateFlowTable", i, paths[i].flowTable)>>
  /\ UNCHANGED <<m_p4Switches, paths>>

View(i) == Call("AttainSwitchFlowTableInfo", i, paths[i].view)

ViewP4SwitchFlowTableInfo(i) ==
  /\ Step(i)
  /\ calls' = <<View(i)>>
  /\ UNCHANGED <<m_p4Switches, paths>>

ViewAllSwitchFlowTableInfo ==
  /\ Step(1)
  /\ calls' = [i \in Switches |-> View(i)]
  /\ UNCHANGED <<m_p4Switches, paths>>

\* The primitives of the P4 program that write what the commands read: count
\* of an array, the direct counter of an entry that is hit, register_write.
HitCells(rt) ==
  {c \in CounterCells : rt.counts[c] < MaxCount /\ (c[1] \in Tables => HasEntry(rt, c[1], c[2]))}

count(i) ==
  /\ Step(i)
  /\ \E c \in HitCells(m_p4Switches[i].rt) :
       m_p4Switches' = [m_p4Switches EXCEPT ![i].rt.counts[c] = @ + 1]
  /\ UNCHANGED <<paths, calls>>

register_write_primitive(i, c, value) ==
  /\ Step(i)
  /\ m_p4Switches' = [m_p4Switches EXCEPT ![i].rt.registers[c] = value]
  /\ UNCHANGED <<paths, calls>>

Init ==
  /\ way \in Ways
  /\ running = TRUE
  /\ m_p4Switches = <<>>
  /\ paths = <<>>
  /\ calls = <<>>
  /\ read = NothingRead([isDirect |-> FALSE])
  /\ steps = 0

Script(i) ==
  \/ \E parms \in PopulateCommands, garbage \in Garbage :
       GivePopulateCommand(i, parms, garbage)
  \/ \E parms \in AttainCommands : GiveAttainCommand(i, parms)
  \/ \E path \in DOMAIN Files :
       SetP4SwitchFlowTablePath(i, path) \/ SetP4SwitchViewFlowTablePath(i, path)
  \/ Populate(i)
  \/ ViewP4SwitchFlowTableInfo(i)

Packets(i) ==
  \/ count(i)
  \/ \E c \in RegisterCells, value \in Values : register_write_primitive(i, c, value)

Next ==
  \/ \E garbage \in Garbage : AddP4Switch(garbage) \/ PopulateFlowTable(garbage)
  \/ ReadP4Info \/ AttainSwitchFlowTableInfo \/ Return
  \/ \E i \in 1 .. MaxSwitches : Script(i) \/ Packets(i)
  \/ ViewAllSwitchFlowTableInfo

Spec == Init /\ [][Next]_vars

-----------------------------------------------------------------------------
\* Every variable has its type, the fields that were never assigned included,
\* and no function works on an interface that does not exist.
TypeOK ==
  /\ way \in Ways /\ running \in BOOLEAN
  /\ Len(paths) = Len(m_p4Switches)
  /\ \A k \in DOMAIN calls :
       /\ calls[k].at \in Switches
       /\ calls[k].lines \in 0 .. Len(Lines(calls[k].path))
  /\ \A i \in Switches :
       LET sw == m_p4Switches[i]
       IN  /\ \A t \in DOMAIN sw.m_flowTable : sw.m_flowTable[t] \in MatchTypes \cup {"other"}
           /\ \A m \in DOMAIN sw.m_meter : sw.m_meter[m].isDirect \in BOOLEAN
           /\ \A c \in DOMAIN sw.m_counter : sw.m_counter[c].isDirect \in BOOLEAN
           /\ DOMAIN sw.rt.entries = Tables
           /\ \A t \in Tables : DOMAIN sw.rt.entries[t] \subseteq Handles
           /\ DOMAIN sw.rt.rates = MeterCells
           /\ sw.rt.counts \in [CounterCells -> 0 .. MaxCount]

\* What the command that reads something would print on interface sw.
NotShown == -1
Shows(sw, parms) ==
  LET answer == ParseAttainFlowTableInfoCommand(sw, parms)
  IN  IF answer.error = "" THEN answer.value ELSE NotShown

\* The lines that are executed: given one by one, or in a file.
FileLines == UNION {Range(Files[path]) : path \in DOMAIN Files}

\* The lines of a set whose first word is a name.
Named(commands, name) == {parms \in commands : parms # <<>> /\ parms[1] = name}

\* Switch i executes the line, from a file or not.
Populates(i, parms, garbage) ==
  \/ GivePopulateCommand(i, parms, garbage)
  \/ PopulateFlowTable(garbage) /\ calls[1].at = i /\ Line = parms

Attains(i, parms) ==
  \/ GiveAttainCommand(i, parms)
  \/ AttainSwitchFlowTableInfo /\ calls[1].at = i /\ Line = parms

\* It does so without an exception.
Accepted(i, parms, garbage) ==
  /\ i \in Switches
  /\ ParsePopulateFlowTableCommand(m_p4Switches[i], parms, garbage).error = ""
  /\ Populates(i, parms, garbage)

\* What a name that the interface knows as a meter or a counter stands for:
\* those of the entries of a table, or an array.
Denotes(known, name) ==
  <<known[name].isDirect, IF known[name].isDirect THEN known[name].tableName ELSE name>>

\* The rates a command has set for a meter, be it an element of an array or
\* the meter of an entry, are the rates meter_get_rates shows, under any name
\* of that meter, although the two commands choose between entries and arrays
\* separately; and no other meter shows other rates than before.
MeterReadBack ==
  [][\A i \in Switches, garbage \in Garbage,
        parms \in Named(PopulateCommands \cup FileLines, "meter_set_rates") :
       Accepted(i, parms, garbage) =>
         LET known == m_p4Switches'[i].m_meter
         IN  \A m \in DOMAIN known, index \in DOMAIN StrToInt :
               LET get   == <<"meter_get_rates", m, index>>
                   after == Shows(m_p4Switches'[i], get)
               IN  IF /\ Denotes(known, m) = Denotes(known, parms[2])
                      /\ StrToInt[index] = StrToInt[parms[3]]
                     THEN after = From(parms, 4)
                     ELSE m \in DOMAIN m_p4Switches[i].m_meter =>
                            after = Shows(m_p4Switches[i], get)]_vars

\* What the counters known to an interface show.
Readings(sw) ==
  [c \in (DOMAIN sw.m_counter) \X (DOMAIN StrToInt) |->
     Shows(sw, <<"counter_read", c[1], c[2]>>)]

\* A packet that is counted shows in one counter at most, as one more,
\* whatever its names; a counter that is reset shows zero at every index, and
\* the others what they showed before.
CountersCount ==
  [][\A i \in Switches :
       LET before == Readings(m_p4Switches[i])
           after  == Readings(m_p4Switches'[i])
           moved  == {c \in DOMAIN before : after[c] # before[c]}
           known  == m_p4Switches[i].m_counter
       IN  /\ count(i) =>
                \A c \in moved :
                  /\ after[c] = before[c] + 1
                  /\ \A d \in moved : /\ Denotes(known, c[1]) = Denotes(known, d[1])
                                      /\ StrToInt[c[2]] = StrToInt[d[2]]
           /\ \A parms \in Named(AttainCommands \cup FileLines, "counter_reset") :
                /\ Attains(i, parms)
                /\ ParseAttainFlowTableInfoCommand(m_p4Switches[i], parms).error = ""
                => /\ \A c \in moved : Denotes(known, c[1]) = Denotes(known, parms[2])
                   /\ \A c \in DOMAIN after :
                        Denotes(known, c[1]) = Denotes(known, parms[2]) => after[c] \in {0, NotShown}]_vars

\* An entry that was added can be shown under the handle the runtime gave it,
\* with one key and with the words behind the arrow: all of them parameters of
\* the action, or all but the last, which is the priority.  The entries that
\* were there before are still what they were.
EntryAsWritten ==
  [][\A i \in Switches, garbage \in Garbage,
        parms \in Named(PopulateCommands \cup FileLines, "table_add") :
       Accepted(i, parms, garbage) =>
         LET old    == m_p4Switches[i].rt.entries[parms[2]]
             new    == m_p4Switches'[i].rt.entries[parms[2]]
             type   == m_p4Switches'[i].m_flowTable[parms[2]]
             behind == From(parms, LastKey(parms) + 2)
         IN  /\ \A h \in DOMAIN old : new[h] = old[h]
             /\ \E h \in DOMAIN new \ DOMAIN old :
                  /\ Len(new[h].key) = 1
                  /\ new[h].action = parms[3]
                  /\ behind = IF type \in {"exact", "lpm"} \/ behind = <<>>
                                THEN new[h].data ELSE Append(new[h].data, new[h].priority)]_vars

\* The lines of the P4 info file that interface i has read.
InfoRead(i) ==
  IF calls # <<>> /\ calls[1].function = "ReadP4Info" /\ calls[1].at = i
    THEN calls[1].lines ELSE Len(Lines(m_p4InfoPath))

\* A word that is a number to its end.
IsNumber(word) == Extracted(word).good /\ Extracted(word).rest = ""

\* A line that says all there is to say of its element.
Complete(line) ==
  /\ line # <<>>
  /\ IF line[1] = "table" THEN Len(line) = 3 /\ line[3] \in MatchTypes
                          ELSE Len(line) = 4 /\ IsNumber(line[3])

\* A later line of the same kind, with the same name or with none, which leaves
\* the name of some line before it in place.
Repeats(later, line) ==
  later # <<>> /\ later[1] = line[1] /\ (Len(later) = 1 \/ later[2] = line[2])

\* Interface sw believes what the line says.
Believed(sw, line) ==
  LET name  == line[2]
      where == [isDirect |-> Extracted(line[3]).number = 1, tableName |-> line[4]]
  IN  CASE line[1] = "table"   -> name \in DOMAIN sw.m_flowTable /\ sw.m_flowTable[name] = line[3]
        [] line[1] = "meter"   -> name \in DOMAIN sw.m_meter /\ sw.m_meter[name] = where
        [] line[1] = "counter" -> name \in DOMAIN sw.m_counter /\ sw.m_counter[name] = where
        [] OTHER -> TRUE

\* What the P4 info file says in a complete line that no later line repeats
\* is what the interface believes for ever: a meter or counter is direct if its
\* third word is the number 1, however written, and of the table its fourth
\* word names; whatever lines are incomplete or have a word that is no number
\* there, whatever the commands do and whatever unknown names are looked up.
InfoKept ==
  way = "LOCAL_CALL" =>
    \A i \in Switches : \A k \in 1 .. InfoRead(i) :
      LET info == Lines(m_p4InfoPath)
      IN  /\ Complete(info[k])
          /\ \A l \in k + 1 .. InfoRead(i) : ~Repeats(info[l], info[k])
          => Believed(m_p4Switches[i], info[k])

\* The default case of ParsePopulateFlowTableCommand (COMMAND_ERROR): a line
\* whose first word is no command is refused and changes nothing.
UnknownCommandRefused ==
  [][\A i \in Switches, parms \in PopulateCommands, garbage \in Garbage :
       /\ parms # <<>> /\ parms[1] \notin DOMAIN g_apiMap
       /\ GivePopulateCommand(i, parms, garbage)
       => m_p4Switches'[i] = m_p4Switches[i]]_vars
=============================================================================
