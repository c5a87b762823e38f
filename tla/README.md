# A verification of the ns-3 P4 switch

This directory holds TLA+ models of the P4 switch for ns-3 in `src/`
(`P4Model` and what surrounds it), TLC configurations that check them on small
instances, and TLAPS proofs of what matters most for every instance. It covers
the switch with its buffers, what a packet carries through it, its control
interface, and the networks of switches the helpers and the example build.
`PROJECT.json` lists components, runs, mutants, the lines each definition
models, findings, hazards and theorems.

Checking: `tlc -config MCPriRL.cfg MCPriRL`, `tlapm NSQueueingLogicPriRLProofs.tla`,
and so on.

## 1. The system

A `P4NetDevice` sits on an ns-3 node and bridges its ports. A packet received on
a port is given to `P4Model::ReceivePacket`, which copies it into a bmv2 packet
and queues it; what leaves the pipeline comes back through
`P4NetDevice::SendNs3Packet`. The P4 program, its tables, parser, deparser and
multicast engine are those of bmv2 (not in this repository). The code is bmv2's
`simple_switch` with its threads replaced by three simulator events that
reschedule themselves. The condition variables of the threaded program are
still there.

| component | state | operations | interacts with | hard behaviour | what makes it correct |
|---|---|---|---|---|---|
| `NSQueueingLogicPriRL` (`model/p4-model.h`) | logical queues with capacity, rate, last send time and counters; one heap per worker and priority | `push_front`, `pop_back`, `size`, `set_capacity*`, `set_rate*` | called by `P4Model`; reads the clock | ports share a heap; three counters kept by hand; capacity and rate change under load | counters match contents; FIFO; rate respected; every due element served |
| `P4Model::InputBuffer` (`model/p4-model.cc`) | two bounded queues | `push_front` by packet type, `pop_back`, `get_size` | filled by `ReceivePacket`, ingress and egress; emptied by ingress | blocking calls in a single thread; high priority first | no resubmitted packet lost; order; capacities |
| `P4Model` | the three buffers, addresses, delay tags, packet numbers, timers | `ReceivePacket`, `RunIngress/Egress/TransmitTimerEvent`, depth and rate setters, destructor | net device, bmv2, simulator | three clocks; copies of packets with reset metadata; drops everywhere | order, destination and tag of each packet; buffers drain; events never block or stop the clock |
| mirroring sessions | session id to port and/or group | add, delete, get | read by cloning | changes between two packets | clones follow the session at that moment |
| `RegisterAccess`, `primitives.cpp` | packet registers 1 and 2, headers, exit mark | getters and setters of 16-bit fields; primitives | `P4Model` reads and clears them | packing; several requests at once; copies | each request answered once, by its own field; the length follows the headers |
| `P4NetDevice` | ports, address | `AddBridgePort`, `ReceiveFromDevice`, `SendNs3Packet`, `GetPortNumber` | `P4Model`, channel | ports that do not exist, shared packets | every packet goes out of the port it was assigned |
| `P4SwitchInterface`, `switch-api` | what it believes of tables, meters and counters | commands in two parsers, P4 info reader, command files | the runtime of bmv2 | maps indexed with unknown names, fields never assigned, reads and writes through different code paths | what is set is what is shown |
| `P4Controller` | the interfaces of all switches | add, commands by index, files of one or all | constructor of `P4NetDevice`, script | out of range indices; files that do not open | commands reach the switch they are for |
| topology builders and readers (`helper/`, `model/*topology*`) | nodes, links, ports | `Build`, `Write`, `Read` | write the files the readers read | index arithmetic, random wiring | what is written is read as the network it describes |
| `BuildFlowtableHelper` | switches, hosts, flow entries | `Build`, `Write` | reads port and host information | random port choice, which entry wins, division by zero | packets arrive and pass no switch twice |
| `examples/p4-simple-forward.cc`, `global.cc` | global variables that configure the next switch | `main` | all of the above | globals left by the switch before | each switch runs the program the topology names |
| `helper.cc`, `key-hash.cc` | none | conversions, CRCs | interface, bmv2 | widths, odd lengths | equal to their definition |
| P4 programs under `test/` | registers | CoDel, priorities, firewall, ... | run by the switch | timing of drops | outside the switch itself |

`model/depreated` and `deprecated` are not built; `test/p4-test-suite.cc` is a
skeleton.

## 2. Modules

```
Loops                  loops over data as functions, about which theorems can be cited
LoopTheorems           such a loop is computed turn by turn, and stays in what its steps keep

NSQueueingLogicPriRL   the egress buffers, and what they show of DropTailQueues
DropTailQueues         what they promise                        abstract specification
MCPriRL                instances
NSQueueingLogicPriRLProofs  counters, order, spacing, capacities; they implement DropTailQueues
InputBuffer            the input buffer, as functions
P4Model                the switch; uses InputBuffer and DropTailQueues
MCP4Model              instances: P4 outcomes, groups, sessions
P4ModelProofs          no packet waits in vain for the output buffer or is lost resubmitted; types,
                       destination, tag and order of the packets

RegisterAccess         the packed packet registers
PacketPass             what a packet carries through the pipelines; uses RegisterAccess
PacketPassProofs
Conversions, KeyHash   helper.cc and key-hash.cc; both use Loops
PacketDataProofs       the tables of the CRCs do what the division does; texts are read back
MCPacketData           instance of these

BmRuntime              what the control interface expects of bmv2 (external)
P4SwitchInterface      the commands; uses BmRuntime
P4Controller           all interfaces, files, commands and packets interleaved
MCControl              instance: a small P4 program and its commands
P4ControllerProofs     what is set is what is shown

TopologyFiles          the builders of topology files and their reader
BuildFlowtableHelper   the flow tables; uses Loops
BuildFlowtableProofs   the search for paths ends; what entries can be
P4Network              main of p4-simple-forward: file, links, tables, switches, a packet
MCNetwork              instance: topologies
P4NetworkProofs        how the switches are wired, what flow tables name, and where packets go
```

`P4Model` does not contain the egress buffers in detail. It instantiates
`DropTailQueues`, and `NSQueueingLogicPriRL` implements `DropTailQueues`: run
`pri_rl` checks it on an instance, theorem `BuffersAreDropTail` proves it. Rates and send times are therefore free in `P4Model`: the egress
event may take the head of any queue, or nothing (`EgressIdle`), which includes
whatever rates would allow.

### NSQueueingLogicPriRL

`queues_info`, `workers_info`, `capacity` and `queue_rate_pps` are the members of
the class; `now` is `Simulator::Now()`. A `std::priority_queue` is the set of its
elements, and `top()` is the element that is `Before` all others. Each public member
function is one action: the mutex is always free since the simulator runs one
event at a time. `get_queue` creates a queue when it is first named, in
`PushRefused`, `PushAccepted` and the setters alike (`WithQueue`). `pop_back`
returns early without writing when nothing is due, which is a stuttering step.
`wrapping_counter` does not wrap in the model (it is a `size_t`).

Clock and rates are in ticks, `TicksPerMs` of which make a millisecond;
`rate_to_time` truncates to a tick as `Time` truncates to its resolution.

### InputBuffer and P4Model

An action is one simulator event or one call from outside, with everything it
does. `IngressStep` is `RunIngressTimerEvent`: the event takes a packet, the P4
program decides (`r`, one of `IngressOutcomes`), the clone is made first, then
exactly one of resubmit, multicast, drop, forward happens, in the order of the code's early
returns. `EgressStep` is `RunEgressTimerEvent` and `TransmitStep` is
`RunTransmitTimerEvent`. `left` holds the ticks until each event; `Tick` is the
simulator moving its clock on; of two events due at one instant the one
scheduled earlier (longer period) runs first. Equal periods are left in any
order. The very first ingress event has another delay than its successors; it
ties only with a transmit event, which then finds the output buffer empty, so their
order does not matter.

`phase` says where the program stopped: a call that waits on a condition variable (or
spins) never returns, because everything that could wake it runs in the same
thread. Nothing happens after it.

A packet carries `packet_id` and `to`, what it really is, next to `ns3i`, what
the P4 metadata says. Copies (clone, resubmit, recirculate) reset the metadata
and apply the field list.

Abstractions, all in the direction of more behaviours unless stated:

- the P4 program is a set of outcomes; tables, parser, header contents are gone;
- a field list either keeps all the metadata or none of it (`keeps`);
- the P4 program's egress pipeline does not change the priority field (fewer behaviours);
- the ns-3 fields are found under one of the names configured in `global.cc`, as
  `examples/p4-simple-forward.cc` arranges for `simple_switch`. Programs without
  these fields (`test/router`, `test/firewall`, ...) would send every packet to
  `destination_list[0]` without a tag (fewer behaviours);
- `Groups` is the multicast engine's content, how many copies each group sends to each port,
  constant during a behaviour (fewer behaviours);
- only egress ports in `Ports` are named by the P4 program;
- when several queues have a due element, `P4Model` may serve any of them;
- learning, checksums, queueing metadata, tracing counters and tracing files are
  left out.

### RegisterAccess and PacketPass

A 64-bit word is the set of the positions of its ones, so masks and shifts are
what they are in the code. The ten getters and setters of fields differ in their constants only and are `get`
and `set` of a field (index, mask, shift). `PacketPass` follows packets through `IngressStart`, any sequence of primitives
(`Program`), and one of the ends of the pipelines, which read the requests, answer them
and clear them. Both the primitives of `primitives.cpp` and those of the same names
that bmv2's `simple_switch` registers are there; the cloning, digest,
resubmit and recirculate primitives of `primitives.cpp` write metadata that `P4Model` never reads,
and are `other_primitive`.

The two buffers are sets: the order in which packets wait is `P4Model`'s matter. The
length of a packet is that of its payload plus one for each byte of its headers
(`SizeOf`, `BytesOf`). A clone at ingress is parsed again from the data the packet arrived with
(`arrived` is register 0 at that time); a clone at egress copies the packet as it is,
without its exit mark (bmv2 makes such a copy). Field lists do not name
`egress_spec` or `mcast_grp` (fewer behaviours). Handing a digest to the learning
engine changes nothing the pipelines read.

### Conversions and KeyHash

Texts are the sequences of their digits. `StrToInt` is modulo the width of an
`unsigned`, scaled down to 16 bits in the run (`Nibbles = 4`). `IntToStr(0)` is the
empty text, as in the code, which ends the text before the 0 it wrote. A loop that
divides a number until nothing is left is the sequence of its quotients (`Quotients`,
by `Turns` of `Loops`), of which as many count as there are turns (`LastTurn`).
A hexadecimal text with an odd number of digits ends in the character that ends every text, which `HexcharToInt` takes
for 0 (`Digit`). `HexstrToBytesOfWidth` keeps the last digit of such a text; `HexstrToBytes` writes its byte behind the end of
the result, where it is lost. The flow tables write all eight digits, so the properties speak of texts with an even number.
`std::stoi` throws for a number that is no `int` (`OutOfRange`). Words of
`key-hash.cc` are sets of bit positions; `HashByte` is one round of `hash_crc32`.
`hash_crc16` and `hash_crc8` return sets: `hash_crc16` takes its bit order from
the array of the 32-bit algorithms, past whose end it reads for most algorithms
(`ReadAsNotRev`), and `hash_crc8` reads as many bytes as the number of the
algorithm. Nothing calls either.

### BmRuntime, P4SwitchInterface and P4Controller

A command is an operator from interface and words to an answer: the interface after it,
what was printed, and the exception that was caught. Every case of
`ParsePopulateFlowTableCommand` and `ParseAttainFlowTableInfoCommand` is there, in the order of its
checks, with the entries `operator[]` inserts for unknown names (`garbage`: fields nobody
assigned hold anything). What the runtime of
bmv2 does is modelled from how the interface uses it (`BmRuntime`, external).

`P4Controller` interleaves the construction of devices, commands at any index, files at one or all
switches, and packets, which count and write registers at any switch. The three functions that read
files are loops, and one turn of a loop is one action (`ReadP4Info`, `PopulateFlowTable`,
`AttainSwitchFlowTableInfo`): `calls` holds the calls that have not returned, each with the number of
lines it has read, and `read` the local variables of `ReadP4Info`, which live longer than a line.
`Init` of the interface is two calls and `ViewAllSwitchFlowTableInfo` one for each switch. There is one
thread, so nothing else happens while a call is pending (`Idle`).

`isDirect` of the P4 info file is an `unsigned int` read with `>>`. What that makes of a word is the constant `Extracted`:
the number, whether the stream is still good, and what is left of the word. The name of the table is read behind
it (`NameBehindFlag`): `01` is 1, `1x` is 1 and leaves `x` to be the name, and a word that is no number gives 0 and no
name, so that the name is that of an earlier line.

The loops over command files end at a line of 500 characters or more, which `getline(row, 500)` takes for a failure. `Files` holds the
lines before it; the info file is read with `std::getline` and has no such limit.

`m_p4InfoPath` has no setter and is empty, so that `ReadP4Info` aborts the program
whenever `g_populateFlowTableWay` is `LOCAL_CALL`
(`p4-switch-interface.h:142`, `p4-switch-interface.cc:67`, `p4-net-device.cc:110`). The run sets the path
to a file, since what follows would otherwise never run. `ViewFlowtableEntryNum` only prints.

### TopologyFiles, BuildFlowtableHelper and P4Network

`P4Network` is `main` as a sequence of stages, `phase` being the one that was reached: a builder writes a
file or a given one is used, the reader reads it, links become channels and
devices, addresses are assigned, flow tables built, switches installed with whatever the global
variables hold. The loops over links, hosts and switches take one of them at a time
(`InstallLink`, `AssignAddress`, `InstallSwitch`); the next link has number `Len(rates) + 1`, the next
switch number `Len(configured)`. Then one packet is sent from any host to any other and
travels device by device. `phase` ends in `aborted` where `main` exits, and in
`crashed` where the program does what no result is defined for: `rand() % 0`, a link to a node whose number is
out of range, the address of a host without a device, an egress port the bridge does not have.
The option `p4src` keeps its value (`p4src`); the example with fat trees has no such option.
The recursion of the depth-first search is a recursive function (`DfsResults`), whose argument is what a call of `Dfs`
is given: the state it works on (`States`: the entries, the pairs of hosts linked, their number and the switches left
downwards) and its local variables. `DfsCalls`, `States` and `Tables` are the sets the arguments and the loops' values
come from; no element of them is looked at but those the search meets.

A flow entry holds the set of ports among which `rand()` chose. A packet takes any
of them at each switch; since it passes no switch twice (`NoSwitchTwice`), this
is the same as having chosen beforehand. Of several entries for an address `Write` writes
the first only. The switches'
programs are reduced to their forwarding table (P4Model models the rest).

Facts met on the way, modelled as they are: the builders' `Write` declares local
variables that hide the rates that were set, so the files never carry them; a
wiring of a fat tree can leave an aggregation switch without a core switch, and
`BuildFattreeFlowTable` then divides by zero (`crashed`; 2 of the 16 wirings of four pods);
`treeLevelNum` 1 and an odd `podNum` index out of bounds and are no values of the
constants; writing flow tables is commented out in this example. A malformed file is
refused as a whole in the model.

## 3. Runs

| run | question | bounds and why they suffice |
|---|---|---|
| `pri_rl` | counters, FIFO, spacing, capacity, service; implements `DropTailQueues` | two ports on one heap, two priorities, three pushes, capacity 2 lowered to 1, one change of rate from 1/ms to 2/ms, 3 ticks of half a millisecond: a queue fills, refuses, drains, has its rate raised while elements wait, and a low priority waits for a high one |
| `p4_model` | order, destination, tags, no lost resubmission, output buffer | two packets of two destinations, each copied once at most; a clone to a port, to a group and to both buffers; two ports and two priorities, one of which does not exist for one outcome; arrivals 2, resubmissions 1, egress depth 2 lowered to 1; a bottleneck of two ingress ticks; a field for indices that tells just the two destinations apart |
| `p4_live` | everything drains, time passes | three packets, recirculation and resubmission once each, ports 0 and 1 polled and port 8 not |
| `control` | what a command sets is what another shows | two switches, two steps (commands, files, packets) in any order after their construction, which reads files itself, line by line; two tables, direct and indirect meters and counters, an info file with empty, short, one-word and unknown lines, where a meter has two names and the flag is written `0`, `1`, `01`, `1x` and as a word that is no number; commands that name what does not exist, are incomplete, or are given to the wrong parser |
| `packet_data` | requests, lengths, conversions, hashes | one packet and all its copies, two primitives per pass and four passes, so that a request can be made, answered, and seen again after resubmission, recirculation or cloning; registers stale on arrival; every key width from 1 to 16 bits; every CRC algorithm |
| `network` | files, ports, functions, delivery | every wiring of fat trees of two and four pods, binary trees of two and three levels, the files under `examples/topo` and `test/simple_codel`, a file with a host that has no link, one with a link to a node that does not exist, one with a host that has two links, and every connected graph of four switches with two to four hosts, its links in one order each (the ports of a switch are numbered by the number of its neighbour, hosts last); between every two hosts |
| `control_unknown_command`, `pri_rl_zero_rate`, `p4_back_pressure`, `p4_destructor`, `p4_destination`, `p4_capacities` | the findings below | the smallest instance that shows each |

`CHECK_DEADLOCK FALSE` everywhere: the bounds stop the model, and the
switch really stops after its destructor or a call that never returns.
In the runs `NormalCapacity` is what the constructor passes first (it becomes
`capacity_hi`) and `ResubmitCapacity` what it passes second.

`Symmetry` of the addresses is used in `p4_model` only, which checks no liveness.

### Properties

- `SizesMatchContents`: the three levels of counters equal what is queued.
- `Fifo`: nothing overtakes within a port and priority, although ports share a heap.
- `SpacedByRate`: a new element is due one packet time after all those before it.
- `GrowsWithinCapacity`: a queue grows only within its present capacity, even when
  that was lowered below its occupancy.
- `DueIsServed`: every due element leaves; lower priorities are not forgotten.
- `RefinesDropTail`: neither loss nor duplication, refusal exactly at capacity.
- `OutputNeverBlocks`: the blocking push at the end of the egress event never
  waits, because the transmit event has half its period.
- `ResubmitKeepsPacket`: the unchecked push of a resubmitted packet never fails;
  the argument is that the packet was served from that queue first, or that queue
  was empty.
- `InOrder`: packets of a port and priority stay in order across all three buffers.
- `DestinationPreserved`, `TagsBelong`: a packet is sent to the address it came
  for, with its own delay tag or none.
- `Drains`, `TimePasses`: liveness of the event loop. `Drains` speaks of the eight
  ports `egress_thread` looks at: what waits for a higher port leaves only while
  something waits for a lower one. `TimePasses` needs a bottleneck of 2 us at least
  (`BottleNeck = 2` in the run): with 1 us the integer division makes the period of the
  transmit event 0, and `start_and_return_` does not notice since it tests the
  period of the egress event.

- `InfoKept`: what a complete line of the info file says is believed from the moment it has been read,
  unless a later line has the same kind and name, or is one word, which repeats a name of an earlier line. A meter or counter is
  direct if its flag, read as a number, is 1; a line is complete if its third word is a number and nothing else.
- `MeterReadBack`: rates set through one parser, in a file or not, are shown by the other under every name
  of that meter, and what every other meter shows is what it showed before.
- `CountersCount`: a packet shows in one counter at most, whatever its names; a reset sets all of that counter and nothing else.
- `EntryAsWritten`: an entry holds the key and the words of the line, handles of others keep theirs.
- `ArrivalsAskNothing`, `AnsweredOnce`: no request survives the pass that answers it,
  in the packet or in any copy, and stale registers request nothing.
- `RequestsIndependent`: fields that share a register do not disturb one another.
- `LengthIsDeparsed`: register 0 follows the headers through every copy.
- `AddressSurvives`, `KeyKeepsPrefix`, `HashIsRemainder`: conversions and CRC tables against their definitions.
- `PortInfosMatchDevices`: what the flow tables are computed from is how the devices are wired. Two things are excepted,
  which `main` notes wrongly: a link of a switch to itself, both of whose port numbers are taken before either device
  is there, and a host with several links, which remembers the port of the last and sends through the first.
- `HopsFollowPortInfos`: a packet enters the next switch through the port which the information of the port it left
  through names, or the host that is named; so the wiring a packet meets is the one the tables were computed for.
- `TablesNameWhatExists`: flow tables have addresses of hosts and ports of their switch only.
- `LinksAsWritten`: written files are read as the network they describe, and in every file a link without a rate has that
  of the link before it, the first 100Mbps.
- `CrashesForWantOfUplinks`: the program divides by zero exactly if the wiring of a fat tree left an aggregation switch without
  a core switch; for every other written file the tables are built and no packet meets a port that does not exist.
- `FunctionsAsNamed`: the program of a switch is that of its function, or the one `p4src` names; the globals a switch before
  left behind do not choose it.
- `NoSwitchTwice`, `Arrives`: the tables of different switches agree, for every choice of `rand()`.
  All connected graphs of five switches with a host each were explored once as well, with the same result.

### Fairness

`WF(SwitchForwards)` and `WF(HostReceives)` in `P4Network`: the simulator executes
every event, and a switch serves what it has (`Drains`).
`WF(Tick)` and weak fairness of each event: the simulator executes every
scheduled event and the events always reschedule themselves. `WF(PopBack)` in
`MCPriRL`: the egress event polls for ever. `SF(EgressServes(s))` in `P4Model`:
the egress buffers serve each due element, which is `DueIsServed`; strong,
because an egress event is enabled only at the instants it is due. `DueIsServed`
relies on the bounded number of pushes: under unbounded load a higher priority may
starve a lower one, as the class comment says.

### Findings

1. **No rate means 1000 packets per second** (`pri_rl_zero_rate`). The comments of
   `set_rate` promise no limit for rate 0; `rate_to_time(0)` is 1 ms.
2. **Back pressure hangs the simulation** (`p4_back_pressure`). A full arrivals
   queue waits for an event of its own thread.
3. **The destructor may spin** (`p4_destructor`) on a full egress queue.
4. **Copies lose their destination** (`p4_destination`) unless the P4 program's
   field lists name the ns-3 metadata. With such lists (`p4_model`) destination and
   tag are kept.
5. **Swapped capacities** (`p4_capacities`): arrivals get 1024 places, resubmitted
   packets 10240, the opposite of what the constructor's comments say.
6. **A misspelt command sets the default action** (`control_unknown_command`). The map of
   commands is indexed with the unknown word, which inserts number 0, `TABLE_SET_DEFAULT`.

## 4. Proofs

Each theorem holds for every value of the constants that satisfies the named
assumptions of the modules. The assumptions say what values a configuration can have
(ranges, and that lines are sequences); what else a theorem needs is a hypothesis of its statement.
The inductive invariants were checked with TLC on the instance of the run before they were proved.

| module | theorem | shows | hypotheses beyond the module's assumptions |
|---|---|---|---|
| `NSQueueingLogicPriRLProofs` | `TypeCorrect`, `SizesAreRight`, `QueuesAreFifo`, `QueuesAreSpaced`, `QueuesGrowWithinCapacity`, `BuffersAreDropTail` | the safety properties of `pri_rl`, the refinement included | none |
| `P4ModelProofs` | `OutputBufferNeverBlocks`, `ResubmitsKeepPackets` | `OutputNeverBlocks`, `ResubmitKeepsPacket` | none |
| | `TypesHold` | `TypeOK` | none |
| | `TagsStayWithTheirPackets` | `TagsBelong` | `FieldListsKeep` |
| | `DestinationsPreserved` | `DestinationPreserved` | `FieldListsKeep`, `AddressesFit` |
| | `PacketsStayInOrder` | `InOrder` | none |
| `PacketPassProofs` | `ArrivalsAreCleared`, `RequestsAreAnsweredOnce`, `RequestsAreIndependent`, `PacketsAreTyped`, `LengthsAreDeparsed` | the properties of `packet_data` about packets | none |
| `PacketDataProofs` | `HashesAreRemainders`, `AddressesSurvive`, `KeysKeepTheirPrefixes` | `HashIsRemainder`, `AddressSurvives`, `KeyKeepsPrefix` | none |
| `P4ControllerProofs` | `TypesHold`, `InfoIsKept`, `EntriesAreAsWritten`, `RatesReadBack`, `CountersAreCounted` | the properties of `control` | none |
| `P4NetworkProofs` | `TypesHold`, `PortInfosMatch`, `HopsFollow`, `FunctionsAreAsNamed` | `TypeOK`, `PortInfosMatchDevices`, `HopsFollowPortInfos`, `FunctionsAsNamed` | none |
| | `TablesAreSound` | `TablesNameWhatExists` | none |
| `BuildFlowtableProofs` | `SearchEnds` | every call of `Dfs` returns, whatever the network's links | `IsNetwork`, which `NetworkIs` shows of what `main` builds |

### The egress buffers

`PriRLAssumption` gives the ranges of the constants, at most 32 priorities.
`SizesMatchContents` is not inductive by
itself: a decrement could be of a counter at 0, and an element could be counted
twice. The inductive invariant `IInv` adds that an element waits with the worker of
its queue (`Attributed`), has a number of its own (`Distinct`), that contents are
finite (`Finite`, without which `Cardinality` means nothing), that numbers and send
times agree (`Ordered`) and that `last_sent` bounds the send times
(`SentInTime`). The steps are grouped: what leaves counters and contents alone
(`QuietKeepsIInv`: setters, ticks, refused pushes), an accepted push, a pop.
`Fifo` follows from `Ordered` and `Distinct`; `SpacedByRate` from `SentInTime`;
`GrowsWithinCapacity` from `SizesMatchContents`, which turns a counter that grows into
an element that was added.

The refinement mapping is at the end of `NSQueueingLogicPriRL`: the queue that
`DropTailQueues` sees is what the heap holds for it (`Held`), in the order of the numbers
(`Waiting`, by `Rank`), each element with its number; the limit of a queue that does not exist yet is
the default capacity. The proof is that a pushed element has the highest rank and so is
appended, that a popped one has rank 0 and so is the head, and that a rank drops by one when the
head goes. The counter that `push_front` compares is the length of
that sequence by `SizesMatchContents`. So what is proved of `P4Model` on top of `DropTailQueues` holds with the detailed
buffers too, as far as safety goes.

### The switch

`OutputInv` says that, while a packet is in the output buffer,
the transmit event is due before the next egress event; it needs that the one
period is smaller than the other (`TransmitIsFaster`) and that ties are resolved
for the longer period. For `ResubmitKeepsPacket`, `IsBuffer` says
that the queue of resubmitted packets never exceeds its capacity, `PopBack` that
taking a packet leaves room in that queue, whichever queue the packet came from, and
`PushFront` that the push then adds it. `P4ModelAssumption`: periods are natural
numbers, and the output buffer and the queue of resubmitted packets have room for one packet.

Tags and destinations rest on one lemma, `HeldNext`: if a set of packets contains whatever has its
origin and its metadata from one of the set (`Inherited`) and every packet that arrives is in it, then the buffers only ever
hold packets of the set (`Held`). For tags the set is that of the packets whose
metadata holds their own number (`Numbered`), for destinations of those whose metadata holds the place of
their address in `destination_list` (`Addressed`, with the invariant that no address is
twice in the list). `FieldListsKeep` is that the field lists of what a program clones,
resubmits or recirculates name the ns-3 metadata: without it the property is false
(finding 4). `AddressesFit` is that there are at most as many addresses as the 16-bit
index tells apart. `P4ProgramAssumption` gives the types of outcomes, groups and sessions.

`InOrder` needs more than itself (`OrderInv`): arrivals wait in the order of their
numbers, everything that has left them and is no copy has a smaller number, queue by
queue and in the output buffer (`After`), and what is sent back waits apart.

### The packet

The first part of `PacketPassProofs` is about the packed registers: a value that fits is read
back (`GetSetSame`) and the other fields keep theirs (`GetSetOther`), because masks
of one register are disjoint (`FieldsApart`). The invariant `PassInv` is that
waiting packets are cleared and queued ones answered, and that all have
registers; each end of a pipeline is covered by what it makes of a packet:
`FreshAsksNothing`, `MulticastIsAnswered`, `ClonesAreAnswered`,
`LeavesIngressAnswered`. `PacketPassAssumption` is that programs name session and list numbers
that fit their fields. For `LengthIsDeparsed`, `LengthInv` adds that the length a packet arrived
with is that of the headers it arrived with, which is what copies are given.

### The hashes

`HashSpec` is one call of `hash_crc32`, byte by byte. The invariant `HashInv` is the first part of `HashIsRemainder`
with the type of the call. Its step is one byte against eight bits (`ByteIsEightBits`): dividing is linear
(`Divided` of a symmetric difference is the symmetric difference), so that the byte under the
register can be added at once (the tables) or bit by bit (`BitTaken`): `BitTakenRight` and `BitTakenLeft` say so for the
two bit orders. `Turns` of `Loops`, a function of the number of turns, stands for the loops
over bits and bytes; `LoopTheorems` shows that such a function exists and is what its recursion says (`TurnsAre`) by
well-founded induction on a set, which needs no operator as parameter. `KeyHashAssumption`: keys are sequences of bytes.

### The conversions

`ConversionsAssumption`: an `unsigned` is a whole number of bytes, numbers fit it, and parts of an address fit a byte.
The input never changes, so both properties are facts about the operators. The argument is that writing and reading go
through the same quotients: what `Quotients` leaves after each turn is smaller by the base (`QuotientsEnd`: after `4 * Nibbles` turns,
and after `Nibbles` for the bases 16 and 256, nothing is left), the digits are the remainders of those quotients (`DigitsAre`,
`HexDigits`, `DecimalDigits`), and a loop that takes the digits in, the first one first, passes the quotients backwards
(`DigitBack`, `ReadsBack`), where nothing wraps since none of them exceeds the number. `NumberBytesAre` is that the quotients by
256 are every second one by 16, from which two digits of the text are a byte (`HexIsBytes`).
For `KeyKeepsPrefix`, leaving out bits is dividing by a power of two (`BitsLeftOut`, by `DividedTwice`), and `FirstBits` goes through the
eight widths the last byte can have. For a dotted address, `Layout` says where its parts stand (`FourParts`), and `ReadSoFar`
what has been read before each of them (`PartAndDotAreRead`).
Induction is over sets of turns (`InductionTo` of `LoopTheorems`), which needs no operator as parameter.

### The control interface

`ControlInv` is the type of every interface and of the calls in progress: they are of interfaces that
exist, and the info file is read first. `EntriesAreAsWritten` follows `table_add` through its cases
to `mt_add_entry`, whose new handle is free (`HandleIsFree`, the least number not in use). For `RatesReadBack` and `CountersAreCounted`,
what a read shows is the content of one cell of the runtime (`RatesAreShown`,
`CountsAreShown`), and two names show the same cell exactly if they denote the same
meter (`SameCell`, `CellTells`). `InfoInv` is `InfoKept` for the lines read so far (`KnowsInfo`) together with
what makes an empty line harmless: the element read last has been stored (`ReadFits`), so that
storing it again changes nothing. `ExtractedAssumption` is what the theorems need of reading numbers: a number is natural, and none is 1 when
the stream has failed. `P4ControllerAssumption`: lines and files are sequences, sizes are numbers, and the name
of a table is no name of a meter or counter array, since names are unique in a P4 program.

### The network

`P4NetworkAssumption` is that sizes of trees and the two numbers of nodes in a file are natural numbers, since they are `unsigned`;
nothing is assumed of the lines. The theorems hold for every topology file, sensible
or not, since `main` installs a link only between nodes it finds, and whatever the flow tables say.
`IInv` has a part for each stage. For the switches (`SwitchesInv`): every device is a port once and of the switch
the file says (`Wired`), every device made so far that is on a switch is a port (`Ported`), and port information matches
the other end (`Matched`). None of these is inductive alone: when a link is added, the information of old
ports names numbers that must not move (`Longer`, `PortStays`), and the two new ends name each other's number before either
is there. `LinkToHost` and `LinkToSwitch` are that step. For the hosts (`Linked`): all their devices lead to switches, the only
one to the port the host has noted. For the packet (`OnPath`): each hop starts where the one before ended.
`HopsFollow` then is that the device a packet arrives at is a port once only (`OnePlace`), so that the number
`GetPortNumber` finds is the number the information of the other end has. `DevicesInv` holds the globals of all
devices; what a function does not set comes from the device before, and is never the program (`ConfigureIs`).

### The flow tables

`SearchEnds` is that every call of `Dfs` is what its loop over the ports makes of further calls, for every network in which
hosts and ports that are named exist (`IsNetwork`): cycles, self-loops and parallel links are allowed. A call goes on to a
switch not left before and notes its own first, so that the pairs still to pass become fewer (`StillToPass`, `Measure`). A function
defined by recursion on that measure exists (`ResultsExist`, built up from the calls with the least measure), and two such functions agree
where they are used (`AgreeBelow`), which is what the theorem takes from the `CHOOSE` a recursive definition stands for.
Each call leaves sound entries behind (`Later`), from which `DefaultTablesAre` follows. `FattreeTablesAre` is the
same for fat trees, `FileEntriesAre` for what `Write` makes of entries.

`TablesAreSound` joins them with `main`. The invariant `BuildInv` is that nodes are numbered from 0 (`NumbersInv`, which needs that the
builders write natural numbers: `FattreeNumbers`, `BinaryTreeNumbers`), that the places ports and hosts have noted exist (`PlacesInv`; in the
middle of a link between two switches one of them does not yet, so `PlacedIn` relates the information before to the devices
after) and that tables are empty before they are built (`TablesInv`). When every host has an address, what the tables are
computed from is a network (`NetworkIs`).

### Only model-checked

- `DueIsServed`, `Drains`, `TimePasses`, `Arrives`: liveness under fairness is out of the prover's reach.
- `NoSwitchTwice`, `LinksAsWritten` and `CrashesForWantOfUplinks` depend on which lines the builders write: on the paths through
  trees and fat trees, on how many lines there are, and on which of them lead up. Proofs would need what `FlattenSeq` makes of sequences whose lengths
  are sums over the switches, by induction over data that the library's theorems do not offer.
- The findings, which are counterexamples.

## 5. Plan

1. `NoSwitchTwice` for the "default" tables: the entries of one path form a path (`EntriesAlong`).
2. `LinksAsWritten` for the reader: what a link is installed with is what its line says, for every file.

## 6. Not modelled

- Deprecated sources (`model/depreated`, `examples/deprecated`): not built. Only the flow-table writing
  of `p4simulator-large-scale.cc` was read, to see how the helper is used.
- P4 programs under `test/`: they run inside bmv2. `P4Model` lets them decide anything its outcomes name.
- Tracing files, counters of drops and the statistics of the examples; exception texts; MAC addresses
  and applications of the examples.
- The remaining operations of `P4NetDevice` (MTU, callbacks, `DoDispose`), which store what nothing reads,
  and what it does to a shared packet (`p4-net-device.cc:139`).
- `truncate`, `StrToDouble` and what `HexcharToInt` makes of characters that are no digits.
- Hazards without a property are listed in `PROJECT.json` with the reason.
