------------------------------ MODULE P4Network ------------------------------
(***************************************************************************)
(* A network of P4 switches as examples/p4-simple-forward.cc builds it     *)
(* from a topology file, and a packet that travels through it.             *)
(*                                                                         *)
(* A device is <<n, end>>: end 0 or 1 of the n-th link.  Switch s has      *)
(* index s; host h has index switchNum + h in files and index h elsewhere. *)
(* The address of host h is h + 1 when every host has one device.  The     *)
(* loops of main over links, hosts and switches take one of them at a      *)
(* time.  What happens inside a switch between ReceivePacket and           *)
(* SendNs3Packet is P4Model; here the forward_table of the P4 program      *)
(* decides at once.                                                        *)
(***************************************************************************)
EXTENDS Integers, Sequences, FiniteSets, SequencesExt, TopologyFiles, BuildFlowtableHelper

CONSTANTS PodNums,       \* fat trees to build
          TreeLevelNums, \* binary trees to build
          GivenFiles,    \* topology files of the repository
          P4Sources      \* values of the option p4src

ASSUME P4NetworkAssumption ==
  /\ PodNums \subseteq Nat /\ TreeLevelNums \subseteq Nat \ {0}
  /\ \A f \in GivenFiles : f.switchNum \in Nat /\ f.hostNum \in Nat

VARIABLES phase,       \* how far main is: "start", .., "running", or "aborted", "crashed"
          p4src,       \* the option of that name
          podNum,      \* of the fat tree, 0 when another kind of file is used
          file,        \* the topology file
          topoReader,  \* what was read
          switchNodes, \* of each switch, switchDevices and switchPortInfos
          hostNodes,   \* of each host, hostDevice, linkSwitchIndex, linkSwitchPort, address
          rates,       \* of each link, the data rate of its channel
          flowTables,  \* of each switch, the ports an address may have been given
          m_ports,     \* of each switch, the bridge ports of its P4NetDevice
          configured,  \* of each switch, the global variables its device was created with
          packet       \* the packet that travels

vars == <<phase, p4src, podNum, file, topoReader, switchNodes, hostNodes, rates, flowTables, m_ports, configured, packet>>

NoFile == File(0, 0, 0, <<>>)
NoPacket == [state |-> "none"]

Init == /\ phase = "start"
        /\ p4src \in P4Sources
        /\ podNum = 0
        /\ file = NoFile
        /\ topoReader = Read(NoFile)
        /\ switchNodes = <<>>
        /\ hostNodes = <<>>
        /\ rates = <<>>
        /\ flowTables = <<>>
        /\ m_ports = <<>>
        /\ configured = <<>>
        /\ packet = NoPacket

-----------------------------------------------------------------------------
\* The file.

\* FattreeTopoHelper: Build and Write.  The example with fat trees has no
\* option p4src.
WriteFattree(p) ==
  /\ phase = "start"
  /\ p4src # "simple_switch"
  /\ \E start \in [0 .. CoreSwitchNum(p) - 1 -> 0 .. (p \div 2) - 1] : file' = FattreeFile(p, start)
  /\ podNum' = p
  /\ phase' = "file"
  /\ UNCHANGED <<p4src, topoReader, switchNodes, hostNodes, rates, flowTables, m_ports, configured, packet>>

\* BinaryTreeTopoHelper: Build and Write.
WriteBinaryTree(treeLevelNum) ==
  /\ phase = "start"
  /\ file' = BinaryTreeFile(treeLevelNum)
  /\ phase' = "file"
  /\ UNCHANGED <<p4src, podNum, topoReader, switchNodes, hostNodes, rates, flowTables, m_ports, configured, packet>>

UseGiven(f) ==
  /\ phase = "start"
  /\ file' = f
  /\ phase' = "file"
  /\ UNCHANGED <<p4src, podNum, topoReader, switchNodes, hostNodes, rates, flowTables, m_ports, configured, packet>>

NoPorts == [switchDevices |-> <<>>, switchPortInfos |-> <<>>]
NoLink == [hostDevice |-> <<>>, linkSwitchIndex |-> -1, linkSwitchPort |-> -1, address |-> 0]

ReadTopology ==
  /\ phase = "file"
  /\ topoReader' = Read(file)
  /\ phase' = IF topoReader'.wellFormed /\ topoReader'.links # <<>> THEN "read" ELSE "aborted"
  /\ switchNodes' = [s \in 0 .. topoReader'.switchNum - 1 |-> NoPorts]
  /\ hostNodes' = [h \in 0 .. topoReader'.hostNum - 1 |-> NoLink]
  /\ UNCHANGED <<p4src, podNum, file, rates, flowTables, m_ports, configured, packet>>

-----------------------------------------------------------------------------
\* The links.

SwitchInfo(switch, port) == [type |-> "s", index |-> switch, port |-> port]
HostInfo(host) == [type |-> "h", index |-> host, port |-> 0]

\* Mutant: the number is taken when the device has been added.
PortNumberAfterAdd(s) == Len(switchNodes[s].switchDevices) + 1

PortNumber(s) == Len(switchNodes[s].switchDevices)

WithPort(switches, s, device, info) ==
  [switches EXCEPT ![s] = [switchDevices |-> Append(@.switchDevices, device),
                           switchPortInfos |-> Append(@.switchPortInfos, info)]]

\* Host h gets a link to switch s.
WithHostLink(h, device, s) ==
  [hostNodes EXCEPT ![h] = [hostDevice |-> Append(@.hostDevice, device), linkSwitchIndex |-> s,
                            linkSwitchPort |-> PortNumber(s), address |-> @.address]]

\* The attribute of the helper stays what the last link with a rate made it.
ChannelRate(links, n) == IF links[n].rate = NotGiven THEN "100Mbps" ELSE links[n].rate

\* An end of a link that main finds in its arrays.
IsSwitch(type, index) == type = "s" /\ index \in DOMAIN switchNodes
IsHost(type, index) == type = "h" /\ index - topoReader.switchNum \in DOMAIN hostNodes

\* Link n connects two switches; both port numbers are taken before the
\* devices are added.
SwitchToSwitch(n, link) ==
  /\ IsSwitch(link.fromType, link.from) /\ IsSwitch(link.toType, link.to)
  /\ switchNodes' =
       WithPort(WithPort(switchNodes, link.from, <<n, 0>>, SwitchInfo(link.to, PortNumber(link.to))),
                link.to, <<n, 1>>, SwitchInfo(link.from, PortNumber(link.from)))
  /\ UNCHANGED hostNodes

\* Link n connects switch s, at end e, to host h.
SwitchToHost(n, e, s, h) ==
  /\ switchNodes' = WithPort(switchNodes, s, <<n, e>>, HostInfo(h))
  /\ hostNodes' = WithHostLink(h, <<n, 1 - e>>, s)

Installed(n, link) ==
  \/ SwitchToSwitch(n, link)
  \/ /\ IsSwitch(link.fromType, link.from) /\ IsHost(link.toType, link.to)
     /\ SwitchToHost(n, 0, link.from, link.to - topoReader.switchNum)
  \/ /\ IsHost(link.fromType, link.from) /\ IsSwitch(link.toType, link.to)
     /\ SwitchToHost(n, 1, link.to, link.from - topoReader.switchNum)

\* The next link.
InstallLink ==
  LET n == Len(rates) + 1
  IN  /\ phase = "read"
      /\ n \in DOMAIN topoReader.links
      /\ Installed(n, topoReader.links[n])
      /\ rates' = Append(rates, ChannelRate(topoReader.links, n))
      /\ UNCHANGED <<phase, p4src, podNum, file, topoReader, flowTables, m_ports, configured, packet>>

\* main aborts at a link between two hosts; a node whose number is out of
\* range is looked for outside of the arrays.
RefuseLink ==
  LET link  == topoReader.links[Len(rates) + 1]
      found == /\ IsSwitch(link.fromType, link.from) \/ IsHost(link.fromType, link.from)
               /\ IsSwitch(link.toType, link.to) \/ IsHost(link.toType, link.to)
  IN  /\ phase = "read"
      /\ Len(rates) + 1 \in DOMAIN topoReader.links
      /\ \/ ~found /\ phase' = "crashed"
         \/ found /\ link.fromType = "h" /\ link.toType = "h" /\ phase' = "aborted"
      /\ UNCHANGED <<p4src, podNum, file, topoReader, switchNodes, hostNodes, rates, flowTables, m_ports, configured, packet>>

LinksInstalled == Len(rates) + 1 \notin DOMAIN topoReader.links

\* ipv4.Assign numbers the devices of one host after those of another; the
\* address of a host is that of its first device, without which it has none.
AssignAddress(h) ==
  /\ phase = "read"
  /\ LinksInstalled
  /\ hostNodes[h].address = 0
  /\ h - 1 \in DOMAIN hostNodes => hostNodes[h - 1].address # 0
  /\ IF hostNodes[h].hostDevice = <<>>
       THEN phase' = "crashed" /\ UNCHANGED hostNodes
       ELSE /\ hostNodes' = [hostNodes EXCEPT ![h].address =
                 IF h - 1 \in DOMAIN hostNodes
                 THEN hostNodes[h - 1].address + Len(hostNodes[h - 1].hostDevice) ELSE 1]
            /\ UNCHANGED phase
  /\ UNCHANGED <<p4src, podNum, file, topoReader, switchNodes, rates, flowTables, m_ports, configured, packet>>

-----------------------------------------------------------------------------
\* The flow tables.

HostNode(h) ==
  [address |-> hostNodes[h].address, linkSwitchIndex |-> hostNodes[h].linkSwitchIndex,
   portIndex |-> hostNodes[h].linkSwitchPort]

NodeFlagIndex(info) ==
  [flag |-> IF info.type = "s" THEN SwitchFlag ELSE HostFlag, nodeIndex |-> info.index, nodePort |-> info.port]

SwitchNode(s) ==
  [p \in 1 .. Len(switchNodes[s].switchPortInfos) |-> NodeFlagIndex(switchNodes[s].switchPortInfos[p])]

\* BuildFlowtableHelper of type "fattree" for a fat tree, of type "default"
\* otherwise; the files it writes are the tables of the switches.
BuildFlowTables ==
  LET hosts == [h \in DOMAIN hostNodes |-> HostNode(h)]
      portNode == [s \in DOMAIN switchNodes |-> SwitchNode(s)]
      entries == IF podNum > 0 THEN BuildFattreeFlowTable(podNum, hosts, portNode)
                               ELSE DefaultFlowTable(hosts, portNode)
      dividesByZero == \E s \in DOMAIN entries : \E j \in 1 .. Len(entries[s]) : entries[s][j] = DivisionByZero
  IN  /\ phase = "read"
      /\ LinksInstalled
      /\ \A h \in DOMAIN hostNodes : hostNodes[h].address # 0
      /\ IF dividesByZero
         THEN phase' = "crashed" /\ UNCHANGED flowTables
         ELSE phase' = "tables" /\ flowTables' = [s \in DOMAIN entries |-> FileEntries(entries[s])]
      /\ UNCHANGED <<p4src, podNum, file, topoReader, switchNodes, hostNodes, rates, m_ports, configured, packet>>

-----------------------------------------------------------------------------
\* The network functions.

\* The functions with a file of match types and those with a directory of
\* flow tables.
MatchTyped == {"ROUTER", "FIREWALL", "SILKROAD", "SIMPLE_ROUTER", "COUNTER", "METER", "REGISTER"}
WithFlowTableDir == {"SIMPLESWITCH", "PRIORITYQUEUE", "SIMPLECODEL", "CODELPP"}
NetworkFunctions == MatchTyped \cup WithFlowTableDir

\* g_nfStrUintMap[name]: a name that is not in the map is inserted with 0,
\* which is the number of ROUTER.
g_nfStrUintMap(name) == IF name \in NetworkFunctions THEN name ELSE "ROUTER"

\* Mutant: the case of SIMPLE_ROUTER falls through to the next.
SetP4MatchTypeJsonPathFallsThrough(g) ==
  IF g.g_networkFunc = "SIMPLE_ROUTER"
  THEN [g EXCEPT !.g_p4JsonPath = "COUNTER", !.g_p4MatchTypePath = "COUNTER"]
  ELSE IF g.g_networkFunc \in MatchTyped
  THEN [g EXCEPT !.g_p4JsonPath = g.g_networkFunc, !.g_p4MatchTypePath = g.g_networkFunc]
  ELSE [g EXCEPT !.g_p4JsonPath = g.g_networkFunc, !.g_flowTableDir = g.g_networkFunc]

\* A path is the function it is the path for.
SetP4MatchTypeJsonPath(g) ==
  IF g.g_networkFunc \in MatchTyped
  THEN [g EXCEPT !.g_p4JsonPath = g.g_networkFunc, !.g_p4MatchTypePath = g.g_networkFunc]
  ELSE [g EXCEPT !.g_p4JsonPath = g.g_networkFunc, !.g_flowTableDir = g.g_networkFunc]

GlobalVariables == [g_networkFunc |-> "SIMPLESWITCH", g_p4JsonPath |-> "", g_p4MatchTypePath |-> "",
                    g_flowTableDir |-> "", g_flowTablePath |-> <<"", 0>>]

\* The globals when the device of switch s is created, from those at its
\* predecessor's.
Configure(g, s, networkFunction) ==
  LET byTopology == SetP4MatchTypeJsonPath([g EXCEPT !.g_networkFunc = g_nfStrUintMap(networkFunction)])
      byHand == IF p4src = "simple_switch"
                THEN [byTopology EXCEPT !.g_p4JsonPath = "SIMPLESWITCH", !.g_flowTableDir = "SIMPLESWITCH"]
                ELSE byTopology
  IN  [byHand EXCEPT !.g_flowTablePath = <<byHand.g_flowTableDir, s + 1>>]

\* P4Helper::Install on the next switch: the device bridges the devices of the
\* links in their order.
InstallSwitch ==
  LET s == Len(configured)
      before == IF configured = <<>> THEN GlobalVariables ELSE configured[s]
  IN  /\ phase = "tables"
      /\ s \in DOMAIN switchNodes
      /\ configured' = Append(configured, Configure(before, s, topoReader.netFunc[s]))
      /\ m_ports' = [t \in 0 .. s |-> IF t = s THEN switchNodes[s].switchDevices ELSE m_ports[t]]
      /\ phase' = IF DOMAIN switchNodes = 0 .. s THEN "running" ELSE phase
      /\ UNCHANGED <<p4src, podNum, file, topoReader, switchNodes, hostNodes, rates, flowTables, packet>>

-----------------------------------------------------------------------------
\* A packet.

OtherEnd(device) == <<device[1], 1 - device[2]>>

\* The node a device is on.
NodeOf(device) ==
  LET link == topoReader.links[device[1]]
  IN  IF device[2] = 0 THEN [type |-> link.fromType, index |-> link.from]
                       ELSE [type |-> link.toType, index |-> link.to]

Send(h, d) ==
  /\ phase = "running"
  /\ packet.state = "none"
  /\ h # d
  /\ packet' = [state |-> "travelling", to |-> hostNodes[d].address,
                at |-> OtherEnd(hostNodes[h].hostDevice[1]), visited |-> <<>>]
  /\ UNCHANGED <<phase, p4src, podNum, file, topoReader, switchNodes, hostNodes, rates, flowTables, m_ports, configured>>

\* Mutant: ports are counted from 1.
GetPortNumberFromOne(s, device) == CHOOSE n \in 1 .. Len(m_ports[s]) : m_ports[s][n] = device

GetPortNumber(s, device) ==
  IF \E n \in 1 .. Len(m_ports[s]) : m_ports[s][n] = device
  THEN (CHOOSE n \in 1 .. Len(m_ports[s]) : m_ports[s][n] = device) - 1
  ELSE -1

\* The egress port of a dropped packet, which SendNs3Packet does not send.
DropPort == 511

\* The port the table of s gives, the default action drops.
OutPorts(s, to) == IF to \in DOMAIN flowTables[s] THEN flowTables[s][to] ELSE {DropPort}

\* A packet that came in through inPort leaves switch s through outPort.
SendNs3Packet(s, inPort, outPort) ==
  IF outPort = DropPort
  THEN packet' = [packet EXCEPT !.state = "dropped"] /\ UNCHANGED phase
  ELSE IF outPort \notin 0 .. Len(m_ports[s]) - 1
  THEN phase' = "crashed" /\ UNCHANGED packet
  ELSE /\ packet' = [packet EXCEPT !.at = OtherEnd(m_ports[s][outPort + 1]), !.visited =
                          Append(@, [switch |-> s, inPort |-> inPort, outPort |-> outPort])]
       /\ UNCHANGED phase

\* ReceiveFromDevice of the switch the packet is at.
SwitchForwards ==
  /\ phase = "running"
  /\ packet.state = "travelling"
  /\ LET node == NodeOf(packet.at)
     IN  /\ node.type = "s"
         /\ \E outPort \in OutPorts(node.index, packet.to) :
              SendNs3Packet(node.index, GetPortNumber(node.index, packet.at), outPort)
  /\ UNCHANGED <<p4src, podNum, file, topoReader, switchNodes, hostNodes, rates, flowTables, m_ports, configured>>

\* A host takes what is for its address only.
HostReceives ==
  /\ phase = "running"
  /\ packet.state = "travelling"
  /\ LET node == NodeOf(packet.at)
     IN  /\ node.type = "h"
         /\ packet' = [packet EXCEPT !.state =
              IF hostNodes[node.index - topoReader.switchNum].address = packet.to THEN "delivered" ELSE "ignored"]
  /\ UNCHANGED <<phase, p4src, podNum, file, topoReader, switchNodes, hostNodes, rates, flowTables, m_ports, configured>>

-----------------------------------------------------------------------------
Next == \/ \E p \in PodNums : WriteFattree(p)
        \/ \E l \in TreeLevelNums : WriteBinaryTree(l)
        \/ \E f \in GivenFiles : UseGiven(f)
        \/ ReadTopology
        \/ InstallLink
        \/ RefuseLink
        \/ \E h \in DOMAIN hostNodes : AssignAddress(h)
        \/ BuildFlowTables
        \/ InstallSwitch
        \/ \E h, d \in DOMAIN hostNodes : Send(h, d)
        \/ SwitchForwards
        \/ HostReceives

\* The simulator executes every event.
Fairness == WF_vars(SwitchForwards) /\ WF_vars(HostReceives)

Spec == Init /\ [][Next]_vars /\ Fairness

-----------------------------------------------------------------------------
Device == (DOMAIN topoReader.links) \X {0, 1}

\* The shape of the network at every stage of main, and of the packet.
TypeOK ==
  /\ phase \in {"start", "file", "read", "tables", "running", "aborted", "crashed"}
  /\ podNum \in PodNums \cup {0}
  /\ \A s \in DOMAIN switchNodes :
       /\ Range(switchNodes[s].switchDevices) \subseteq Device
       /\ Len(switchNodes[s].switchPortInfos) = Len(switchNodes[s].switchDevices)
  /\ \A h \in DOMAIN hostNodes :
       /\ Range(hostNodes[h].hostDevice) \subseteq Device
       /\ hostNodes[h].hostDevice # <<>> => hostNodes[h].linkSwitchIndex \in DOMAIN switchNodes
       /\ hostNodes[h].address \in Nat
  /\ \/ packet = NoPacket
     \/ /\ packet.state \in {"travelling", "delivered", "ignored", "dropped"}
        /\ packet.at \in Device
        /\ \A k \in DOMAIN packet.visited :
             LET hop == packet.visited[k]
             IN  /\ hop.switch \in DOMAIN m_ports
                 /\ hop.inPort \in 0 .. Len(m_ports[hop.switch]) - 1
                 /\ hop.outPort \in 0 .. Len(m_ports[hop.switch]) - 1

\* What a flow table says is of hosts and ports that exist: its addresses are
\* those of hosts, and it gives each a port at least, all of them of the switch
\* (build-flowtable-helper.cc 26-144 and 344-391).
TablesNameWhatExists ==
  \A s \in DOMAIN flowTables : \A a \in DOMAIN flowTables[s] :
    /\ a \in {hostNodes[h].address : h \in DOMAIN hostNodes}
    /\ flowTables[s][a] # {}
    /\ flowTables[s][a] \subseteq 0 .. Len(switchNodes[s].switchDevices) - 1

\* What a switch port's information says is linked to it is what the channel
\* of its device ends at, port number included, unless it ends at the same
\* switch; what a host with one device believes of its switch is where its
\* device leads (p4-simple-forward.cc 288-318): the flow tables are computed
\* from the one and packets follow the other.
PortInfosMatchDevices ==
  /\ \A s \in DOMAIN switchNodes : \A p \in 1 .. Len(switchNodes[s].switchDevices) :
       LET other == OtherEnd(switchNodes[s].switchDevices[p])
           info  == switchNodes[s].switchPortInfos[p]
           node  == NodeOf(other)
       IN  /\ node.type = info.type
           /\ info.type = "s" =>
                /\ node.index = info.index
                /\ info.index # s =>
                     /\ info.port \in 0 .. Len(switchNodes[info.index].switchDevices) - 1
                     /\ switchNodes[info.index].switchDevices[info.port + 1] = other
           /\ info.type = "h" => node.index - topoReader.switchNum = info.index
  /\ \A h \in DOMAIN hostNodes :
       LET host    == hostNodes[h]
           devices == switchNodes[host.linkSwitchIndex].switchDevices
       IN  Len(host.hostDevice) = 1 =>
             /\ host.linkSwitchPort \in 0 .. Len(devices) - 1
             /\ OtherEnd(host.hostDevice[1]) = devices[host.linkSwitchPort + 1]

\* What the port information of a switch says of a port.
PortInfo(hop) == switchNodes[hop.switch].switchPortInfos[hop.outPort + 1]

\* A packet goes where the port information says: it enters the next switch
\* through the port that is named there, and a host that takes it is the one
\* that is named (p4-net-device.cc 107-156, GetPortNumber): the flow tables are
\* as good as the port information they were computed from.
HopsFollowPortInfos ==
  packet # NoPacket =>
    /\ \A k \in DOMAIN packet.visited :
         LET next == packet.visited[k + 1]
         IN  /\ k + 1 \in DOMAIN packet.visited
             /\ next.switch # packet.visited[k].switch
             => PortInfo(packet.visited[k]) = SwitchInfo(next.switch, next.inPort)
    /\ packet.state = "delivered" =>
         LET last == packet.visited[Len(packet.visited)]
         IN  \E h \in DOMAIN hostNodes :
               hostNodes[h].address = packet.to /\ PortInfo(last) = HostInfo(h)

\* Every file the builders write is read as the network they describe
\* (csma-topology-reader.cc 55-155): the program does not abort, every line of
\* a link has become a channel, every host has one device.  The channel of a line
\* with a rate has that rate, that of a line without one the rate of the line
\* before, which is 100Mbps as long as no line has given one.
LinksAsWritten ==
  /\ phase = "aborted" => file \in GivenFiles
  /\ rates # <<>> /\ LinksInstalled =>
       /\ Len(rates) = Cardinality({n \in 1 .. Len(file.lines) : file.lines[n].kind = "link"})
       /\ \A n \in 1 .. Len(rates) :
            rates[n] = CASE file.lines[n].rate # NotGiven -> file.lines[n].rate
                         [] file.lines[n].rate = NotGiven /\ n > 1 -> rates[n - 1]
                         [] file.lines[n].rate = NotGiven /\ n = 1 -> "100Mbps"
       /\ file \notin GivenFiles => \A h \in DOMAIN hostNodes : Len(hostNodes[h].hostDevice) = 1

\* A network that a builder wrote crashes exactly when the wiring leaves some
\* aggregation switch without a core switch: then rand() % otherPortIndex.size()
\* divides by zero (build-flowtable-helper.cc 117); otherwise the tables are
\* built, and no packet meets a port that does not exist.
CrashesForWantOfUplinks ==
  LET core         == CoreSwitchNum(podNum)
      aggregations == IF podNum > 0 THEN core .. 3 * core - 1 ELSE {}
      hasUplink(s) == \E p \in DOMAIN switchNodes[s].switchPortInfos :
                        switchNodes[s].switchPortInfos[p].index < core
  IN  file \notin GivenFiles /\ phase \in {"crashed", "tables", "running"} =>
        (phase = "crashed" <=> \E s \in aggregations : ~hasUplink(s))

\* A switch whose network function is known runs the program of that function,
\* or of the one p4src names (global.cc 98-172, p4-simple-forward.cc 477-503),
\* whatever the global variables were left at by the switch before it.
FunctionsAsNamed ==
  \A i \in 1 .. Len(configured) :
    LET named == topoReader.netFunc[i - 1]
    IN  named \in NetworkFunctions =>
          /\ configured[i].g_networkFunc = named
          /\ configured[i].g_p4JsonPath = IF p4src = "simple_switch" THEN "SIMPLESWITCH" ELSE named

\* No packet passes a switch twice: whatever port rand() chose for each
\* address, the tables of different switches never send a packet back
\* (build-flowtable-helper.cc 26-144 and 344-391).
NoSwitchTwice ==
  packet # NoPacket =>
    \A j, k \in 1 .. Len(packet.visited) :
      packet.visited[j].switch = packet.visited[k].switch => j = k

\* Every packet arrives at the host it is for, in every tree and fat tree and
\* for every choice of rand() that leaves tables at all.
Arrives == (packet # NoPacket /\ packet.state = "travelling") ~> (packet # NoPacket /\ packet.state = "delivered")
=============================================================================
