------------------------ MODULE BuildFlowtableHelper ------------------------
(***************************************************************************)
(* The flow tables of helper/build-flowtable-helper.cc, from the links of  *)
(* the hosts and from what each port of a switch is linked to:             *)
(*   hosts[h]     [address, linkSwitchIndex, portIndex]                    *)
(*   portNode[s]  the sequence of [flag, nodeIndex, nodePort]              *)
(* The switch's port p, counted from 0, is element p + 1.                  *)
(*                                                                         *)
(* An entry is the address it is for and the set of ports among which      *)
(* rand() picks one: one port where the code does not roll.                *)
(***************************************************************************)
EXTENDS Integers, Sequences, FiniteSets, SequencesExt, Loops

SwitchFlag == 1
HostFlag == 0

FlowTableEntry(dstIp, outPorts) == [dstIp |-> dstIp, outPorts |-> outPorts]

\* Stands for rand() % 0.
DivisionByZero == [dstIp |-> -1, outPorts |-> {}]

-----------------------------------------------------------------------------
\* The "fattree" tables.

\* The hosts of a set, in the order of their numbers.
InOrder(hosts, set) ==
  LET n == Cardinality(DOMAIN hosts)
  IN  Loop(n, [k \in 1 .. n |-> [seq \in Seq(DOMAIN hosts) |-> IF k - 1 \in set THEN Append(seq, k - 1) ELSE seq]],
           <<>>)

\* An entry for each host of a set.
EntriesFor(hosts, set, outPorts) ==
  LET order == InOrder(hosts, set)
  IN  [q \in 1 .. Len(order) |-> FlowTableEntry(hosts[order[q]].address, outPorts)]

\* Mutant: the ports that lead down are among the others.
OtherPortIndexOfAll(ports, down) == {p - 1 : p \in ports}

\* Mutant: ports are counted from 1.
OtherPortIndexFromOne(ports, down) == ports \ down

\* The ports that do not lead down, counted from 0.
OtherPortIndex(ports, down) == {p - 1 : p \in ports \ down}

\* below[p] is the set of the hosts that are reached downwards through port p.
Reach(below) == UNION {below[p] : p \in DOMAIN below}

EntriesDown(hosts, portNum, below) ==
  FlattenSeq([p \in 1 .. portNum |-> IF p \in DOMAIN below THEN EntriesFor(hosts, below[p], {p - 1}) ELSE <<>>])

\* One entry for each other host, through any other port.
EntriesUp(hosts, portNum, below) ==
  LET others == DOMAIN hosts \ Reach(below)
      up     == OtherPortIndex(1 .. portNum, DOMAIN below)
  IN  IF up # {} THEN EntriesFor(hosts, others, up)
      ELSE IF others = {} THEN <<>> ELSE <<DivisionByZero>>

\* What is below the ports of an edge, an aggregation and a core switch.
BelowEdge(nodes) == [p \in {p \in 1 .. Len(nodes) : nodes[p].flag = HostFlag} |-> {nodes[p].nodeIndex}]

BelowAggr(nodes, s, reach) == [p \in {p \in 1 .. Len(nodes) : nodes[p].nodeIndex > s} |-> reach[nodes[p].nodeIndex]]

BelowCore(nodes, reach) == [p \in {p \in 1 .. Len(nodes) : nodes[p].flag = SwitchFlag} |-> reach[nodes[p].nodeIndex]]

BuildFattreeFlowTable(podNum, hosts, portNode) ==
  LET core      == (podNum \div 2) * (podNum \div 2)
      edgeReach == [s \in 3 * core .. 5 * core - 1 |-> Reach(BelowEdge(portNode[s]))]
      aggrReach == [s \in core .. 3 * core - 1 |-> Reach(BelowAggr(portNode[s], s, edgeReach))]
      below(s)  == CASE s < core -> BelowCore(portNode[s], aggrReach)
                     [] s \in core .. 3 * core - 1 -> BelowAggr(portNode[s], s, edgeReach)
                     [] s >= 3 * core -> BelowEdge(portNode[s])
      down(s)   == EntriesDown(hosts, Len(portNode[s]), below(s))
      up(s)     == IF s < core THEN <<>> ELSE EntriesUp(hosts, Len(portNode[s]), below(s))
  IN  [s \in DOMAIN portNode |-> down(s) \o up(s)]

-----------------------------------------------------------------------------
\* The "default" tables: a depth-first search from every host.

Ports(portNode, s) == 0 .. Len(portNode[s]) - 1

\* The entries a switch can be given, and the tables of all switches.
FlowTableEntries(hosts, ports) ==
  [dstIp : {hosts[h].address : h \in DOMAIN hosts}, outPorts : (SUBSET ports) \ {{}}]

Tables(hosts, portNode) ==
  {tables \in [DOMAIN portNode -> Seq(FlowTableEntries(hosts, Nat))] :
     \A s \in DOMAIN portNode : tables[s] \in Seq(FlowTableEntries(hosts, Ports(portNode, s)))}

\* Mutant: the ports of the two directions are exchanged.
AddFlowtableEntry2Swapped(entries, src, inPort, switch, outPort, dst, hosts) ==
  [entries EXCEPT ![switch] =
     @ \o <<FlowTableEntry(hosts[src].address, {outPort}), FlowTableEntry(hosts[dst].address, {inPort})>>]

AddFlowtableEntry2(entries, src, inPort, switch, outPort, dst, hosts) ==
  [entries EXCEPT ![switch] =
     @ \o <<FlowTableEntry(hosts[src].address, {inPort}), FlowTableEntry(hosts[dst].address, {outPort})>>]

\* SaveNode_t: a switch that was passed, and its ports.
SaveNodes(portNode) ==
  {node \in [switchIndex : DOMAIN portNode, inPortIndex : Nat, outPortIndex : Nat] :
     node.inPortIndex \in Ports(portNode, node.switchIndex) /\ node.outPortIndex \in Ports(portNode, node.switchIndex)}

\* The entries of the switches passed, from the last to the first, for the
\* two hosts of a path that has been found.
EntriesAlong(entries, src, pass, dst, hosts, portNode) ==
  LET add(e, node) ==
        AddFlowtableEntry2(e, src, node.inPortIndex, node.switchIndex, node.outPortIndex, dst, hosts)
  IN  Loop(Len(pass), [k \in 1 .. Len(pass) |-> [e \in Tables(hosts, portNode) |-> add(e, pass[Len(pass) - k + 1])]],
           entries)

\* What Dfs works on: the entries, the pairs of hosts linked, their number, and
\* the switches that were left downwards.
States(hosts, portNode) ==
  [entries : Tables(hosts, portNode), hostLink : SUBSET ((DOMAIN hosts) \X (DOMAIN hosts)), linkCounter : Nat,
   recordPassSwitch : SUBSET (DOMAIN portNode)]

\* What a call of Dfs is given.  pass is passSwitch as far as the current
\* switch: what is above it on the stack is popped before use.
DfsCalls(hosts, portNode) ==
  {call \in [state : States(hosts, portNode), host : DOMAIN hosts, switch : DOMAIN portNode, inPort : Nat,
             pass : Seq(SaveNodes(portNode))] : call.inPort \in Ports(portNode, call.switch)}

\* A call of Dfs finds host dst at port t.
HostFound(call, t, dst, st, hosts, portNode) ==
  IF <<call.host, dst>> \in st.hostLink THEN st
  ELSE [entries |-> AddFlowtableEntry2(EntriesAlong(st.entries, call.host, call.pass, dst, hosts, portNode),
                                       call.host, call.inPort, call.switch, t, dst, hosts),
        hostLink |-> st.hostLink \cup {<<call.host, dst>>, <<dst, call.host>>},
        linkCounter |-> st.linkCounter + 2,
        recordPassSwitch |-> st.recordPassSwitch]

\* The call that goes on through port t, to what is linked to it.
FurtherCall(call, t, node, st) ==
  [state |-> [st EXCEPT !.recordPassSwitch = @ \cup {call.switch}], host |-> call.host,
   switch |-> node.nodeIndex, inPort |-> node.nodePort,
   pass |-> Append(call.pass, [switchIndex |-> call.switch, inPortIndex |-> call.inPort, outPortIndex |-> t])]

\* One turn of the loop of Dfs; dfs is what further calls return.
PortVisited(dfs, call, t, st, hosts, portNode) ==
  LET node == portNode[call.switch][t + 1]
  IN  CASE t = call.inPort -> st
        [] t # call.inPort /\ node.flag = HostFlag -> HostFound(call, t, node.nodeIndex, st, hosts, portNode)
        [] t # call.inPort /\ node.flag # HostFlag ->
             IF node.nodeIndex \in st.recordPassSwitch THEN st ELSE dfs[FurtherCall(call, t, node, st)]

PortsVisited(dfs, call, hosts, portNode) ==
  LET n == Len(portNode[call.switch])
  IN  Loop(n, [k \in 1 .. n |-> [st \in States(hosts, portNode) |->
                 PortVisited(dfs, call, k - 1, st, hosts, portNode)]],
           call.state)

\* What calls of Dfs return.
DfsResults(hosts, portNode) ==
  LET Dfs[call \in DfsCalls(hosts, portNode)] == PortsVisited(Dfs, call, hosts, portNode)
  IN  Dfs

DfsFromHostIndex(h, st, hosts, portNode) ==
  DfsResults(hosts, portNode)[[state |-> [st EXCEPT !.recordPassSwitch = {}], host |-> h,
    switch |-> hosts[h].linkSwitchIndex, inPort |-> hosts[h].portIndex, pass |-> <<>>]]

DefaultFlowTable(hosts, portNode) ==
  LET n       == Cardinality(DOMAIN hosts)
      linkSum == n * (n - 1)
      none    == [entries |-> [s \in DOMAIN portNode |-> <<>>], hostLink |-> {}, linkCounter |-> 0,
                  recordPassSwitch |-> {}]
      from(h, st) == IF st.linkCounter < linkSum THEN DfsFromHostIndex(h, st, hosts, portNode) ELSE st
  IN  Loop(n, [k \in 1 .. n |-> [st \in States(hosts, portNode) |-> from(k - 1, st)]], none).entries

-----------------------------------------------------------------------------
\* Write: of the entries of an address the first is written to the file.
FileEntries(entries) ==
  [a \in {entries[j].dstIp : j \in 1 .. Len(entries)} |->
     entries[CHOOSE j \in 1 .. Len(entries) :
               entries[j].dstIp = a /\ \A k \in 1 .. j - 1 : entries[k].dstIp # a].outPorts]
=============================================================================
