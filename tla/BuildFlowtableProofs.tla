------------------------ MODULE BuildFlowtableProofs ------------------------
(***************************************************************************)
(* The flow tables that are built for a network have entries for addresses *)
(* of hosts and ports of the switch only, whatever the network looks like, *)
(* and the search for the paths of the "default" tables ends.              *)
(***************************************************************************)
EXTENDS BuildFlowtableHelper, LoopTheorems, SequenceTheorems, FiniteSetTheorems

\* A network: hosts are numbered from 0, switches can be counted, and what is
\* noted of hosts and ports exists.
HostsAre(hosts, portNode) ==
  /\ \E n \in Nat : DOMAIN hosts = 0 .. n - 1
  /\ \A h \in DOMAIN hosts :
       /\ hosts[h].linkSwitchIndex \in DOMAIN portNode
       /\ hosts[h].portIndex \in Ports(portNode, hosts[h].linkSwitchIndex)

NodeIs(node, hosts, portNode) ==
  /\ node.flag = HostFlag => node.nodeIndex \in DOMAIN hosts
  /\ node.flag # HostFlag =>
       /\ node.nodeIndex \in DOMAIN portNode
       /\ node.nodePort \in Ports(portNode, node.nodeIndex)

IsNetwork(hosts, portNode) ==
  /\ IsFiniteSet(DOMAIN portNode)
  /\ HostsAre(hosts, portNode)
  /\ \A s \in DOMAIN portNode :
       /\ Len(portNode[s]) \in Nat
       /\ \A p \in 1 .. Len(portNode[s]) : NodeIs(portNode[s][p], hosts, portNode)

-----------------------------------------------------------------------------
(* Sequences.                                                              *)

LEMMA FunctionIsSeq ==
  ASSUME NEW S, NEW n \in Nat, NEW f \in [1 .. n -> S]
  PROVE  f \in Seq(S) /\ Len(f) = n
  <1>1. f \in Seq(S)
    BY SeqDef
  <1>2. DOMAIN f = 1 .. Len(f) /\ Len(f) \in Nat
    BY <1>1, LenProperties
  <1>3. Len(f) = n
    BY <1>2
  <1> QED
    BY <1>1, <1>3

LEMMA PairIsSeq ==
  ASSUME NEW S, NEW a \in S, NEW b \in S
  PROVE  <<a, b>> \in Seq(S)
  OBVIOUS

-----------------------------------------------------------------------------
(* Entries.                                                                *)

LEMMA PortsAreNat ==
  ASSUME NEW hosts, NEW portNode, IsNetwork(hosts, portNode), NEW s \in DOMAIN portNode
  PROVE  Ports(portNode, s) \subseteq Nat
  BY DEF Ports, IsNetwork

LEMMA EntryIs ==
  ASSUME NEW hosts, NEW h \in DOMAIN hosts, NEW ports, NEW p \in ports
  PROVE  FlowTableEntry(hosts[h].address, {p}) \in FlowTableEntries(hosts, ports)
  <1>1. {p} \in (SUBSET ports) \ {{}}
    OBVIOUS
  <1> QED
    BY <1>1 DEF FlowTableEntry, FlowTableEntries

LEMMA EntryAdded ==
  ASSUME NEW hosts, NEW portNode, IsNetwork(hosts, portNode), NEW entries \in Tables(hosts, portNode),
         NEW src \in DOMAIN hosts, NEW dst \in DOMAIN hosts, NEW switch \in DOMAIN portNode,
         NEW inPort \in Ports(portNode, switch), NEW outPort \in Ports(portNode, switch)
  PROVE  AddFlowtableEntry2(entries, src, inPort, switch, outPort, dst, hosts) \in Tables(hosts, portNode)
  <1> DEFINE F == FlowTableEntries(hosts, Ports(portNode, switch))
             A == FlowTableEntries(hosts, Nat)
             two == <<FlowTableEntry(hosts[src].address, {inPort}), FlowTableEntry(hosts[dst].address, {outPort})>>
             longer == entries[switch] \o two
             later == [entries EXCEPT ![switch] = longer]
  <1>1. two \in Seq(F)
    BY EntryIs, PairIsSeq
  <1>2. F \subseteq A
    BY PortsAreNat DEF FlowTableEntries
  <1>3. /\ entries \in [DOMAIN portNode -> Seq(A)]
        /\ \A s \in DOMAIN portNode : entries[s] \in Seq(FlowTableEntries(hosts, Ports(portNode, s)))
    BY DEF Tables
  <1>4. longer \in Seq(F)
    <2>1. entries[switch] \in Seq(F)
      BY <1>3
    <2> HIDE DEF F, two
    <2> QED
      BY <1>1, <2>1, ConcatProperties
  <1>5. longer \in Seq(A)
    <2> HIDE DEF F, A, longer
    <2> QED
      BY <1>2, <1>4, SeqMonotonic
  <1>6. later \in [DOMAIN portNode -> Seq(A)]
    <2> HIDE DEF A, longer
    <2> QED
      BY <1>3, <1>5
  <1>7. ASSUME NEW s \in DOMAIN portNode
        PROVE  later[s] \in Seq(FlowTableEntries(hosts, Ports(portNode, s)))
    <2>1. CASE s = switch
      <3>1. later[s] = longer
        BY <1>3, <2>1
      <3> QED
        BY <1>4, <2>1, <3>1
    <2>2. CASE s # switch
      <3>1. later[s] = entries[s]
        BY <1>3, <2>2
      <3> QED
        BY <1>3, <3>1
    <2> QED
      BY <2>1, <2>2
  <1>8. later \in Tables(hosts, portNode)
    <2> HIDE DEF later
    <2> QED
      BY <1>6, <1>7 DEF Tables
  <1> QED
    BY <1>8 DEF AddFlowtableEntry2

LEMMA PathAdded ==
  ASSUME NEW hosts, NEW portNode, IsNetwork(hosts, portNode), NEW entries \in Tables(hosts, portNode),
         NEW src \in DOMAIN hosts, NEW dst \in DOMAIN hosts, NEW pass \in Seq(SaveNodes(portNode))
  PROVE  EntriesAlong(entries, src, pass, dst, hosts, portNode) \in Tables(hosts, portNode)
  <1> DEFINE T == Tables(hosts, portNode)
             n == Len(pass)
             add(e, node) == AddFlowtableEntry2(e, src, node.inPortIndex, node.switchIndex, node.outPortIndex, dst, hosts)
             step == [k \in 1 .. n |-> [e \in T |-> add(e, pass[n - k + 1])]]
  <1>1. n \in Nat
    BY LenProperties
  <1>2. ASSUME NEW k \in 1 .. n, NEW e \in T
        PROVE  step[k][e] \in T
    <2>1. pass[n - k + 1] \in SaveNodes(portNode)
      <3>1. n - k + 1 \in 1 .. n
        BY <1>1
      <3> QED
        BY <3>1, ElementOfSeq
    <2> DEFINE node == pass[n - k + 1]
    <2>2. /\ node.switchIndex \in DOMAIN portNode
          /\ node.inPortIndex \in Ports(portNode, node.switchIndex)
          /\ node.outPortIndex \in Ports(portNode, node.switchIndex)
      BY <2>1 DEF SaveNodes
    <2>3. add(e, node) \in T
      <3> HIDE DEF node
      <3> QED
        BY <2>2, EntryAdded
    <2> QED
      BY <2>3
  <1>3. Loop(n, step, entries) \in T
    <2> HIDE DEF step, n, T
    <2>1. entries \in T
      BY DEF T
    <2> QED
      BY <1>1, <1>2, <2>1, LoopStaysIn
  <1> QED
    BY <1>3 DEF EntriesAlong

-----------------------------------------------------------------------------
(* One turn of the search.                                                 *)

\* The states a call can reach: switches that were left stay left.
Later(call, hosts, portNode) ==
  {st \in States(hosts, portNode) : call.state.recordPassSwitch \subseteq st.recordPassSwitch}

LEMMA HostFoundLater ==
  ASSUME NEW hosts, NEW portNode, IsNetwork(hosts, portNode), NEW call \in DfsCalls(hosts, portNode),
         NEW t \in Ports(portNode, call.switch), NEW dst \in DOMAIN hosts, NEW st \in Later(call, hosts, portNode)
  PROVE  HostFound(call, t, dst, st, hosts, portNode) \in Later(call, hosts, portNode)
  <1> DEFINE host == call.host
             pairs == {<<host, dst>>, <<dst, host>>}
             along == EntriesAlong(st.entries, host, call.pass, dst, hosts, portNode)
             entries == AddFlowtableEntry2(along, host, call.inPort, call.switch, t, dst, hosts)
             later == [entries |-> entries, hostLink |-> st.hostLink \cup pairs, linkCounter |-> st.linkCounter + 2,
                       recordPassSwitch |-> st.recordPassSwitch]
  <1>1. /\ host \in DOMAIN hosts /\ call.switch \in DOMAIN portNode /\ call.pass \in Seq(SaveNodes(portNode))
        /\ call.inPort \in Ports(portNode, call.switch)
    BY DEF DfsCalls
  <1>2. /\ st \in [entries : Tables(hosts, portNode), hostLink : SUBSET ((DOMAIN hosts) \X (DOMAIN hosts)),
                   linkCounter : Nat, recordPassSwitch : SUBSET (DOMAIN portNode)]
        /\ call.state.recordPassSwitch \subseteq st.recordPassSwitch
    BY DEF Later, States
  <1>3. along \in Tables(hosts, portNode)
    <2>1. st.entries \in Tables(hosts, portNode)
      BY <1>2
    <2> QED
      BY <1>1, <2>1, PathAdded
  <1>4. entries \in Tables(hosts, portNode)
    <2> HIDE DEF along, host
    <2> QED
      BY <1>1, <1>3, EntryAdded
  <1>5. pairs \subseteq (DOMAIN hosts) \X (DOMAIN hosts)
    BY <1>1
  <1>6. later \in Later(call, hosts, portNode)
    <2> HIDE DEF entries, pairs
    <2> QED
      BY <1>2, <1>4, <1>5 DEF Later, States
  <1>7. HostFound(call, t, dst, st, hosts, portNode) = IF <<host, dst>> \in st.hostLink THEN st ELSE later
    BY DEF HostFound
  <1> QED
    BY <1>6, <1>7

\* What a call may still pass: each switch that was not left counts twice, the
\* switch of the call itself once.
StillToPass(call, portNode) ==
  {x \in (DOMAIN portNode) \X {0, 1} :
     x[1] \notin call.state.recordPassSwitch /\ (x[1] = call.switch => x[2] = 0)}

Measure(call, portNode) == Cardinality(StillToPass(call, portNode))

LEMMA MeasureIs ==
  ASSUME NEW hosts, NEW portNode, IsNetwork(hosts, portNode), NEW call
  PROVE  /\ IsFiniteSet(StillToPass(call, portNode))
         /\ Measure(call, portNode) \in Nat
         /\ Measure(call, portNode) \in 0 .. Cardinality((DOMAIN portNode) \X {0, 1})
         /\ Cardinality((DOMAIN portNode) \X {0, 1}) \in Nat
  <1> DEFINE All == (DOMAIN portNode) \X {0, 1}
  <1>1. IsFiniteSet(All)
    <2>1. IsFiniteSet({0, 1})
      <3>1. IsFiniteSet({0} \cup {1})
        BY FS_Singleton, FS_AddElement
      <3>2. {0, 1} = {0} \cup {1}
        OBVIOUS
      <3> QED
        BY <3>1, <3>2, Zenon
    <2>2. IsFiniteSet(DOMAIN portNode)
      BY DEF IsNetwork
    <2> QED
      BY <2>1, <2>2, FS_Product
  <1>2. StillToPass(call, portNode) \in SUBSET All
    BY DEF StillToPass
  <1> HIDE DEF All
  <1>3. /\ IsFiniteSet(StillToPass(call, portNode))
        /\ Cardinality(StillToPass(call, portNode)) <= Cardinality(All)
    BY <1>1, <1>2, FS_Subset
  <1>4. Cardinality(StillToPass(call, portNode)) \in Nat /\ Cardinality(All) \in Nat
    BY <1>1, <1>3, FS_CardinalityType
  <1> QED
    BY <1>3, <1>4 DEF All, Measure

\* Going on to a switch that was not left leaves less to pass.
LEMMA FurtherCallIs ==
  ASSUME NEW hosts, NEW portNode, IsNetwork(hosts, portNode), NEW call \in DfsCalls(hosts, portNode),
         NEW t \in Ports(portNode, call.switch), NEW st \in Later(call, hosts, portNode),
         NEW node, NodeIs(node, hosts, portNode), node.flag # HostFlag,
         node.nodeIndex \notin st.recordPassSwitch
  PROVE  /\ FurtherCall(call, t, node, st) \in DfsCalls(hosts, portNode)
         /\ Measure(FurtherCall(call, t, node, st), portNode) < Measure(call, portNode)
         /\ Later(FurtherCall(call, t, node, st), hosts, portNode) \subseteq Later(call, hosts, portNode)
  <1> DEFINE next == FurtherCall(call, t, node, st)
             state == [st EXCEPT !.recordPassSwitch = @ \cup {call.switch}]
             here == [switchIndex |-> call.switch, inPortIndex |-> call.inPort, outPortIndex |-> t]
             pass == Append(call.pass, here)
  <1>1. /\ call.host \in DOMAIN hosts /\ call.switch \in DOMAIN portNode
        /\ call.pass \in Seq(SaveNodes(portNode)) /\ call.inPort \in Ports(portNode, call.switch)
        /\ node.nodeIndex \in DOMAIN portNode /\ node.nodePort \in Ports(portNode, node.nodeIndex)
    BY DEF DfsCalls, NodeIs
  <1>2. /\ st \in [entries : Tables(hosts, portNode), hostLink : SUBSET ((DOMAIN hosts) \X (DOMAIN hosts)),
                   linkCounter : Nat, recordPassSwitch : SUBSET (DOMAIN portNode)]
        /\ call.state.recordPassSwitch \subseteq st.recordPassSwitch
    BY DEF Later, States
  <1>3. state \in States(hosts, portNode) /\ state.recordPassSwitch = st.recordPassSwitch \cup {call.switch}
    BY <1>1, <1>2 DEF States
  <1>4. pass \in Seq(SaveNodes(portNode))
    <2>1. call.inPort \in Nat /\ t \in Nat /\ node.nodePort \in Nat
      BY <1>1, PortsAreNat
    <2>2. here \in SaveNodes(portNode)
      BY <1>1, <2>1 DEF SaveNodes
    <2> HIDE DEF here
    <2> QED
      BY <1>1, <2>2
  <1>5. next = [state |-> state, host |-> call.host, switch |-> node.nodeIndex, inPort |-> node.nodePort, pass |-> pass]
    BY DEF FurtherCall
  <1>6. next \in DfsCalls(hosts, portNode)
    <2>1. node.nodePort \in Nat
      BY <1>1, PortsAreNat
    <2> HIDE DEF next, state, pass
    <2> QED
      BY <1>1, <1>3, <1>4, <1>5, <2>1 DEF DfsCalls
  <1>7. next.state.recordPassSwitch = st.recordPassSwitch \cup {call.switch} /\ next.switch = node.nodeIndex
    <2> HIDE DEF next, state, pass
    <2> QED
      BY <1>3, <1>5
  <1> HIDE DEF next
  <1>8. StillToPass(next, portNode) \subseteq StillToPass(call, portNode)
    BY <1>2, <1>7 DEF StillToPass
  <1>9. StillToPass(next, portNode) # StillToPass(call, portNode)
    <2>1. CASE node.nodeIndex = call.switch
      <3>1. <<call.switch, 0>> \in StillToPass(call, portNode)
        BY <1>1, <1>2, <2>1 DEF StillToPass
      <3>2. <<call.switch, 0>> \notin StillToPass(next, portNode)
        BY <1>7 DEF StillToPass
      <3> QED
        BY <3>1, <3>2
    <2>2. CASE node.nodeIndex # call.switch
      <3>1. <<node.nodeIndex, 1>> \in StillToPass(call, portNode)
        BY <1>1, <1>2, <2>2 DEF StillToPass
      <3>2. <<node.nodeIndex, 1>> \notin StillToPass(next, portNode)
        BY <1>7 DEF StillToPass
      <3> QED
        BY <3>1, <3>2
    <2> QED
      BY <2>1, <2>2
  <1>10. Measure(next, portNode) < Measure(call, portNode)
    <2>1. IsFiniteSet(StillToPass(call, portNode))
      BY MeasureIs
    <2>2. /\ Cardinality(StillToPass(next, portNode)) <= Cardinality(StillToPass(call, portNode))
          /\ Cardinality(StillToPass(next, portNode)) # Cardinality(StillToPass(call, portNode))
      BY <1>8, <1>9, <2>1, FS_Subset
    <2>3. Measure(next, portNode) \in Nat /\ Measure(call, portNode) \in Nat
      BY MeasureIs
    <2> QED
      BY <2>2, <2>3 DEF Measure
  <1>11. Later(next, hosts, portNode) \subseteq Later(call, hosts, portNode)
    BY <1>2, <1>7 DEF Later
  <1> QED
    BY <1>6, <1>10, <1>11 DEF next

\* dfs returns, for the calls that have less to pass than call, what they can
\* reach, and other returns the same.
AgreeBelow(dfs, other, call, hosts, portNode) ==
  \A further \in DfsCalls(hosts, portNode) :
    Measure(further, portNode) < Measure(call, portNode) =>
      dfs[further] \in Later(further, hosts, portNode) /\ other[further] = dfs[further]

LEMMA PortVisitedIs ==
  ASSUME NEW hosts, NEW portNode, IsNetwork(hosts, portNode), NEW call \in DfsCalls(hosts, portNode),
         NEW dfs, NEW other, AgreeBelow(dfs, other, call, hosts, portNode),
         NEW t \in Ports(portNode, call.switch), NEW st \in Later(call, hosts, portNode)
  PROVE  /\ PortVisited(dfs, call, t, st, hosts, portNode) \in Later(call, hosts, portNode)
         /\ PortVisited(other, call, t, st, hosts, portNode) = PortVisited(dfs, call, t, st, hosts, portNode)
  <1> DEFINE node == portNode[call.switch][t + 1]
             next == FurtherCall(call, t, node, st)
             L == Later(call, hosts, portNode)
             found == HostFound(call, t, node.nodeIndex, st, hosts, portNode)
  <1>1. NodeIs(node, hosts, portNode)
    <2>1. call.switch \in DOMAIN portNode
      BY DEF DfsCalls
    <2>2. t + 1 \in 1 .. Len(portNode[call.switch])
      BY <2>1 DEF Ports, IsNetwork
    <2> QED
      BY <2>1, <2>2 DEF IsNetwork
  <1>2. CASE t = call.inPort
    BY <1>2 DEF PortVisited
  <1>3. CASE t # call.inPort /\ node.flag = HostFlag
    <2>1. found \in L
      BY <1>1, <1>3, HostFoundLater DEF NodeIs
    <2>2. /\ PortVisited(dfs, call, t, st, hosts, portNode) = found
          /\ PortVisited(other, call, t, st, hosts, portNode) = found
      BY <1>3 DEF PortVisited
    <2> QED
      BY <2>1, <2>2
  <1>4. CASE t # call.inPort /\ node.flag # HostFlag
    <2>1. /\ PortVisited(dfs, call, t, st, hosts, portNode) =
               IF node.nodeIndex \in st.recordPassSwitch THEN st ELSE dfs[next]
          /\ PortVisited(other, call, t, st, hosts, portNode) =
               IF node.nodeIndex \in st.recordPassSwitch THEN st ELSE other[next]
      BY <1>4 DEF PortVisited
    <2>2. ASSUME node.nodeIndex \notin st.recordPassSwitch
          PROVE  dfs[next] \in L /\ other[next] = dfs[next]
      <3> HIDE DEF node
      <3>1. /\ next \in DfsCalls(hosts, portNode)
            /\ Measure(next, portNode) < Measure(call, portNode)
            /\ Later(next, hosts, portNode) \subseteq L
        BY <1>1, <1>4, <2>2, FurtherCallIs
      <3> HIDE DEF next, L
      <3> QED
        BY <3>1 DEF AgreeBelow
    <2> QED
      BY <2>1, <2>2
  <1> QED
    BY <1>2, <1>3, <1>4

LEMMA PortsVisitedIs ==
  ASSUME NEW hosts, NEW portNode, IsNetwork(hosts, portNode), NEW call \in DfsCalls(hosts, portNode),
         NEW dfs, NEW other, AgreeBelow(dfs, other, call, hosts, portNode)
  PROVE  /\ PortsVisited(dfs, call, hosts, portNode) \in Later(call, hosts, portNode)
         /\ PortsVisited(other, call, hosts, portNode) = PortsVisited(dfs, call, hosts, portNode)
  <1> DEFINE n == Len(portNode[call.switch])
             S == States(hosts, portNode)
             V == Later(call, hosts, portNode)
             step == [k \in 1 .. n |-> [st \in S |-> PortVisited(dfs, call, k - 1, st, hosts, portNode)]]
             others == [k \in 1 .. n |-> [st \in S |-> PortVisited(other, call, k - 1, st, hosts, portNode)]]
  <1>1. call.switch \in DOMAIN portNode /\ call.state \in S
    BY DEF DfsCalls
  <1>2. n \in Nat
    BY <1>1 DEF IsNetwork
  <1>3. V \subseteq S /\ call.state \in V
    BY <1>1 DEF Later
  <1>4. ASSUME NEW k \in 1 .. n, NEW st \in V
        PROVE  step[k][st] \in V /\ others[k][st] = step[k][st]
    <2>1. k - 1 \in Ports(portNode, call.switch)
      BY <1>2 DEF Ports
    <2>2. /\ PortVisited(dfs, call, k - 1, st, hosts, portNode) \in V
          /\ PortVisited(other, call, k - 1, st, hosts, portNode) = PortVisited(dfs, call, k - 1, st, hosts, portNode)
      BY <2>1, PortVisitedIs
    <2>3. st \in S
      BY <1>3
    <2> HIDE DEF V, S, n
    <2> QED
      BY <2>2, <2>3
  <1>5. Loop(n, step, call.state) \in V /\ Loop(n, others, call.state) = Loop(n, step, call.state)
    <2> HIDE DEF step, others, n, V, S
    <2> QED
      BY <1>2, <1>3, <1>4, LoopStaysIn, LoopSame
  <1> QED
    BY <1>5 DEF PortsVisited

-----------------------------------------------------------------------------
(* The search ends: what its calls return is well defined.                 *)

AreResults(dfs, hosts, portNode) ==
  dfs = [call \in DfsCalls(hosts, portNode) |-> PortsVisited(dfs, call, hosts, portNode)]

\* dfs is what the calls return that have less than k to pass.
ResultsTo(k, dfs, hosts, portNode) ==
  \A call \in DfsCalls(hosts, portNode) :
    /\ dfs[call] \in Later(call, hosts, portNode)
    /\ Measure(call, portNode) < k => dfs[call] = PortsVisited(dfs, call, hosts, portNode)

LEMMA ResultsToNext ==
  ASSUME NEW hosts, NEW portNode, IsNetwork(hosts, portNode), NEW k \in Nat, NEW dfs,
         ResultsTo(k, dfs, hosts, portNode)
  PROVE  \E next : ResultsTo(k + 1, next, hosts, portNode)
  <1> DEFINE C == DfsCalls(hosts, portNode)
             next == [call \in C |-> IF Measure(call, portNode) < k THEN dfs[call]
                                     ELSE PortsVisited(dfs, call, hosts, portNode)]
  <1>1. ASSUME NEW call \in C
        PROVE  AgreeBelow(dfs, dfs, call, hosts, portNode)
    BY DEF ResultsTo, AgreeBelow
  <1>2. ASSUME NEW call \in C, Measure(call, portNode) <= k
        PROVE  AgreeBelow(dfs, next, call, hosts, portNode)
    <2>1. ASSUME NEW further \in C, Measure(further, portNode) < Measure(call, portNode)
          PROVE  dfs[further] \in Later(further, hosts, portNode) /\ next[further] = dfs[further]
      <3>1. Measure(further, portNode) \in Nat /\ Measure(call, portNode) \in Nat
        BY MeasureIs
      <3>2. Measure(further, portNode) < k
        BY <1>2, <2>1, <3>1
      <3>3. next[further] = dfs[further]
        BY <3>2
      <3> QED
        BY <3>3 DEF ResultsTo
    <2> QED
      BY <2>1 DEF AgreeBelow
  <1>3. ASSUME NEW call \in C
        PROVE  /\ next[call] \in Later(call, hosts, portNode)
               /\ Measure(call, portNode) < k + 1 => next[call] = PortsVisited(next, call, hosts, portNode)
    <2>1. PortsVisited(dfs, call, hosts, portNode) \in Later(call, hosts, portNode)
      BY <1>1, PortsVisitedIs
    <2>2. next[call] = IF Measure(call, portNode) < k THEN dfs[call] ELSE PortsVisited(dfs, call, hosts, portNode)
      OBVIOUS
    <2> HIDE DEF next
    <2>3. next[call] \in Later(call, hosts, portNode)
      BY <2>1, <2>2 DEF ResultsTo
    <2>4. ASSUME Measure(call, portNode) < k + 1
          PROVE  next[call] = PortsVisited(next, call, hosts, portNode)
      <3>1. Measure(call, portNode) \in Nat
        BY MeasureIs
      <3>2. AgreeBelow(dfs, next, call, hosts, portNode)
        BY <1>2, <2>4, <3>1
      <3>3. PortsVisited(next, call, hosts, portNode) = PortsVisited(dfs, call, hosts, portNode)
        BY <3>2, PortsVisitedIs
      <3>4. next[call] = PortsVisited(dfs, call, hosts, portNode)
        BY <2>2 DEF ResultsTo
      <3> QED
        BY <3>3, <3>4
    <2> QED
      BY <2>3, <2>4
  <1>4. ResultsTo(k + 1, next, hosts, portNode)
    <2> HIDE DEF next
    <2> QED
      BY <1>3 DEF ResultsTo
  <1> QED
    BY <1>4

LEMMA ResultsExist ==
  ASSUME NEW hosts, NEW portNode, IsNetwork(hosts, portNode)
  PROVE  \E dfs : AreResults(dfs, hosts, portNode)
  <1> DEFINE C == DfsCalls(hosts, portNode)
             N == Cardinality((DOMAIN portNode) \X {0, 1}) + 1
             S == {k \in 0 .. N : \E dfs : ResultsTo(k, dfs, hosts, portNode)}
  <1>1. N \in Nat /\ \A call \in C : Measure(call, portNode) < N
    BY MeasureIs
  <1> HIDE DEF N
  <1>2. 0 \in S
    <2> DEFINE none == [call \in C |-> call.state]
    <2>1. ASSUME NEW call \in C
          PROVE  none[call] \in Later(call, hosts, portNode) /\ ~(Measure(call, portNode) < 0)
      <3>1. Measure(call, portNode) \in Nat
        BY MeasureIs
      <3>2. call.state \in Later(call, hosts, portNode)
        BY DEF DfsCalls, Later
      <3> QED
        BY <3>1, <3>2
    <2>2. ResultsTo(0, none, hosts, portNode)
      <3> HIDE DEF none
      <3> QED
        BY <2>1 DEF ResultsTo
    <2> QED
      BY <1>1, <2>2
  <1>3. ASSUME NEW k \in 0 .. N - 1, k \in S
        PROVE  k + 1 \in S
    <2>1. PICK dfs : ResultsTo(k, dfs, hosts, portNode)
      BY <1>3
    <2>2. \E next : ResultsTo(k + 1, next, hosts, portNode)
      BY <2>1, ResultsToNext
    <2> QED
      BY <1>1, <2>2
  <1>4. 0 .. N \subseteq S
    <2> HIDE DEF S
    <2> QED
      BY <1>1, <1>2, <1>3, InductionTo
  <1>5. PICK dfs : ResultsTo(N, dfs, hosts, portNode)
    BY <1>1, <1>4
  <1> DEFINE results == [call \in C |-> dfs[call]]
  <1>6. ASSUME NEW call \in C
        PROVE  results[call] = PortsVisited(results, call, hosts, portNode)
    <2>1. AgreeBelow(dfs, results, call, hosts, portNode)
      BY <1>5 DEF ResultsTo, AgreeBelow
    <2>2. PortsVisited(results, call, hosts, portNode) = PortsVisited(dfs, call, hosts, portNode)
      BY <2>1, PortsVisitedIs
    <2>3. dfs[call] = PortsVisited(dfs, call, hosts, portNode)
      BY <1>1, <1>5 DEF ResultsTo
    <2>4. results[call] = dfs[call]
      OBVIOUS
    <2> QED
      BY <2>2, <2>3, <2>4
  <1>7. AreResults(results, hosts, portNode)
    <2>1. results = [call \in C |-> results[call]]
      OBVIOUS
    <2> HIDE DEF results
    <2> QED
      BY <1>6, <2>1 DEF AreResults
  <1> QED
    BY <1>7

\* Every call of the search returns, with entries that are sound.
THEOREM SearchEnds ==
  ASSUME NEW hosts, NEW portNode, IsNetwork(hosts, portNode), NEW call \in DfsCalls(hosts, portNode)
  PROVE  /\ DfsResults(hosts, portNode)[call] = PortsVisited(DfsResults(hosts, portNode), call, hosts, portNode)
         /\ DfsResults(hosts, portNode)[call] \in Later(call, hosts, portNode)
  <1> DEFINE C == DfsCalls(hosts, portNode)
             dfs == DfsResults(hosts, portNode)
             N == Cardinality((DOMAIN portNode) \X {0, 1}) + 1
             Reached(k) == \A c \in C : Measure(c, portNode) < k => dfs[c] \in Later(c, hosts, portNode)
             S == {k \in 0 .. N : Reached(k)}
  <1>1. AreResults(dfs, hosts, portNode)
    <2>1. dfs = CHOOSE f : AreResults(f, hosts, portNode)
      BY DEF DfsResults, AreResults
    <2> HIDE DEF dfs
    <2> QED
      BY <2>1, ResultsExist
  <1>2. \A c \in C : dfs[c] = PortsVisited(dfs, c, hosts, portNode)
    <2> HIDE DEF dfs
    <2>1. dfs = [c \in C |-> PortsVisited(dfs, c, hosts, portNode)]
      BY <1>1 DEF AreResults
    <2> HIDE DEF C
    <2> QED
      BY <2>1
  <1>3. N \in Nat /\ \A c \in C : Measure(c, portNode) < N /\ Measure(c, portNode) \in Nat
    BY MeasureIs
  <1> HIDE DEF N, dfs
  <1>4. 0 \in S
    BY <1>3
  <1>5. ASSUME NEW k \in 0 .. N - 1, k \in S
        PROVE  k + 1 \in S
    <2>1. ASSUME NEW c \in C, Measure(c, portNode) < k + 1
          PROVE  dfs[c] \in Later(c, hosts, portNode)
      <3>1. AgreeBelow(dfs, dfs, c, hosts, portNode)
        <4>1. ASSUME NEW further \in C, Measure(further, portNode) < Measure(c, portNode)
              PROVE  dfs[further] \in Later(further, hosts, portNode)
          <5>1. Measure(further, portNode) < k
            BY <1>3, <2>1, <4>1
          <5> QED
            BY <1>5, <5>1
        <4> QED
          BY <4>1 DEF AgreeBelow
      <3>2. PortsVisited(dfs, c, hosts, portNode) \in Later(c, hosts, portNode)
        BY <3>1, PortsVisitedIs
      <3> QED
        BY <1>2, <3>2
    <2> QED
      BY <1>3, <2>1
  <1>6. 0 .. N \subseteq S
    <2> HIDE DEF S
    <2> QED
      BY <1>3, <1>4, <1>5, InductionTo
  <1>7. Reached(N)
    BY <1>3, <1>6
  <1>8. dfs[call] \in Later(call, hosts, portNode)
    BY <1>3, <1>7
  <1> QED
    BY <1>2, <1>8 DEF dfs

-----------------------------------------------------------------------------
(* The "default" tables.                                                   *)

LEMMA HostNumIs ==
  ASSUME NEW hosts, NEW portNode, IsNetwork(hosts, portNode)
  PROVE  Cardinality(DOMAIN hosts) \in Nat /\ DOMAIN hosts = 0 .. Cardinality(DOMAIN hosts) - 1
  <1>1. PICK n \in Nat : DOMAIN hosts = 0 .. n - 1
    BY DEF IsNetwork, HostsAre
  <1>2. Cardinality(0 .. n - 1) = IF 0 > n - 1 THEN 0 ELSE n - 1 - 0 + 1
    BY <1>1, FS_Interval
  <1>3. Cardinality(DOMAIN hosts) = n
    BY <1>1, <1>2
  <1> QED
    BY <1>1, <1>3

LEMMA FromHostIs ==
  ASSUME NEW hosts, NEW portNode, IsNetwork(hosts, portNode), NEW h \in DOMAIN hosts,
         NEW st \in States(hosts, portNode)
  PROVE  DfsFromHostIndex(h, st, hosts, portNode) \in States(hosts, portNode)
  <1> DEFINE state == [st EXCEPT !.recordPassSwitch = {}]
             call == [state |-> state, host |-> h, switch |-> hosts[h].linkSwitchIndex,
                      inPort |-> hosts[h].portIndex, pass |-> <<>>]
  <1>1. state \in States(hosts, portNode)
    BY DEF States
  <1>2. /\ hosts[h].linkSwitchIndex \in DOMAIN portNode
        /\ hosts[h].portIndex \in Ports(portNode, hosts[h].linkSwitchIndex)
    BY DEF IsNetwork, HostsAre
  <1>3. hosts[h].portIndex \in Nat
    BY <1>2, PortsAreNat
  <1>4. <<>> \in Seq(SaveNodes(portNode))
    BY EmptySeq
  <1>5. call \in DfsCalls(hosts, portNode)
    <2> HIDE DEF state
    <2> QED
      BY <1>1, <1>2, <1>3, <1>4 DEF DfsCalls
  <1>6. DfsResults(hosts, portNode)[call] \in Later(call, hosts, portNode)
    <2> HIDE DEF call
    <2> QED
      BY <1>5, SearchEnds
  <1> QED
    BY <1>6 DEF DfsFromHostIndex, Later

LEMMA DefaultTablesAre ==
  ASSUME NEW hosts, NEW portNode, IsNetwork(hosts, portNode)
  PROVE  DefaultFlowTable(hosts, portNode) \in Tables(hosts, portNode)
  <1> DEFINE n == Cardinality(DOMAIN hosts)
             linkSum == n * (n - 1)
             S == States(hosts, portNode)
             empty == [s \in DOMAIN portNode |-> <<>>]
             none == [entries |-> empty, hostLink |-> {}, linkCounter |-> 0, recordPassSwitch |-> {}]
             from(h, st) == IF st.linkCounter < linkSum THEN DfsFromHostIndex(h, st, hosts, portNode) ELSE st
             step == [k \in 1 .. n |-> [st \in S |-> from(k - 1, st)]]
  <1>1. n \in Nat /\ DOMAIN hosts = 0 .. n - 1
    BY HostNumIs
  <1>2. none \in S
    <2>1. \A A : <<>> \in Seq(A)
      BY EmptySeq
    <2>2. empty \in Tables(hosts, portNode)
      BY <2>1 DEF Tables
    <2> HIDE DEF empty
    <2> QED
      BY <2>2 DEF States
  <1> HIDE DEF n, linkSum, none
  <1>3. ASSUME NEW k \in 1 .. n, NEW st \in S
        PROVE  step[k][st] \in S
    <2>1. k - 1 \in DOMAIN hosts
      BY <1>1
    <2>2. DfsFromHostIndex(k - 1, st, hosts, portNode) \in S
      BY <2>1, FromHostIs
    <2>3. step[k][st] = from(k - 1, st)
      BY Zenon
    <2> HIDE DEF step
    <2> QED
      BY <2>2, <2>3
  <1>4. Loop(n, step, none) \in S
    <2> HIDE DEF step, S
    <2> QED
      BY <1>1, <1>2, <1>3, LoopStaysIn
  <1>5. DefaultFlowTable(hosts, portNode) = Loop(n, step, none).entries
    BY DEF DefaultFlowTable, n, linkSum, none
  <1> QED
    BY <1>4, <1>5 DEF States

-----------------------------------------------------------------------------
(* The "fattree" tables.                                                   *)

LEMMA InOrderIs ==
  ASSUME NEW hosts, NEW portNode, IsNetwork(hosts, portNode), NEW set
  PROVE  InOrder(hosts, set) \in Seq(DOMAIN hosts)
  <1> DEFINE n == Cardinality(DOMAIN hosts)
             D == DOMAIN hosts
             step == [k \in 1 .. n |-> [seq \in Seq(D) |-> IF k - 1 \in set THEN Append(seq, k - 1) ELSE seq]]
  <1>1. n \in Nat /\ D = 0 .. n - 1
    BY HostNumIs
  <1>2. <<>> \in Seq(D)
    BY EmptySeq
  <1> HIDE DEF n, D
  <1>3. ASSUME NEW k \in 1 .. n, NEW seq \in Seq(D)
        PROVE  step[k][seq] \in Seq(D)
    <2>1. k - 1 \in D
      BY <1>1
    <2>2. Append(seq, k - 1) \in Seq(D)
      BY <2>1, AppendProperties
    <2>3. step[k][seq] = IF k - 1 \in set THEN Append(seq, k - 1) ELSE seq
      BY Zenon
    <2> HIDE DEF step
    <2> QED
      BY <2>2, <2>3
  <1>4. Loop(n, step, <<>>) \in Seq(D)
    <2> HIDE DEF step
    <2> QED
      BY <1>1, <1>2, <1>3, LoopStaysIn
  <1> QED
    BY <1>4 DEF InOrder, n, D

LEMMA EntriesForIs ==
  ASSUME NEW hosts, NEW portNode, IsNetwork(hosts, portNode), NEW set, NEW ports,
         NEW outPorts \in (SUBSET ports) \ {{}}
  PROVE  EntriesFor(hosts, set, outPorts) \in Seq(FlowTableEntries(hosts, ports))
  <1> DEFINE order == InOrder(hosts, set)
             n == Len(order)
             F == FlowTableEntries(hosts, ports)
             entries == [q \in 1 .. n |-> FlowTableEntry(hosts[order[q]].address, outPorts)]
  <1>1. order \in Seq(DOMAIN hosts)
    BY InOrderIs
  <1>2. n \in Nat /\ \A q \in 1 .. n : order[q] \in DOMAIN hosts
    <2> HIDE DEF order
    <2> QED
      BY <1>1, LenProperties, ElementOfSeq
  <1> HIDE DEF order, n
  <1>3. \A q \in 1 .. n : FlowTableEntry(hosts[order[q]].address, outPorts) \in F
    BY <1>2 DEF FlowTableEntry, FlowTableEntries
  <1>4. entries \in [1 .. n -> F]
    <2> HIDE DEF F
    <2> QED
      BY <1>3
  <1>5. entries \in Seq(F)
    <2> HIDE DEF entries, F
    <2> QED
      BY <1>2, <1>4, FunctionIsSeq
  <1> QED
    BY <1>5 DEF EntriesFor, order, n

\* The joined beginnings of seqs, as FlattenSeq computes them.
AreJoined(v, seqs) == v = [i \in 1 .. Len(seqs) |-> IF i = 1 THEN seqs[i] ELSE v[i - 1] \o seqs[i]]

LEMMA JoinedExist ==
  ASSUME NEW S, NEW n \in Nat \ {0}, NEW seqs \in [1 .. n -> Seq(S)], Len(seqs) = n
  PROVE  \E v : AreJoined(v, seqs)
  <1> DEFINE step == [k \in 1 .. n |-> [seq \in Seq(S) |-> seq \o seqs[k]]]
             t == Turns(n, step, <<>>)
             v == [i \in 1 .. n |-> t[i]]
  <1>1. <<>> \in Seq(S)
    BY EmptySeq
  <1>2. ASSUME NEW k \in 1 .. n, NEW seq \in Seq(S)
        PROVE  step[k][seq] = seq \o seqs[k] /\ step[k][seq] \in Seq(S)
    <2>1. step[k][seq] = seq \o seqs[k]
      OBVIOUS
    <2>2. seqs[k] \in Seq(S)
      OBVIOUS
    <2> HIDE DEF step
    <2> QED
      BY <2>1, <2>2, ConcatProperties
  <1> HIDE DEF step
  <1>3. \A k \in 0 .. n : t[k] \in Seq(S)
    BY <1>1, <1>2, TurnsStayIn
  <1>4. t[0] = <<>> /\ \A k \in 1 .. n : t[k] = step[k][t[k - 1]]
    BY TurnsAre
  <1> HIDE DEF t
  <1>5. ASSUME NEW i \in 1 .. n
        PROVE  v[i] = IF i = 1 THEN seqs[i] ELSE v[i - 1] \o seqs[i]
    <2>1. i - 1 \in 0 .. n /\ t[i - 1] \in Seq(S) /\ seqs[i] \in Seq(S)
      BY <1>3
    <2>2. t[i] = t[i - 1] \o seqs[i]
      BY <1>2, <1>4, <2>1
    <2>3. CASE i = 1
      <3>1. t[i - 1] = <<>>
        BY <1>4, <2>3
      <3>2. <<>> \o seqs[i] = seqs[i]
        BY <2>1, ConcatEmptySeq
      <3> QED
        BY <2>2, <2>3, <3>1, <3>2
    <2>4. CASE i # 1
      <3>1. i - 1 \in 1 .. n
        BY <2>4
      <3> QED
        BY <2>2, <2>4, <3>1
    <2> QED
      BY <2>3, <2>4
  <1>6. AreJoined(v, seqs)
    <2>1. v = [i \in 1 .. n |-> v[i]]
      OBVIOUS
    <2> HIDE DEF v
    <2> QED
      BY <1>5, <2>1 DEF AreJoined
  <1> QED
    BY <1>6

LEMMA FlattenSeqIs ==
  ASSUME NEW S, NEW n \in Nat, NEW seqs \in [1 .. n -> Seq(S)]
  PROVE  FlattenSeq(seqs) \in Seq(S)
  <1>1. Len(seqs) = n
    BY FunctionIsSeq
  <1>2. CASE n = 0
    <2>1. FlattenSeq(seqs) = seqs
      BY <1>1, <1>2 DEF FlattenSeq
    <2>2. seqs \in [1 .. 0 -> S]
      BY <1>2
    <2> QED
      BY <2>1, <2>2, FunctionIsSeq
  <1>3. CASE n # 0
    <2> DEFINE v == CHOOSE u : AreJoined(u, seqs)
               Joined == {i \in 0 .. n : i # 0 => v[i] \in Seq(S)}
    <2>1. FlattenSeq(seqs) = v[Len(seqs)]
      BY <1>1, <1>3 DEF FlattenSeq, AreJoined
    <2>2. AreJoined(v, seqs)
      <3>1. n \in Nat \ {0}
        BY <1>3
      <3> QED
        BY <1>1, <3>1, JoinedExist
    <2> HIDE DEF v
    <2>3. \A i \in 1 .. n : v[i] = IF i = 1 THEN seqs[i] ELSE v[i - 1] \o seqs[i]
      BY <1>1, <2>2 DEF AreJoined
    <2>4. 0 \in Joined
      OBVIOUS
    <2>5. ASSUME NEW i \in 0 .. n - 1, i \in Joined
          PROVE  i + 1 \in Joined
      <3>1. i + 1 \in 1 .. n /\ (i + 1) - 1 = i
        OBVIOUS
      <3>2. v[i + 1] = IF i = 0 THEN seqs[i + 1] ELSE v[i] \o seqs[i + 1]
        BY <2>3, <3>1
      <3>3. seqs[i + 1] \in Seq(S)
        BY <3>1
      <3>4. CASE i = 0
        BY <3>1, <3>2, <3>3, <3>4
      <3>5. CASE i # 0
        <4>1. v[i] \in Seq(S)
          BY <2>5, <3>5
        <4>2. v[i] \o seqs[i + 1] \in Seq(S)
          BY <3>3, <4>1, ConcatProperties
        <4>3. v[i + 1] \in Seq(S)
          BY <3>2, <3>5, <4>2, Zenon
        <4>4. i + 1 \in 0 .. n
          OBVIOUS
        <4> QED
          BY <4>3, <4>4
      <3> QED
        BY <3>4, <3>5
    <2>6. 0 .. n \subseteq Joined
      <3> HIDE DEF Joined
      <3> QED
        BY <2>4, <2>5, InductionTo
    <2> QED
      BY <1>1, <1>3, <2>1, <2>6
  <1> QED
    BY <1>2, <1>3

\* The entries a switch can be given by the tables of a fat tree, and the one
\* that stands for a crash.
LEMMA EntriesDownIs ==
  ASSUME NEW hosts, NEW portNode, IsNetwork(hosts, portNode), NEW portNum \in Nat, NEW below
  PROVE  EntriesDown(hosts, portNum, below) \in Seq(FlowTableEntries(hosts, 0 .. portNum - 1))
  <1> DEFINE F == FlowTableEntries(hosts, 0 .. portNum - 1)
             part(p) == IF p \in DOMAIN below THEN EntriesFor(hosts, below[p], {p - 1}) ELSE <<>>
             parts == [p \in 1 .. portNum |-> part(p)]
  <1>1. ASSUME NEW p \in 1 .. portNum
        PROVE  part(p) \in Seq(F)
    <2>1. {p - 1} \in (SUBSET (0 .. portNum - 1)) \ {{}}
      OBVIOUS
    <2>2. EntriesFor(hosts, below[p], {p - 1}) \in Seq(F)
      BY <2>1, EntriesForIs
    <2>3. <<>> \in Seq(F)
      BY EmptySeq
    <2> QED
      BY <2>2, <2>3
  <1>2. parts \in [1 .. portNum -> Seq(F)]
    <2> HIDE DEF part, F
    <2> QED
      BY <1>1
  <1>3. FlattenSeq(parts) \in Seq(F)
    <2> HIDE DEF parts, F
    <2> QED
      BY <1>2, FlattenSeqIs
  <1> QED
    BY <1>3 DEF EntriesDown

LEMMA EntriesUpIs ==
  ASSUME NEW hosts, NEW portNode, IsNetwork(hosts, portNode), NEW portNum \in Nat, NEW below
  PROVE  EntriesUp(hosts, portNum, below) \in Seq(FlowTableEntries(hosts, 0 .. portNum - 1) \cup {DivisionByZero})
  <1> DEFINE F == FlowTableEntries(hosts, 0 .. portNum - 1)
             G == F \cup {DivisionByZero}
             others == DOMAIN hosts \ Reach(below)
             up == OtherPortIndex(1 .. portNum, DOMAIN below)
  <1>1. up \subseteq 0 .. portNum - 1
    BY DEF OtherPortIndex
  <1>2. CASE up # {}
    <2>1. up \in (SUBSET (0 .. portNum - 1)) \ {{}}
      BY <1>1, <1>2
    <2>2. EntriesFor(hosts, others, up) \in Seq(F)
      <3> HIDE DEF up, others
      <3> QED
        BY <2>1, EntriesForIs
    <2>3. F \subseteq G
      OBVIOUS
    <2>4. EntriesFor(hosts, others, up) \in Seq(G)
      <3> HIDE DEF F, G, up, others
      <3> QED
        BY <2>2, <2>3, SeqMonotonic
    <2>5. EntriesUp(hosts, portNum, below) = EntriesFor(hosts, others, up)
      BY <1>2 DEF EntriesUp
    <2> QED
      BY <2>4, <2>5
  <1>3. CASE up = {}
    <2>1. <<>> \in Seq(G) /\ <<DivisionByZero>> \in Seq(G)
      <3>1. DivisionByZero \in G
        OBVIOUS
      <3> HIDE DEF G
      <3> QED
        BY <3>1, EmptySeq
    <2>2. EntriesUp(hosts, portNum, below) \in {<<>>, <<DivisionByZero>>}
      BY <1>3 DEF EntriesUp
    <2> QED
      BY <2>1, <2>2
  <1> QED
    BY <1>2, <1>3

LEMMA FattreeTablesAre ==
  ASSUME NEW hosts, NEW portNode, IsNetwork(hosts, portNode), NEW podNum
  PROVE  /\ DOMAIN BuildFattreeFlowTable(podNum, hosts, portNode) = DOMAIN portNode
         /\ \A s \in DOMAIN portNode :
              BuildFattreeFlowTable(podNum, hosts, portNode)[s]
                \in Seq(FlowTableEntries(hosts, Ports(portNode, s)) \cup {DivisionByZero})
  <1> DEFINE core      == (podNum \div 2) * (podNum \div 2)
             edgeReach == [s \in 3 * core .. 5 * core - 1 |-> Reach(BelowEdge(portNode[s]))]
             aggrReach == [s \in core .. 3 * core - 1 |-> Reach(BelowAggr(portNode[s], s, edgeReach))]
             below(s)  == CASE s < core -> BelowCore(portNode[s], aggrReach)
                            [] s \in core .. 3 * core - 1 -> BelowAggr(portNode[s], s, edgeReach)
                            [] s >= 3 * core -> BelowEdge(portNode[s])
             down(s)   == EntriesDown(hosts, Len(portNode[s]), below(s))
             up(s)     == IF s < core THEN <<>> ELSE EntriesUp(hosts, Len(portNode[s]), below(s))
             tables    == [s \in DOMAIN portNode |-> down(s) \o up(s)]
  <1>1. BuildFattreeFlowTable(podNum, hosts, portNode) = tables
    BY DEF BuildFattreeFlowTable
  <1> HIDE DEF core, below
  <1>2. ASSUME NEW s \in DOMAIN portNode
        PROVE  down(s) \o up(s) \in Seq(FlowTableEntries(hosts, Ports(portNode, s)) \cup {DivisionByZero})
    <2> DEFINE n == Len(portNode[s])
               F == FlowTableEntries(hosts, 0 .. n - 1)
               G == F \cup {DivisionByZero}
    <2>1. n \in Nat
      BY DEF IsNetwork
    <2> HIDE DEF n
    <2>2. EntriesDown(hosts, n, below(s)) \in Seq(F) /\ EntriesUp(hosts, n, below(s)) \in Seq(G)
      BY <2>1, EntriesDownIs, EntriesUpIs
    <2>3. <<>> \in Seq(G)
      BY EmptySeq
    <2>4. EntriesDown(hosts, n, below(s)) \in Seq(G)
      <3>1. F \subseteq G
        OBVIOUS
      <3> HIDE DEF F, G
      <3> QED
        BY <2>2, <3>1, SeqMonotonic
    <2>5. down(s) \in Seq(G) /\ up(s) \in Seq(G)
      <3> HIDE DEF G
      <3> QED
        BY <2>2, <2>3, <2>4 DEF n
    <2>6. down(s) \o up(s) \in Seq(G)
      <3> HIDE DEF G, down, up
      <3> QED
        BY <2>5, ConcatProperties
    <2>7. Ports(portNode, s) = 0 .. n - 1
      BY DEF Ports, n
    <2> HIDE DEF down, up
    <2> QED
      BY <2>6, <2>7
  <1> HIDE DEF down, up
  <1> QED
    BY <1>1, <1>2

-----------------------------------------------------------------------------
(* What is written.                                                        *)

LEMMA FileEntriesAre ==
  ASSUME NEW hosts, NEW ports, NEW entries \in Seq(FlowTableEntries(hosts, ports)), NEW a \in DOMAIN FileEntries(entries)
  PROVE  /\ a \in {hosts[h].address : h \in DOMAIN hosts}
         /\ FileEntries(entries)[a] \in (SUBSET ports) \ {{}}
  <1> DEFINE First(j) == entries[j].dstIp = a /\ \A k \in 1 .. j - 1 : entries[k].dstIp # a
             J == {j \in 1 .. Len(entries) : entries[j].dstIp = a}
             j == CHOOSE i \in 1 .. Len(entries) : First(i)
  <1>1. /\ Len(entries) \in Nat
        /\ \A i \in 1 .. Len(entries) : entries[i] \in FlowTableEntries(hosts, ports)
    BY LenProperties, ElementOfSeq
  <1>2. a \in {entries[i].dstIp : i \in 1 .. Len(entries)}
    BY DEF FileEntries
  <1>3. \E i \in 1 .. Len(entries) : First(i)
    <2>1. J # {} /\ J \subseteq Nat
      BY <1>1, <1>2
    <2>2. PICK i \in J : \A k \in J : i <= k
      <3> HIDE DEF J
      <3> QED
        BY <2>1, LeastNatural
    <2>3. \A k \in 1 .. i - 1 : k \notin J
      BY <1>1, <2>2
    <2>4. First(i)
      BY <1>1, <2>2, <2>3
    <2> QED
      BY <2>2, <2>4
  <1>4. j \in 1 .. Len(entries) /\ First(j)
    <2> HIDE DEF First
    <2> QED
      BY <1>3
  <1>5. FileEntries(entries)[a] = entries[j].outPorts
    BY <1>2 DEF FileEntries
  <1> HIDE DEF j
  <1>6. entries[j] \in FlowTableEntries(hosts, ports) /\ entries[j].dstIp = a
    BY <1>1, <1>4
  <1> QED
    BY <1>5, <1>6 DEF FlowTableEntries
=============================================================================
