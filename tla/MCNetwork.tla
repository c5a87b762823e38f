------------------------------ MODULE MCNetwork ------------------------------
(***************************************************************************)
(* The topology files of examples/topo and test/simple_codel, one in which *)
(* rates are missing and the functions differ, one that main refuses, and  *)
(* every connected graph of four switches, two or more of them with a      *)
(* host.                                                                   *)
(***************************************************************************)
EXTENDS P4Network

MCPodNums == {2, 4}
MCTreeLevelNums == {2, 3}
MCP4Sources == {"simple_switch", "by topology"}

Functions(names) == [i \in 1 .. Len(names) |-> FunctionLine(i - 1, names[i])]

Dumbbell(rate, bottleneck, function) ==
  File(2, 6, 7, << LinkLine(2, "h", 0, "s", rate), LinkLine(3, "h", 0, "s", rate), LinkLine(4, "h", 0, "s", rate),
                   LinkLine(0, "s", 1, "s", bottleneck),
                   LinkLine(1, "s", 5, "h", rate), LinkLine(1, "s", 6, "h", rate), LinkLine(1, "s", 7, "h", rate) >>
                \o Functions(<<function, function>>))

Plain(links) == [i \in 1 .. Len(links) |-> LinkLine(links[i][1], "s", links[i][2], links[i][3], NotGiven)]

CsmaTopo ==
  File(5, 2, 6, Plain(<< <<1, 3, "s">>, <<1, 0, "s">>, <<2, 4, "s">>, <<2, 0, "s">>, <<3, 5, "h">>, <<4, 6, "h">> >>)
                \o SimpleRouters(5))

BinaryTree ==
  File(3, 4, 6, Plain(<< <<0, 1, "s">>, <<0, 2, "s">>, <<1, 3, "h">>, <<1, 4, "h">>, <<2, 5, "h">>, <<2, 6, "h">> >>)
                \o SimpleRouters(4))

MixedTopo ==
  File(3, 3, 5, << LinkLine(0, "s", 3, "h", "10Mbps"), LinkLine(0, "s", 1, "s", NotGiven),
                   LinkLine(1, "s", 4, "h", "5Mbps"), LinkLine(2, "s", 1, "s", NotGiven),
                   LinkLine(5, "h", 2, "s", NotGiven) >>
                \o Functions(<<"SIMPLESWITCH", "REGISTER", "CODELPP">>))

HostsOnly == File(0, 2, 1, << LinkLine(0, "h", 1, "h", NotGiven) >>)

\* A host without a link, and a link to a host that does not exist.
LonelyHost == File(1, 2, 1, << LinkLine(0, "s", 1, "h", NotGiven) >> \o SimpleRouters(1))
StrayLink == File(1, 1, 2, << LinkLine(0, "s", 1, "h", NotGiven), LinkLine(2, "h", 0, "s", NotGiven) >> \o SimpleRouters(1))

\* A host that is linked to both switches.
TwoHomes ==
  File(2, 3, 5, << LinkLine(2, "h", 0, "s", NotGiven), LinkLine(0, "s", 3, "h", NotGiven), LinkLine(0, "s", 1, "s", NotGiven),
                   LinkLine(1, "s", 3, "h", NotGiven), LinkLine(1, "s", 4, "h", NotGiven) >> \o SimpleRouters(2))

SwitchPairs == << <<0, 1>>, <<0, 2>>, <<0, 3>>, <<1, 2>>, <<1, 3>>, <<2, 3>> >>

\* The graph whose edges are those of SwitchPairs in E, with hosts in H.
Graph(E, H) ==
  LET edges == SelectSeq([i \in 1 .. 6 |-> i], LAMBDA i : i \in E)
      hosts == SelectSeq(Indices(4), LAMBDA s : s \in H)
  IN  File(4, Len(hosts), Len(edges) + Len(hosts),
           Plain([i \in 1 .. Len(edges) |-> <<SwitchPairs[edges[i]][1], SwitchPairs[edges[i]][2], "s">>]
                 \o [i \in 1 .. Len(hosts) |-> <<hosts[i], 3 + i, "h">>])
           \o SimpleRouters(4))

IsConnected(E) ==
  \A S \in (SUBSET (0 .. 3)) \ {{}, 0 .. 3} : \E i \in E : (SwitchPairs[i][1] \in S) # (SwitchPairs[i][2] \in S)

Graphs4 == {Graph(E, H) : E \in {E \in SUBSET (1 .. 6) : IsConnected(E)},
                          H \in {H \in SUBSET (0 .. 3) : Cardinality(H) >= 2}}

MCGivenFiles == Graphs4 \cup { Dumbbell("1000Mbps", "50Mbps", "CODEL"), Dumbbell("100Mbps", "5Mbps", "SIMPLECODEL"),
                  CsmaTopo, BinaryTree, MixedTopo, HostsOnly, NoFile,
                  LonelyHost, StrayLink, TwoHomes }
=============================================================================
