---------------------------- MODULE TopologyFiles ----------------------------
(***************************************************************************)
(* Topology files: those FattreeTopoHelper and BinaryTreeTopoHelper of     *)
(* helper/ write, and what CsmaTopologyReader of model/ makes of a file.   *)
(*                                                                         *)
(* A file is its first line, which holds three numbers, and the sequence   *)
(* of its other lines.  A line describes a link or names the network       *)
(* function of a switch.  Switches are numbered from 0, hosts go on where  *)
(* the switches end.                                                       *)
(***************************************************************************)
EXTENDS Integers, Sequences, SequencesExt, Loops

\* An attribute that is not written: two blanks in the line.
NotGiven == ""

LinkLine(from, fromType, to, toType, rate) ==
  [kind |-> "link", from |-> from, fromType |-> fromType, to |-> to, toType |-> toType, rate |-> rate]

FunctionLine(switch, networkFunction) ==
  [kind |-> "function", switch |-> switch, function |-> networkFunction]

File(switchNum, hostNum, linkNum, lines) ==
  [switchNum |-> switchNum, hostNum |-> hostNum, linkNum |-> linkNum, lines |-> lines]

\* The sequence 0, 1, .. n - 1.
Indices(n) == [i \in 1 .. n |-> i - 1]

ForEach(n, LinesOf(_)) == FlattenSeq([i \in 1 .. n |-> LinesOf(i - 1)])

SimpleRouters(switchNum) == [i \in 1 .. switchNum |-> FunctionLine(i - 1, "SIMPLE_ROUTER")]

-----------------------------------------------------------------------------
\* FattreeTopoHelper.

CoreSwitchNum(podNum) == (podNum \div 2) * (podNum \div 2)

\* The aggregation switch of pod j that a core switch is linked to: one
\* further in every pod, from the place rand() started at.
AggrInPod(start, j, halfPodNum) == (start + j + 1) % halfPodNum

\* Build: what each switch is linked to; start is where the wiring of each
\* core switch starts.
m_switchLinkNodeTypeIndex(podNum, start) ==
  LET half == podNum \div 2
      core == CoreSwitchNum(podNum)
      edges(i) == [p \in 1 .. half |-> [type |-> "s", index |-> 3 * core + i * half + p - 1]]
      cores(i, j) == SelectSeq(Indices(core), LAMBDA c : AggrInPod(start[c], i, half) = j)
      hosts(i, j) == [p \in 1 .. half |-> [type |-> "h", index |-> 5 * core + i * core + j * half + p - 1]]
  IN  [s \in 0 .. 5 * core - 1 |->
         CASE s < core -> <<>>
           [] s >= core /\ s < 3 * core ->
                LET i == (s - core) \div half  j == (s - core) % half
                    c == cores(i, j)
                IN  edges(i) \o [q \in 1 .. Len(c) |-> [type |-> "s", index |-> c[q]]]
           [] s >= 3 * core ->
                hosts((s - 3 * core) \div half, (s - 3 * core) % half)]

FattreeLinkNum(podNum) == 2 * podNum * CoreSwitchNum(podNum) + CoreSwitchNum(podNum) * podNum

\* Write: the data rate and delay that were set are hidden by variables of
\* the same names and never written.
FattreeFile(podNum, start) ==
  LET switchNum == 5 * CoreSwitchNum(podNum)
      links == m_switchLinkNodeTypeIndex(podNum, start)
      linesOf(s) == [n \in 1 .. Len(links[s]) |->
                       LinkLine(s, "s", links[s][n].index, links[s][n].type, NotGiven)]
  IN  File(switchNum, CoreSwitchNum(podNum) * podNum, FattreeLinkNum(podNum),
           ForEach(switchNum, linesOf) \o SimpleRouters(switchNum))

-----------------------------------------------------------------------------
\* BinaryTreeTopoHelper.

TreeSwitchNum(treeLevelNum) == PowerOfTwo(treeLevelNum) - 1

\* The hosts of a switch of the first, a middle or the last level.
HostsAt(s, treeLevelNum) ==
  IF s = 0 THEN 2 ELSE IF s < TreeSwitchNum(treeLevelNum - 1) THEN 1 ELSE 3

\* The number of hosts of the switches before s.
HostsBefore(s, treeLevelNum) ==
  Loop(s, [k \in 1 .. s |-> [n \in Nat |-> n + HostsAt(k - 1, treeLevelNum)]], 0)

TreeTerminalNum(treeLevelNum) == HostsBefore(TreeSwitchNum(treeLevelNum), treeLevelNum)

\* Mutant: a link too many.
TreeLinkNumOfAll(treeLevelNum) == TreeTerminalNum(treeLevelNum) + TreeSwitchNum(treeLevelNum)

TreeLinkNum(treeLevelNum) == TreeTerminalNum(treeLevelNum) + TreeSwitchNum(treeLevelNum) - 1

BinaryTreeFile(treeLevelNum) ==
  LET switchNum == TreeSwitchNum(treeLevelNum)
      linesOf(s) ==
        [n \in 1 .. HostsAt(s, treeLevelNum) |->
           LinkLine(switchNum + HostsBefore(s, treeLevelNum) + n - 1, "h", s, "s", NotGiven)]
        \o (IF s = 0 THEN <<>> ELSE <<LinkLine((s - 1) \div 2, "s", s, "s", NotGiven)>>)
  IN  File(switchNum, TreeTerminalNum(treeLevelNum), TreeLinkNum(treeLevelNum),
           ForEach(switchNum, linesOf) \o SimpleRouters(switchNum))

-----------------------------------------------------------------------------
\* CsmaTopologyReader.

\* The rate of a link: the variable it is read into keeps what an earlier
\* line gave when the line gives none.
RateRead(lines, n) ==
  LET given == {i \in 1 .. n : lines[i].rate # NotGiven}
  IN  IF given = {} THEN NotGiven ELSE lines[CHOOSE i \in given : \A j \in given : j <= i].rate

\* Read: linkNum lines are taken for links, switchNum for functions; a line
\* of the other kind is not what the program expects.
Read(file) ==
  LET linkLines == SubSeq(file.lines, 1, file.linkNum)
      functionLines == SubSeq(file.lines, file.linkNum + 1, file.linkNum + file.switchNum)
      wellFormed == /\ \A n \in 1 .. Len(linkLines) : linkLines[n].kind = "link"
                    /\ \A n \in 1 .. Len(functionLines) : functionLines[n].kind = "function"
  IN  IF ~wellFormed
      THEN [wellFormed |-> FALSE, switchNum |-> 0, hostNum |-> 0, links |-> <<>>, netFunc |-> <<>>]
      ELSE [wellFormed |-> TRUE, switchNum |-> file.switchNum, hostNum |-> file.hostNum,
            links |-> [n \in 1 .. Len(linkLines) |->
                         [linkLines[n] EXCEPT !.rate = RateRead(linkLines, n)]],
            netFunc |-> FoldLeft(LAMBDA f, line : [f EXCEPT ![line.switch] = line.function],
                                 [s \in 0 .. file.switchNum - 1 |-> NotGiven], functionLines)]
=============================================================================
