-------------------------- MODULE P4NetworkProofs --------------------------
(***************************************************************************)
(* How the switches of P4Network are wired and configured, and where a     *)
(* packet goes, for every topology file: what the flow tables are computed *)
(* from is what packets follow, whatever the flow tables say; and the flow *)
(* tables name hosts and ports that exist.                                 *)
(***************************************************************************)
EXTENDS P4Network, BuildFlowtableProofs, SequenceTheorems, TLAPS

-----------------------------------------------------------------------------
(* Ports.                                                                  *)

\* The device is one of switch s.
OnSwitch(device, s) == NodeOf(device) = [type |-> "s", index |-> s]

\* The port information that can be given.
Infos(switches, hosts) ==
  [type : {"s"}, index : switches, port : Nat] \cup [type : {"h"}, index : hosts, port : {0}]

\* The switches have devices of P, each of them once, each with its port
\* information.
Wired(switches, P, I) ==
  \A s \in DOMAIN switches :
    /\ switches[s] \in [switchDevices : Seq(P), switchPortInfos : Seq(I)]
    /\ Len(switches[s].switchPortInfos) = Len(switches[s].switchDevices)
    /\ \A p \in 1 .. Len(switches[s].switchDevices) : OnSwitch(switches[s].switchDevices[p], s)
    /\ \A p, q \in 1 .. Len(switches[s].switchDevices) :
         switches[s].switchDevices[p] = switches[s].switchDevices[q] => p = q

\* Every device of P that is on a switch is a port of it.
Ported(switches, P) ==
  \A d \in P : \A s \in DOMAIN switches :
    OnSwitch(d, s) => \E p \in 1 .. Len(switches[s].switchDevices) : switches[s].switchDevices[p] = d

\* What the port information of a port of switch s says of the other end.
Matches(switches, s, device, info) ==
  LET other == OtherEnd(device)
      node  == NodeOf(other)
  IN  /\ node.type = info.type
      /\ info.type = "s" =>
           /\ node.index = info.index
           /\ info.index # s =>
                /\ info.port \in 0 .. Len(switches[info.index].switchDevices) - 1
                /\ switches[info.index].switchDevices[info.port + 1] = other
      /\ info.type = "h" => node.index - topoReader.switchNum = info.index

Matched(switches) ==
  \A s \in DOMAIN switches : \A p \in 1 .. Len(switches[s].switchDevices) :
    Matches(switches, s, switches[s].switchDevices[p], switches[s].switchPortInfos[p])

\* A port that is added comes after the others, which stay what they are.
LEMMA PortAdded ==
  ASSUME NEW switches, NEW P, NEW I, Wired(switches, P, I),
         NEW s \in DOMAIN switches, NEW d, NEW i
  PROVE  /\ DOMAIN WithPort(switches, s, d, i) = DOMAIN switches
         /\ \A t \in DOMAIN switches : t # s => WithPort(switches, s, d, i)[t] = switches[t]
         /\ WithPort(switches, s, d, i)[s] =
              [switchDevices |-> Append(switches[s].switchDevices, d),
               switchPortInfos |-> Append(switches[s].switchPortInfos, i)]
  BY DEF WithPort

\* The sequence new is old, with e after it where t is s.
Extended(old, new, S, e, t, s) ==
  /\ Len(old) \in Nat
  /\ Len(new) = IF t = s THEN Len(old) + 1 ELSE Len(old)
  /\ \A p \in 1 .. Len(old) : new[p] = old[p] /\ old[p] \in S
  /\ t = s => new[Len(old) + 1] = e
  /\ new \in Seq(S \cup {e})

LEMMA ExtendedIs ==
  ASSUME NEW S, NEW old \in Seq(S), NEW e, NEW t, NEW s, NEW new,
         new = IF t = s THEN Append(old, e) ELSE old
  PROVE  Extended(old, new, S, e, t, s)
  <1>1. old \in Seq(S \cup {e})
    OBVIOUS
  <1>2. Len(old) \in Nat /\ \A p \in 1 .. Len(old) : old[p] \in S
    BY LenProperties, ElementOfSeq
  <1>3. CASE t = s
    <2>1. new = Append(old, e)
      BY <1>3
    <2>2. /\ new \in Seq(S \cup {e})
          /\ Len(new) = Len(old) + 1
          /\ \A p \in 1 .. Len(old) : new[p] = old[p]
          /\ new[Len(old) + 1] = e
      BY <1>1, <1>2, <2>1, AppendProperties
    <2> QED
      BY <1>2, <1>3, <2>2 DEF Extended
  <1>4. CASE t # s
    BY <1>1, <1>2, <1>4 DEF Extended
  <1> QED
    BY <1>3, <1>4

LEMMA ExtendedRange ==
  ASSUME NEW old, NEW new, NEW S, NEW e, NEW t, NEW s, Extended(old, new, S, e, t, s),
         NEW p \in 1 .. Len(new)
  PROVE  \/ p \in 1 .. Len(old) /\ new[p] = old[p] /\ new[p] \in S
         \/ t = s /\ p = Len(old) + 1 /\ new[p] = e
  BY DEF Extended

LEMMA PortExtended ==
  ASSUME NEW P, NEW I, NEW old \in [switchDevices : Seq(P), switchPortInfos : Seq(I)],
         NEW d, NEW i, NEW t, NEW s, NEW new,
         t = s => new = [switchDevices |-> Append(old.switchDevices, d),
                         switchPortInfos |-> Append(old.switchPortInfos, i)],
         t # s => new = old
  PROVE  /\ Extended(old.switchDevices, new.switchDevices, P, d, t, s)
         /\ Extended(old.switchPortInfos, new.switchPortInfos, I, i, t, s)
         /\ new = [switchDevices |-> new.switchDevices, switchPortInfos |-> new.switchPortInfos]
  <1>1. /\ new.switchDevices = IF t = s THEN Append(old.switchDevices, d) ELSE old.switchDevices
        /\ new.switchPortInfos = IF t = s THEN Append(old.switchPortInfos, i) ELSE old.switchPortInfos
        /\ new = [switchDevices |-> new.switchDevices, switchPortInfos |-> new.switchPortInfos]
    <2>1. CASE t = s
      <3>1. new = [switchDevices |-> Append(old.switchDevices, d),
                   switchPortInfos |-> Append(old.switchPortInfos, i)]
        BY <2>1
      <3> QED
        BY <2>1, <3>1
    <2>2. CASE t # s
      <3>1. new = old
        BY <2>2
      <3> QED
        BY <2>2, <3>1
    <2> QED
      BY <2>1, <2>2
  <1>2. old.switchDevices \in Seq(P) /\ old.switchPortInfos \in Seq(I)
    OBVIOUS
  <1> QED
    BY <1>1, <1>2, ExtendedIs

\* The ports of every switch after a port has been added to one.
LEMMA PortsAfter ==
  ASSUME NEW switches, NEW P, NEW I, Wired(switches, P, I),
         NEW s \in DOMAIN switches, NEW d, NEW i, NEW t \in DOMAIN switches
  PROVE  /\ Extended(switches[t].switchDevices, WithPort(switches, s, d, i)[t].switchDevices, P, d, t, s)
         /\ Extended(switches[t].switchPortInfos, WithPort(switches, s, d, i)[t].switchPortInfos, I, i, t, s)
         /\ WithPort(switches, s, d, i)[t] =
              [switchDevices |-> WithPort(switches, s, d, i)[t].switchDevices,
               switchPortInfos |-> WithPort(switches, s, d, i)[t].switchPortInfos]
  <1>1. switches[t] \in [switchDevices : Seq(P), switchPortInfos : Seq(I)]
    BY DEF Wired
  <1>2. /\ WithPort(switches, s, d, i)[s] =
             [switchDevices |-> Append(switches[s].switchDevices, d),
              switchPortInfos |-> Append(switches[s].switchPortInfos, i)]
        /\ t # s => WithPort(switches, s, d, i)[t] = switches[t]
    BY PortAdded
  <1> DEFINE new == WithPort(switches, s, d, i)[t]
             old == switches[t]
  <1>3. /\ old \in [switchDevices : Seq(P), switchPortInfos : Seq(I)]
        /\ t = s => new = [switchDevices |-> Append(old.switchDevices, d),
                           switchPortInfos |-> Append(old.switchPortInfos, i)]
        /\ t # s => new = old
    BY <1>1, <1>2
  <1> HIDE DEF new, old
  <1>4. /\ Extended(old.switchDevices, new.switchDevices, P, d, t, s)
        /\ Extended(old.switchPortInfos, new.switchPortInfos, I, i, t, s)
        /\ new = [switchDevices |-> new.switchDevices, switchPortInfos |-> new.switchPortInfos]
    BY <1>3, PortExtended
  <1> QED
    BY <1>4 DEF new, old

\* Adding a new device keeps the switches wired.
LEMMA WithPortWired ==
  ASSUME NEW switches, NEW P, NEW I, Wired(switches, P, I),
         NEW s \in DOMAIN switches, NEW d, OnSwitch(d, s), d \notin P, NEW i \in I
  PROVE  Wired(WithPort(switches, s, d, i), P \cup {d}, I)
  <1> DEFINE later == WithPort(switches, s, d, i)
  <1>1. DOMAIN later = DOMAIN switches
    BY PortAdded
  <1> SUFFICES ASSUME NEW t \in DOMAIN switches
               PROVE  /\ later[t] \in [switchDevices : Seq(P \cup {d}), switchPortInfos : Seq(I)]
                      /\ Len(later[t].switchPortInfos) = Len(later[t].switchDevices)
                      /\ \A p \in 1 .. Len(later[t].switchDevices) : OnSwitch(later[t].switchDevices[p], t)
                      /\ \A p, q \in 1 .. Len(later[t].switchDevices) :
                           later[t].switchDevices[p] = later[t].switchDevices[q] => p = q
    BY <1>1 DEF Wired
  <1> DEFINE old == switches[t].switchDevices
             new == later[t].switchDevices
             olds == switches[t].switchPortInfos
             news == later[t].switchPortInfos
  <1>2. /\ Extended(old, new, P, d, t, s)
        /\ Extended(olds, news, I, i, t, s)
        /\ later[t] = [switchDevices |-> new, switchPortInfos |-> news]
    BY PortsAfter
  <1>3. /\ Len(olds) = Len(old)
        /\ \A p \in 1 .. Len(old) : OnSwitch(old[p], t)
        /\ \A p, q \in 1 .. Len(old) : old[p] = old[q] => p = q
    BY DEF Wired
  <1> HIDE DEF old, new, olds, news, later
  <1>4. I \cup {i} = I
    OBVIOUS
  <1>5. new \in Seq(P \cup {d}) /\ news \in Seq(I) /\ Len(news) = Len(new)
    BY <1>2, <1>3, <1>4 DEF Extended
  <1>6. later[t] \in [switchDevices : Seq(P \cup {d}), switchPortInfos : Seq(I)]
    BY <1>2, <1>5
  <1>7. ASSUME NEW p \in 1 .. Len(new)
        PROVE  OnSwitch(new[p], t)
    <2>1. CASE p \in 1 .. Len(old) /\ new[p] = old[p]
      BY <1>3, <2>1
    <2>2. CASE t = s /\ new[p] = d
      BY <2>2
    <2> QED
      BY <1>2, <2>1, <2>2, ExtendedRange
  <1>8. ASSUME NEW p \in 1 .. Len(new), NEW q \in 1 .. Len(new), new[p] = new[q]
        PROVE  p = q
    <2>1. \/ p \in 1 .. Len(old) /\ new[p] = old[p] /\ new[p] \in P
          \/ p = Len(old) + 1 /\ new[p] = d
      BY <1>2, ExtendedRange
    <2>2. \/ q \in 1 .. Len(old) /\ new[q] = old[q] /\ new[q] \in P
          \/ q = Len(old) + 1 /\ new[q] = d
      BY <1>2, ExtendedRange
    <2> QED
      BY <1>3, <1>8, <2>1, <2>2
  <1> QED
    BY <1>5, <1>6, <1>7, <1>8 DEF new, news

LEMMA WithPortPorted ==
  ASSUME NEW switches, NEW P, NEW I, Wired(switches, P, I), Ported(switches, P),
         NEW s \in DOMAIN switches, NEW d, OnSwitch(d, s), NEW i
  PROVE  Ported(WithPort(switches, s, d, i), P \cup {d})
  <1> DEFINE later == WithPort(switches, s, d, i)
  <1>1. DOMAIN later = DOMAIN switches
    BY PortAdded
  <1> SUFFICES ASSUME NEW e \in P \cup {d}, NEW t \in DOMAIN switches, OnSwitch(e, t)
               PROVE  \E p \in 1 .. Len(later[t].switchDevices) : later[t].switchDevices[p] = e
    BY <1>1 DEF Ported
  <1> DEFINE old == switches[t].switchDevices
             new == later[t].switchDevices
  <1>2. Extended(old, new, P, d, t, s)
    BY PortsAfter
  <1>3. CASE e \in P
    <2>1. PICK p \in 1 .. Len(old) : old[p] = e
      BY <1>3 DEF Ported
    <2> HIDE DEF old, new
    <2>2. p \in 1 .. Len(new) /\ new[p] = e
      BY <1>2, <2>1 DEF Extended
    <2> QED
      BY <2>2 DEF new
  <1>4. CASE e = d
    <2>1. t = s
      <3>1. [type |-> "s", index |-> s] = [type |-> "s", index |-> t]
        BY <1>4 DEF OnSwitch
      <3>2. [type |-> "s", index |-> s].index = [type |-> "s", index |-> t].index
        BY <3>1
      <3> QED
        BY <3>2
    <2> HIDE DEF old, new
    <2>2. Len(old) + 1 \in 1 .. Len(new) /\ new[Len(old) + 1] = e
      BY <1>2, <1>4, <2>1 DEF Extended
    <2> QED
      BY <2>2 DEF new
  <1> QED
    BY <1>3, <1>4

\* The switches of later have the ports of switches and perhaps more.
Longer(switches, later) ==
  /\ DOMAIN later = DOMAIN switches
  /\ \A s \in DOMAIN switches :
       /\ Len(switches[s].switchDevices) \in Nat /\ Len(later[s].switchDevices) \in Nat
       /\ Len(switches[s].switchDevices) <= Len(later[s].switchDevices)
       /\ \A p \in 1 .. Len(switches[s].switchDevices) :
            later[s].switchDevices[p] = switches[s].switchDevices[p]

LEMMA WithPortLonger ==
  ASSUME NEW switches, NEW P, NEW I, Wired(switches, P, I),
         NEW s \in DOMAIN switches, NEW d, NEW i
  PROVE  Longer(switches, WithPort(switches, s, d, i))
  <1> DEFINE later == WithPort(switches, s, d, i)
  <1>1. DOMAIN later = DOMAIN switches
    BY PortAdded
  <1>2. ASSUME NEW t \in DOMAIN switches
        PROVE  /\ Len(switches[t].switchDevices) \in Nat /\ Len(later[t].switchDevices) \in Nat
               /\ Len(switches[t].switchDevices) <= Len(later[t].switchDevices)
               /\ \A p \in 1 .. Len(switches[t].switchDevices) :
                    later[t].switchDevices[p] = switches[t].switchDevices[p]
    <2> DEFINE old == switches[t].switchDevices
               new == later[t].switchDevices
    <2>1. Extended(old, new, P, d, t, s)
      BY PortsAfter
    <2> HIDE DEF old, new
    <2>2. /\ Len(old) \in Nat /\ Len(new) \in Nat /\ Len(old) <= Len(new)
          /\ \A p \in 1 .. Len(old) : new[p] = old[p]
      BY <2>1 DEF Extended
    <2> QED
      BY <2>2 DEF old, new
  <1> QED
    BY <1>1, <1>2 DEF Longer

\* A port keeps its place.
LEMMA PortStays ==
  ASSUME NEW switches, NEW later, Longer(switches, later), NEW s \in DOMAIN switches,
         NEW port \in 0 .. Len(switches[s].switchDevices) - 1
  PROVE  /\ port \in 0 .. Len(later[s].switchDevices) - 1
         /\ later[s].switchDevices[port + 1] = switches[s].switchDevices[port + 1]
  <1> DEFINE old == switches[s].switchDevices
             new == later[s].switchDevices
  <1>1. /\ Len(old) \in Nat /\ Len(new) \in Nat /\ Len(old) <= Len(new)
        /\ \A p \in 1 .. Len(old) : new[p] = old[p]
    BY DEF Longer
  <1>2. port \in 0 .. Len(old) - 1
    OBVIOUS
  <1> HIDE DEF old, new
  <1>3. port + 1 \in 1 .. Len(old) /\ port \in 0 .. Len(new) - 1
    BY <1>1, <1>2
  <1> QED
    BY <1>1, <1>3 DEF old, new

\* What matched still does when ports are added.
LEMMA MatchesLater ==
  ASSUME NEW switches, NEW later, Longer(switches, later), NEW t, NEW device, NEW info,
         Matches(switches, t, device, info),
         info.type = "s" => info.index \in DOMAIN switches
  PROVE  Matches(later, t, device, info)
  <1> DEFINE other == OtherEnd(device)
             node  == NodeOf(other)
  <1>1. /\ node.type = info.type
        /\ info.type = "s" =>
             /\ node.index = info.index
             /\ info.index # t =>
                  /\ info.port \in 0 .. Len(switches[info.index].switchDevices) - 1
                  /\ switches[info.index].switchDevices[info.port + 1] = other
        /\ info.type = "h" => node.index - topoReader.switchNum = info.index
    BY DEF Matches
  <1> HIDE DEF other, node
  <1>2. ASSUME info.type = "s", info.index # t
        PROVE  /\ info.port \in 0 .. Len(later[info.index].switchDevices) - 1
               /\ later[info.index].switchDevices[info.port + 1] = other
    BY <1>1, <1>2, PortStays
  <1> QED
    BY <1>1, <1>2 DEF Matches, other, node

\* All port information matches but that of devices in E.
MatchedBut(switches, E) ==
  \A s \in DOMAIN switches : \A p \in 1 .. Len(switches[s].switchDevices) :
    \/ switches[s].switchDevices[p] \in E
    \/ Matches(switches, s, switches[s].switchDevices[p], switches[s].switchPortInfos[p])

LEMMA WithPortMatched ==
  ASSUME NEW switches, NEW P, NEW H, NEW E, Wired(switches, P, Infos(DOMAIN switches, H)),
         MatchedBut(switches, E), NEW s \in DOMAIN switches, NEW d, NEW i
  PROVE  MatchedBut(WithPort(switches, s, d, i), E \cup {d})
  <1> DEFINE later == WithPort(switches, s, d, i)
             I == Infos(DOMAIN switches, H)
  <1>1. DOMAIN later = DOMAIN switches /\ Longer(switches, later)
    BY PortAdded, WithPortLonger
  <1> SUFFICES ASSUME NEW t \in DOMAIN switches, NEW p \in 1 .. Len(later[t].switchDevices)
               PROVE  \/ later[t].switchDevices[p] \in E \cup {d}
                      \/ Matches(later, t, later[t].switchDevices[p], later[t].switchPortInfos[p])
    BY <1>1 DEF MatchedBut
  <1> DEFINE old == switches[t].switchDevices
             new == later[t].switchDevices
             olds == switches[t].switchPortInfos
             news == later[t].switchPortInfos
  <1>2. Extended(old, new, P, d, t, s) /\ Extended(olds, news, I, i, t, s)
    BY PortsAfter
  <1>3. /\ Len(olds) = Len(old)
        /\ \A q \in 1 .. Len(old) : old[q] \in E \/ Matches(switches, t, old[q], olds[q])
    BY DEF Wired, MatchedBut
  <1>4. p \in 1 .. Len(new)
    OBVIOUS
  <1> HIDE DEF old, new, olds, news, later, I
  <1>5. CASE p \in 1 .. Len(old) /\ new[p] = old[p]
    <2>1. news[p] = olds[p] /\ olds[p] \in I
      BY <1>2, <1>3, <1>5 DEF Extended
    <2>2. olds[p].type = "s" => olds[p].index \in DOMAIN switches
      BY <2>1 DEF I, Infos
    <2>3. old[p] \in E \/ Matches(switches, t, old[p], olds[p])
      BY <1>3, <1>5
    <2>4. new[p] \in E \/ Matches(later, t, new[p], news[p])
      BY <1>1, <1>5, <2>1, <2>2, <2>3, MatchesLater
    <2> QED
      BY <2>4 DEF new, news
  <1>6. CASE new[p] = d
    BY <1>6 DEF new
  <1> QED
    BY <1>2, <1>4, <1>5, <1>6, ExtendedRange

-----------------------------------------------------------------------------
(* Links.                                                                  *)

\* A device is a port once only, and of one switch.
LEMMA OnePlace ==
  ASSUME NEW switches, NEW P, NEW I, Wired(switches, P, I),
         NEW s \in DOMAIN switches, NEW p \in 1 .. Len(switches[s].switchDevices),
         NEW t \in DOMAIN switches, NEW q \in 1 .. Len(switches[t].switchDevices),
         switches[s].switchDevices[p] = switches[t].switchDevices[q]
  PROVE  s = t /\ p = q
  <1>1. /\ OnSwitch(switches[s].switchDevices[p], s)
        /\ OnSwitch(switches[s].switchDevices[p], t)
    BY DEF Wired
  <1>2. s = t
    <2>1. [type |-> "s", index |-> s] = [type |-> "s", index |-> t]
      BY <1>1 DEF OnSwitch
    <2>2. [type |-> "s", index |-> s].index = [type |-> "s", index |-> t].index
      BY <2>1
    <2> QED
      BY <2>2
  <1> QED
    BY <1>2 DEF Wired

\* The port that was added.
LEMMA NewPort ==
  ASSUME NEW switches, NEW P, NEW I, Wired(switches, P, I),
         NEW s \in DOMAIN switches, NEW d, NEW i
  PROVE  /\ Len(switches[s].switchDevices) \in 0 .. Len(WithPort(switches, s, d, i)[s].switchDevices) - 1
         /\ WithPort(switches, s, d, i)[s].switchDevices[Len(switches[s].switchDevices) + 1] = d
         /\ WithPort(switches, s, d, i)[s].switchPortInfos[Len(switches[s].switchDevices) + 1] = i
  <1> DEFINE old == switches[s].switchDevices
             new == WithPort(switches, s, d, i)[s].switchDevices
             olds == switches[s].switchPortInfos
             news == WithPort(switches, s, d, i)[s].switchPortInfos
  <1>1. Extended(old, new, P, d, s, s) /\ Extended(olds, news, I, i, s, s)
    BY PortsAfter
  <1>2. Len(olds) = Len(old)
    BY DEF Wired
  <1> HIDE DEF old, new, olds, news
  <1>3. Len(old) \in 0 .. Len(new) - 1 /\ new[Len(old) + 1] = d /\ news[Len(old) + 1] = i
    BY <1>1, <1>2 DEF Extended
  <1> QED
    BY <1>3 DEF old, new, news

\* A port whose device, the only one in E, has information that matches.
LEMMA MatchedAtLast ==
  ASSUME NEW switches, NEW P, NEW I, Wired(switches, P, I), NEW E, NEW d,
         MatchedBut(switches, E \cup {d}),
         NEW s \in DOMAIN switches, NEW p \in 1 .. Len(switches[s].switchDevices),
         switches[s].switchDevices[p] = d,
         Matches(switches, s, d, switches[s].switchPortInfos[p])
  PROVE  MatchedBut(switches, E)
  <1> SUFFICES ASSUME NEW t \in DOMAIN switches, NEW q \in 1 .. Len(switches[t].switchDevices)
               PROVE  \/ switches[t].switchDevices[q] \in E
                      \/ Matches(switches, t, switches[t].switchDevices[q], switches[t].switchPortInfos[q])
    BY DEF MatchedBut
  <1>1. CASE switches[t].switchDevices[q] = d
    <2>1. s = t /\ p = q
      BY <1>1, OnePlace
    <2> QED
      BY <1>1, <2>1
  <1>2. CASE switches[t].switchDevices[q] # d
    BY <1>2 DEF MatchedBut
  <1> QED
    BY <1>1, <1>2

LEMMA MatchedIs ==
  ASSUME NEW switches
  PROVE  Matched(switches) <=> MatchedBut(switches, {})
  BY DEF Matched, MatchedBut

LEMMA PortedMore ==
  ASSUME NEW switches, NEW P, Ported(switches, P), NEW d, \A s \in DOMAIN switches : ~OnSwitch(d, s)
  PROVE  Ported(switches, P \cup {d})
  BY DEF Ported

LEMMA WiredMore ==
  ASSUME NEW switches, NEW P, NEW I, Wired(switches, P, I), NEW d
  PROVE  Wired(switches, P \cup {d}, I)
  <1>1. ASSUME NEW s \in DOMAIN switches
        PROVE  switches[s] \in [switchDevices : Seq(P \cup {d}), switchPortInfos : Seq(I)]
    <2> DEFINE ports == switches[s]
    <2>1. ports \in [switchDevices : Seq(P), switchPortInfos : Seq(I)]
      BY DEF Wired
    <2> HIDE DEF ports
    <2>2. ports.switchDevices \in Seq(P \cup {d})
      BY <2>1
    <2>3. ports \in [switchDevices : Seq(P \cup {d}), switchPortInfos : Seq(I)]
      BY <2>1, <2>2
    <2> QED
      BY <2>3 DEF ports
  <1> QED
    BY <1>1 DEF Wired

\* The information main gives ports.
LEMMA InfosAre ==
  ASSUME NEW S, NEW H
  PROVE  /\ \A h \in H : HostInfo(h) \in Infos(S, H) /\ HostInfo(h).type = "h" /\ HostInfo(h).index = h
         /\ \A s \in S, port \in Nat :
              /\ SwitchInfo(s, port) \in Infos(S, H)
              /\ SwitchInfo(s, port).type = "s"
              /\ SwitchInfo(s, port).index = s
              /\ SwitchInfo(s, port).port = port
  <1>1. ASSUME NEW h \in H
        PROVE  HostInfo(h) \in Infos(S, H)
    <2>1. HostInfo(h) \in [type : {"h"}, index : H, port : {0}]
      BY DEF HostInfo
    <2> QED
      BY <2>1 DEF Infos
  <1>2. ASSUME NEW s \in S, NEW port \in Nat
        PROVE  SwitchInfo(s, port) \in Infos(S, H)
    <2>1. SwitchInfo(s, port) \in [type : {"s"}, index : S, port : Nat]
      BY DEF SwitchInfo
    <2> QED
      BY <2>1 DEF Infos
  <1> QED
    BY <1>1, <1>2 DEF HostInfo, SwitchInfo

\* A link between switch s, at device d, and host h, at device o.
LEMMA LinkToHost ==
  ASSUME NEW switches, NEW P, NEW H, Wired(switches, P, Infos(DOMAIN switches, H)),
         Ported(switches, P), Matched(switches),
         NEW s \in DOMAIN switches, NEW h \in H, NEW d, NEW o, d \notin P, OtherEnd(d) = o,
         OnSwitch(d, s), NodeOf(o).type = "h", NodeOf(o).index - topoReader.switchNum = h
  PROVE  LET later == WithPort(switches, s, d, HostInfo(h))
         IN  /\ Wired(later, (P \cup {d}) \cup {o}, Infos(DOMAIN switches, H))
             /\ Ported(later, (P \cup {d}) \cup {o})
             /\ Matched(later)
             /\ Longer(switches, later)
  <1> DEFINE i == HostInfo(h)
             I == Infos(DOMAIN switches, H)
             later == WithPort(switches, s, d, i)
  <1>1. i \in I /\ i.type = "h" /\ i.index = h
    BY InfosAre
  <1>2. Longer(switches, later) /\ DOMAIN later = DOMAIN switches
    <2>1. Longer(switches, later)
      BY WithPortLonger
    <2> HIDE DEF later
    <2> QED
      BY <2>1 DEF Longer
  <1>3. Wired(later, P \cup {d}, I)
    BY <1>1, WithPortWired
  <1>4. Ported(later, P \cup {d})
    BY WithPortPorted
  <1>5. MatchedBut(later, {} \cup {d})
    BY MatchedIs, WithPortMatched
  <1>6. /\ Len(switches[s].switchDevices) \in 0 .. Len(later[s].switchDevices) - 1
        /\ later[s].switchDevices[Len(switches[s].switchDevices) + 1] = d
        /\ later[s].switchPortInfos[Len(switches[s].switchDevices) + 1] = i
    BY NewPort
  <1>7. Matches(later, s, d, i)
    <2> HIDE DEF i
    <2> QED
      BY <1>1 DEF Matches
  <1> DEFINE p == Len(switches[s].switchDevices) + 1
             new == later[s].switchDevices
  <1>8. p \in 1 .. Len(later[s].switchDevices)
    <2> DEFINE n == Len(switches[s].switchDevices)
               m == Len(later[s].switchDevices)
    <2>1. n \in 0 .. m - 1 /\ m \in Nat
      BY <1>2, <1>6 DEF Longer
    <2> HIDE DEF n, m
    <2>2. n + 1 \in 1 .. m
      BY <2>1
    <2> QED
      BY <2>2 DEF n, m
  <1>9. Matched(later)
    <2> HIDE DEF later, p, i, I
    <2>1. later[s].switchDevices[p] = d /\ later[s].switchPortInfos[p] = i
      BY <1>6 DEF p
    <2>2. s \in DOMAIN later
      BY <1>2
    <2>3. MatchedBut(later, {})
      BY <1>3, <1>5, <1>7, <1>8, <2>1, <2>2, MatchedAtLast
    <2> QED
      BY <2>3, MatchedIs
  <1>10. \A t \in DOMAIN later : ~OnSwitch(o, t)
    BY DEF OnSwitch
  <1> HIDE DEF later, I
  <1>11. Wired(later, (P \cup {d}) \cup {o}, I) /\ Ported(later, (P \cup {d}) \cup {o})
    BY <1>3, <1>4, <1>10, WiredMore, PortedMore
  <1> QED
    BY <1>2, <1>9, <1>11 DEF later, I

\* A link between switches a, at device d, and b, at device o.
LEMMA LinkToSwitch ==
  ASSUME NEW switches, NEW P, NEW H, Wired(switches, P, Infos(DOMAIN switches, H)),
         Ported(switches, P), Matched(switches),
         NEW a \in DOMAIN switches, NEW b \in DOMAIN switches, NEW d, NEW o,
         d \notin P, o \notin P, d # o, OtherEnd(d) = o, OtherEnd(o) = d,
         OnSwitch(d, a), OnSwitch(o, b)
  PROVE  LET later == WithPort(WithPort(switches, a, d, SwitchInfo(b, Len(switches[b].switchDevices))),
                               b, o, SwitchInfo(a, Len(switches[a].switchDevices)))
         IN  /\ Wired(later, (P \cup {d}) \cup {o}, Infos(DOMAIN switches, H))
             /\ Ported(later, (P \cup {d}) \cup {o})
             /\ Matched(later)
             /\ Longer(switches, later)
  <1> DEFINE m == Len(switches[a].switchDevices)
             n == Len(switches[b].switchDevices)
             i == SwitchInfo(b, n)
             j == SwitchInfo(a, m)
             I == Infos(DOMAIN switches, H)
             between == WithPort(switches, a, d, i)
             later == WithPort(between, b, o, j)
  <1>1. /\ Longer(switches, between) /\ DOMAIN between = DOMAIN switches
        /\ m \in Nat /\ n \in Nat
    <2>1. Longer(switches, between)
      BY WithPortLonger
    <2> HIDE DEF between
    <2> QED
      BY <2>1 DEF Longer
  <1>2. i \in I /\ j \in I
    BY <1>1, InfosAre
  <1>3. /\ i.type = "s" /\ i.index = b /\ i.port = n
        /\ j.type = "s" /\ j.index = a /\ j.port = m
    BY <1>1, InfosAre
  <1>4. Wired(between, P \cup {d}, I) /\ Ported(between, P \cup {d}) /\ MatchedBut(between, {} \cup {d})
    BY <1>2, MatchedIs, WithPortWired, WithPortPorted, WithPortMatched
  <1>5. m \in 0 .. Len(between[a].switchDevices) - 1
        /\ between[a].switchDevices[m + 1] = d
        /\ between[a].switchPortInfos[m + 1] = i
    BY NewPort
  <1>6. I = Infos(DOMAIN between, H)
    BY <1>1
  <1>7. a # b => between[b].switchDevices = switches[b].switchDevices
    <2>1. a # b => between[b] = switches[b]
      BY DEF WithPort
    <2> QED
      BY <2>1
  <1> DEFINE k == Len(between[b].switchDevices)
  <1> HIDE DEF m, n, i, j, I, between
  <1>8. o \notin P \cup {d} /\ b \in DOMAIN between /\ a \in DOMAIN between
    BY <1>1
  <1>9. /\ Wired(later, (P \cup {d}) \cup {o}, I)
        /\ Ported(later, (P \cup {d}) \cup {o})
        /\ Longer(between, later) /\ DOMAIN later = DOMAIN switches
    <2>1. Wired(later, (P \cup {d}) \cup {o}, I)
      BY <1>2, <1>4, <1>8, WithPortWired
    <2>2. Ported(later, (P \cup {d}) \cup {o})
      BY <1>4, <1>8, WithPortPorted
    <2>3. Longer(between, later)
      BY <1>4, <1>8, WithPortLonger
    <2> HIDE DEF later
    <2> QED
      BY <1>1, <2>1, <2>2, <2>3 DEF Longer
  <1>10. MatchedBut(later, ({} \cup {d}) \cup {o})
    <2>1. Wired(between, P \cup {d}, Infos(DOMAIN between, H))
      BY <1>4, <1>6
    <2> QED
      BY <2>1, <1>4, <1>8, WithPortMatched
  <1>11. /\ k \in 0 .. Len(later[b].switchDevices) - 1
         /\ later[b].switchDevices[k + 1] = o
         /\ later[b].switchPortInfos[k + 1] = j
    BY <1>4, <1>8, NewPort
  <1>12. /\ m \in 0 .. Len(later[a].switchDevices) - 1
         /\ later[a].switchDevices[m + 1] = d
         /\ later[a].switchPortInfos[m + 1] = i
    <2>1. m \in 0 .. Len(later[a].switchDevices) - 1 /\ later[a].switchDevices[m + 1] = d
      BY <1>5, <1>8, <1>9, PortStays
    <2>2. Extended(between[a].switchPortInfos, later[a].switchPortInfos, I, j, a, b)
      BY <1>4, <1>8, PortsAfter
    <2>3. m + 1 \in 1 .. Len(between[a].switchPortInfos)
      <3>1. Len(between[a].switchPortInfos) = Len(between[a].switchDevices)
        BY <1>4, <1>8 DEF Wired
      <3> DEFINE l == Len(between[a].switchDevices)
      <3>2. l \in Nat /\ m \in 0 .. l - 1
        BY <1>5, <1>8, <1>9 DEF Longer
      <3> HIDE DEF l
      <3>3. m + 1 \in 1 .. l
        BY <3>2
      <3> QED
        BY <3>1, <3>3 DEF l
    <2> QED
      BY <1>5, <2>1, <2>2, <2>3 DEF Extended
  <1>13. a # b => k = n
    BY <1>7 DEF n
  <1>14. Matches(later, a, d, i) /\ Matches(later, b, o, j)
    <2>1. /\ NodeOf(d).type = "s" /\ NodeOf(d).index = a
          /\ NodeOf(o).type = "s" /\ NodeOf(o).index = b
      BY DEF OnSwitch
    <2> HIDE DEF later, k
    <2> QED
      BY <1>3, <1>11, <1>12, <1>13, <2>1 DEF Matches
  <1>15. m + 1 \in 1 .. Len(later[a].switchDevices) /\ k + 1 \in 1 .. Len(later[b].switchDevices)
    <2>1. Len(later[a].switchDevices) \in Nat /\ Len(later[b].switchDevices) \in Nat
      BY <1>8, <1>9 DEF Longer
    <2> DEFINE x == Len(later[a].switchDevices)
               y == Len(later[b].switchDevices)
    <2>2. x \in Nat /\ y \in Nat /\ m \in 0 .. x - 1 /\ k \in 0 .. y - 1
      BY <1>11, <1>12, <2>1
    <2> HIDE DEF x, y, k
    <2>3. m + 1 \in 1 .. x /\ k + 1 \in 1 .. y
      BY <2>2
    <2> QED
      BY <2>3 DEF x, y
  <1>16. Matched(later)
    <2> HIDE DEF later, k
    <2>1. a \in DOMAIN later /\ b \in DOMAIN later
      BY <1>9
    <2>2. MatchedBut(later, {} \cup {d})
      BY <1>9, <1>10, <1>11, <1>14, <1>15, <2>1, MatchedAtLast
    <2>3. MatchedBut(later, {})
      BY <1>9, <1>12, <1>14, <1>15, <2>1, <2>2, MatchedAtLast
    <2> QED
      BY <2>3, MatchedIs
  <1>17. Longer(switches, later)
    <2> HIDE DEF later
    <2> QED
      BY <1>1, <1>9 DEF Longer
  <1> HIDE DEF later
  <1> QED
    BY <1>9, <1>16, <1>17 DEF later, between, I, i, j, m, n

-----------------------------------------------------------------------------
(* The invariant.                                                          *)

\* The devices made so far, and what can be said of a port.
Present == (1 .. Len(rates)) \X {0, 1}
AllInfos == Infos(DOMAIN switchNodes, DOMAIN hostNodes)

\* The switches and their ports.
SwitchesInv ==
  /\ Wired(switchNodes, Present, AllInfos)
  /\ Ported(switchNodes, Present)
  /\ Matched(switchNodes)

\* The links, which have no end on a switch that is not there.
LinksInv ==
  /\ rates \in Seq({ChannelRate(topoReader.links, n) : n \in DOMAIN topoReader.links})
  /\ 1 .. Len(rates) \subseteq DOMAIN topoReader.links
  /\ \A d \in Present : NodeOf(d).type = "s" => NodeOf(d).index \in DOMAIN switchNodes

\* A host with devices P: all of them lead to switches, the only one to the
\* port the host has noted.
Linked(switches, P, host) ==
  /\ host \in [hostDevice : Seq(P), linkSwitchIndex : (DOMAIN switches) \cup {-1},
               linkSwitchPort : Int, address : Nat]
  /\ \A p \in 1 .. Len(host.hostDevice) : NodeOf(OtherEnd(host.hostDevice[p])).type = "s"
  /\ host.hostDevice # <<>> => host.linkSwitchIndex \in DOMAIN switches
  /\ Len(host.hostDevice) = 1 =>
       /\ host.linkSwitchPort \in 0 .. Len(switches[host.linkSwitchIndex].switchDevices) - 1
       /\ OtherEnd(host.hostDevice[1]) =
            switches[host.linkSwitchIndex].switchDevices[host.linkSwitchPort + 1]
  /\ host.address # 0 => host.hostDevice # <<>>

HostsInv == \A h \in DOMAIN hostNodes : Linked(switchNodes, Present, hostNodes[h])

\* What main has done by each of its phases.
StageInv ==
  /\ podNum \in PodNums \cup {0}
  /\ phase \in {"start", "file", "read", "tables", "running", "aborted", "crashed"}
  /\ phase \in {"start", "file"} => rates = <<>>
  /\ phase \in {"start", "file", "read"} => m_ports = <<>> /\ configured = <<>>
  /\ phase \in {"start", "file", "read", "tables"} => packet = NoPacket
  /\ phase \in {"tables", "running"} => \A h \in DOMAIN hostNodes : hostNodes[h].address # 0
  /\ phase = "running" => DOMAIN m_ports = DOMAIN switchNodes

\* The devices of the switches and the globals they were created with.
Paths == NetworkFunctions \cup {""}
Globals == [g_networkFunc : NetworkFunctions, g_p4JsonPath : Paths, g_p4MatchTypePath : Paths,
            g_flowTableDir : Paths, g_flowTablePath : Paths \X Nat]

DevicesInv ==
  /\ configured \in Seq(Globals)
  /\ DOMAIN m_ports = 0 .. Len(configured) - 1
  /\ DOMAIN m_ports \subseteq DOMAIN switchNodes
  /\ \A s \in DOMAIN m_ports : m_ports[s] = switchNodes[s].switchDevices
  /\ FunctionsAsNamed

\* Where a packet is and how it came there.
Hops == [switch : DOMAIN switchNodes, inPort : Nat, outPort : Nat]

Port(s, port) == switchNodes[s].switchDevices[port + 1]

OnPath(p) ==
  /\ p \in [state : {"travelling", "delivered", "ignored", "dropped"}, to : Nat, at : Present,
            visited : Seq(Hops)]
  /\ \A k \in 1 .. Len(p.visited) :
       /\ p.visited[k].inPort \in 0 .. Len(switchNodes[p.visited[k].switch].switchDevices) - 1
       /\ p.visited[k].outPort \in 0 .. Len(switchNodes[p.visited[k].switch].switchDevices) - 1
  /\ \A k \in 1 .. Len(p.visited) - 1 :
       Port(p.visited[k + 1].switch, p.visited[k + 1].inPort) =
         OtherEnd(Port(p.visited[k].switch, p.visited[k].outPort))
  /\ IF p.visited = <<>> THEN NodeOf(p.at).type = "s"
     ELSE p.at = OtherEnd(Port(p.visited[Len(p.visited)].switch, p.visited[Len(p.visited)].outPort))
  /\ p.state = "delivered" =>
       /\ NodeOf(p.at).type = "h"
       /\ hostNodes[NodeOf(p.at).index - topoReader.switchNum].address = p.to

PacketInv == packet # NoPacket => DOMAIN m_ports = DOMAIN switchNodes /\ OnPath(packet)

IInv == SwitchesInv /\ LinksInv /\ HostsInv /\ StageInv /\ DevicesInv /\ PacketInv

-----------------------------------------------------------------------------
(* Hosts.                                                                  *)

LEMMA LinkedLater ==
  ASSUME NEW switches, NEW later, Longer(switches, later), NEW P, NEW Q, P \subseteq Q,
         NEW host, Linked(switches, P, host)
  PROVE  Linked(later, Q, host)
  <1> DEFINE devices == host.hostDevice
             s == host.linkSwitchIndex
             port == host.linkSwitchPort
  <1>1. DOMAIN later = DOMAIN switches
    BY DEF Longer
  <1>2. host \in [hostDevice : Seq(Q), linkSwitchIndex : (DOMAIN later) \cup {-1},
                  linkSwitchPort : Int, address : Nat]
    BY <1>1 DEF Linked
  <1>3. ASSUME Len(devices) = 1
        PROVE  /\ port \in 0 .. Len(later[s].switchDevices) - 1
               /\ OtherEnd(devices[1]) = later[s].switchDevices[port + 1]
    <2>1. s \in DOMAIN switches
      <3>1. devices # <<>>
        BY <1>3
      <3> QED
        BY <3>1 DEF Linked
    <2>2. /\ port \in 0 .. Len(switches[s].switchDevices) - 1
          /\ OtherEnd(devices[1]) = switches[s].switchDevices[port + 1]
      BY <1>3 DEF Linked
    <2> HIDE DEF devices, s, port
    <2> QED
      BY <2>1, <2>2, PortStays
  <1> QED
    BY <1>1, <1>2, <1>3 DEF Linked

LEMMA HostRecord ==
  ASSUME NEW D, NEW S, NEW device \in D, NEW s \in S, NEW port \in Int, NEW a \in Nat
  PROVE  [hostDevice |-> device, linkSwitchIndex |-> s, linkSwitchPort |-> port, address |-> a]
           \in [hostDevice : D, linkSwitchIndex : S, linkSwitchPort : Int, address : Nat]
  OBVIOUS

\* A host that gets a link to switch s, where the device o leads.
LEMMA LinkedNew ==
  ASSUME NEW switches, NEW later, Longer(switches, later), NEW P, NEW Q, P \subseteq Q,
         NEW host, Linked(switches, P, host), NEW s \in DOMAIN switches, NEW o \in Q,
         Len(switches[s].switchDevices) \in 0 .. Len(later[s].switchDevices) - 1,
         later[s].switchDevices[Len(switches[s].switchDevices) + 1] = OtherEnd(o),
         NodeOf(OtherEnd(o)).type = "s", NEW new,
         new = [hostDevice |-> Append(host.hostDevice, o), linkSwitchIndex |-> s,
                linkSwitchPort |-> Len(switches[s].switchDevices), address |-> host.address]
  PROVE  Linked(later, Q, new)
  <1> DEFINE m == Len(switches[s].switchDevices)
  <1>1. DOMAIN later = DOMAIN switches /\ m \in Nat
    BY DEF Longer
  <1>2. host \in [hostDevice : Seq(P), linkSwitchIndex : (DOMAIN switches) \cup {-1},
                  linkSwitchPort : Int, address : Nat]
    BY DEF Linked
  <1>3. \A p \in 1 .. Len(host.hostDevice) : NodeOf(OtherEnd(host.hostDevice[p])).type = "s"
    BY DEF Linked
  <1> DEFINE old == host.hostDevice
             devices == new.hostDevice
  <1>4. old \in Seq(P) /\ old \in Seq(Q)
    BY <1>2
  <1>5. /\ devices = Append(old, o) /\ new.linkSwitchIndex = s /\ new.linkSwitchPort = m
        /\ new.address \in Nat
    BY <1>2
  <1>6. new = [hostDevice |-> devices, linkSwitchIndex |-> s, linkSwitchPort |-> m, address |-> new.address]
    BY <1>2
  <1> HIDE DEF old, devices, m
  <1>7. /\ devices \in Seq(Q) /\ Len(devices) = Len(old) + 1 /\ Len(old) \in Nat
        /\ \A p \in 1 .. Len(old) : devices[p] = old[p]
        /\ devices[Len(old) + 1] = o
        /\ devices # <<>>
    BY <1>4, <1>5, AppendProperties, LenProperties
  <1>8. ASSUME NEW p \in 1 .. Len(devices)
        PROVE  NodeOf(OtherEnd(devices[p])).type = "s"
    <2>1. CASE p \in 1 .. Len(old)
      BY <1>3, <1>7, <2>1 DEF old
    <2>2. CASE p = Len(old) + 1
      BY <1>7, <2>2
    <2> QED
      BY <1>7, <2>1, <2>2
  <1>9. ASSUME Len(devices) = 1
        PROVE  devices[1] = o
    BY <1>7, <1>9
  <1>10. new \in [hostDevice : Seq(Q), linkSwitchIndex : (DOMAIN later) \cup {-1},
                  linkSwitchPort : Int, address : Nat]
    <2> DEFINE indices == (DOMAIN later) \cup {-1}
               a == new.address
    <2>1. s \in indices /\ m \in Int /\ a \in Nat
      BY <1>1, <1>5
    <2>2. new = [hostDevice |-> devices, linkSwitchIndex |-> s, linkSwitchPort |-> m, address |-> a]
      BY <1>6
    <2> HIDE DEF indices, a
    <2>3. devices \in Seq(Q)
      BY <1>7
    <2>4. [hostDevice |-> devices, linkSwitchIndex |-> s, linkSwitchPort |-> m, address |-> a]
            \in [hostDevice : Seq(Q), linkSwitchIndex : indices, linkSwitchPort : Int, address : Nat]
      BY <2>1, <2>3, HostRecord
    <2> QED
      BY <2>2, <2>4 DEF indices
  <1>11. /\ m \in 0 .. Len(later[s].switchDevices) - 1
         /\ later[s].switchDevices[m + 1] = OtherEnd(o)
    BY DEF m
  <1> QED
    BY <1>1, <1>5, <1>7, <1>8, <1>9, <1>10, <1>11 DEF Linked, devices

-----------------------------------------------------------------------------
(* The next link.                                                          *)

\* What becomes of the switches and the hosts when devices d and o are added.
LinkAdded(switches, hosts, P) ==
  /\ DOMAIN switches = DOMAIN switchNodes
  /\ DOMAIN hosts = DOMAIN hostNodes
  /\ Wired(switches, P, AllInfos)
  /\ Ported(switches, P)
  /\ Matched(switches)
  /\ \A h \in DOMAIN hosts : Linked(switches, P, hosts[h])

LEMMA OtherEnds ==
  ASSUME NEW n
  PROVE  OtherEnd(<<n, 0>>) = <<n, 1>> /\ OtherEnd(<<n, 1>>) = <<n, 0>> /\ <<n, 0>> # <<n, 1>>
  BY DEF OtherEnd

LEMMA EndsOfLink ==
  ASSUME NEW n, NEW link, link = topoReader.links[n]
  PROVE  /\ NodeOf(<<n, 0>>) = [type |-> link.fromType, index |-> link.from]
         /\ NodeOf(<<n, 1>>) = [type |-> link.toType, index |-> link.to]
  BY DEF NodeOf

LEMMA HostsLater ==
  ASSUME HostsInv, NEW later, Longer(switchNodes, later), NEW Q, Present \subseteq Q
  PROVE  \A h \in DOMAIN hostNodes : Linked(later, Q, hostNodes[h])
  BY LinkedLater DEF HostsInv

\* Devices d of a switch and o of a host.
LEMMA HostLinkAdded ==
  ASSUME SwitchesInv, HostsInv, NEW s \in DOMAIN switchNodes, NEW h \in DOMAIN hostNodes,
         NEW d, NEW o, d \notin Present, OtherEnd(d) = o, OtherEnd(o) = d,
         OnSwitch(d, s), NodeOf(o).type = "h", NodeOf(o).index - topoReader.switchNum = h
  PROVE  LinkAdded(WithPort(switchNodes, s, d, HostInfo(h)), WithHostLink(h, o, s),
                   (Present \cup {d}) \cup {o})
  <1> DEFINE later == WithPort(switchNodes, s, d, HostInfo(h))
             Q == (Present \cup {d}) \cup {o}
             hosts == WithHostLink(h, o, s)
             m == Len(switchNodes[s].switchDevices)
  <1>1. /\ Wired(switchNodes, Present, Infos(DOMAIN switchNodes, DOMAIN hostNodes))
        /\ Ported(switchNodes, Present) /\ Matched(switchNodes)
    BY DEF SwitchesInv, AllInfos
  <1>2. /\ Wired(later, Q, AllInfos) /\ Ported(later, Q) /\ Matched(later)
        /\ Longer(switchNodes, later)
    BY <1>1, LinkToHost DEF AllInfos
  <1>3. /\ m \in 0 .. Len(later[s].switchDevices) - 1
        /\ later[s].switchDevices[m + 1] = d
    BY <1>1, NewPort
  <1>4. NodeOf(d).type = "s"
    BY DEF OnSwitch
  <1>5. /\ DOMAIN hosts = DOMAIN hostNodes
        /\ \A g \in DOMAIN hostNodes : g # h => hosts[g] = hostNodes[g]
        /\ hosts[h] = [hostDevice |-> Append(hostNodes[h].hostDevice, o), linkSwitchIndex |-> s,
                       linkSwitchPort |-> Len(switchNodes[s].switchDevices),
                       address |-> hostNodes[h].address]
    BY DEF WithHostLink, PortNumber
  <1> HIDE DEF later, hosts
  <1>6. \A g \in DOMAIN hostNodes : Linked(later, Q, hostNodes[g])
    BY <1>2, HostsLater
  <1>7. Linked(later, Q, hosts[h])
    <2>1. Linked(switchNodes, Present, hostNodes[h]) /\ o \in Q /\ Present \subseteq Q
      BY DEF HostsInv
    <2>2. /\ Len(switchNodes[s].switchDevices) \in 0 .. Len(later[s].switchDevices) - 1
          /\ later[s].switchDevices[Len(switchNodes[s].switchDevices) + 1] = OtherEnd(o)
          /\ NodeOf(OtherEnd(o)).type = "s"
      BY <1>3, <1>4
    <2> DEFINE new == hosts[h]
               old == hostNodes[h]
    <2>3. new = [hostDevice |-> Append(old.hostDevice, o), linkSwitchIndex |-> s,
                 linkSwitchPort |-> Len(switchNodes[s].switchDevices), address |-> old.address]
      BY <1>5
    <2>4. Linked(switchNodes, Present, old)
      BY <2>1
    <2> HIDE DEF Q, new, old
    <2>5. Linked(later, Q, new)
      BY <1>2, <2>1, <2>2, <2>3, <2>4, LinkedNew
    <2> QED
      BY <2>5 DEF new
  <1>8. \A g \in DOMAIN hosts : Linked(later, Q, hosts[g])
    BY <1>5, <1>6, <1>7
  <1>9. DOMAIN later = DOMAIN switchNodes
    BY <1>2 DEF Longer
  <1> QED
    BY <1>2, <1>5, <1>8, <1>9 DEF LinkAdded, later, hosts

LEMMA SwitchLinkAdded ==
  ASSUME SwitchesInv, HostsInv, NEW a \in DOMAIN switchNodes, NEW b \in DOMAIN switchNodes,
         NEW d, NEW o, d \notin Present, o \notin Present, d # o, OtherEnd(d) = o, OtherEnd(o) = d,
         OnSwitch(d, a), OnSwitch(o, b)
  PROVE  LinkAdded(WithPort(WithPort(switchNodes, a, d, SwitchInfo(b, PortNumber(b))),
                            b, o, SwitchInfo(a, PortNumber(a))),
                   hostNodes, (Present \cup {d}) \cup {o})
  <1> DEFINE later == WithPort(WithPort(switchNodes, a, d, SwitchInfo(b, PortNumber(b))),
                               b, o, SwitchInfo(a, PortNumber(a)))
             Q == (Present \cup {d}) \cup {o}
  <1>1. /\ Wired(switchNodes, Present, Infos(DOMAIN switchNodes, DOMAIN hostNodes))
        /\ Ported(switchNodes, Present) /\ Matched(switchNodes)
    BY DEF SwitchesInv, AllInfos
  <1>2. /\ Wired(later, Q, AllInfos) /\ Ported(later, Q) /\ Matched(later)
        /\ Longer(switchNodes, later)
    BY <1>1, LinkToSwitch DEF AllInfos, PortNumber
  <1> HIDE DEF later
  <1>3. \A g \in DOMAIN hostNodes : Linked(later, Q, hostNodes[g])
    <2>1. Present \subseteq Q
      OBVIOUS
    <2> QED
      BY <1>2, <2>1, HostsLater
  <1>4. DOMAIN later = DOMAIN switchNodes
    BY <1>2 DEF Longer
  <1> QED
    BY <1>2, <1>3, <1>4 DEF LinkAdded, later

LEMMA InvAgain ==
  ASSUME topoReader' = topoReader, LinkAdded(switchNodes', hostNodes', Present')
  PROVE  SwitchesInv' /\ HostsInv'
  <1>1. \A d : NodeOf(d)' = NodeOf(d)
    BY DEF NodeOf
  <1>2. AllInfos' = AllInfos
    BY DEF LinkAdded, AllInfos
  <1>3. /\ Wired(switchNodes', Present', AllInfos')
        /\ Ported(switchNodes', Present')
        /\ Matched(switchNodes')
        /\ \A h \in DOMAIN hostNodes' : Linked(switchNodes', Present', hostNodes'[h])
    BY <1>2 DEF LinkAdded
  <1>4. Wired(switchNodes, Present, AllInfos)'
    BY <1>3 DEF Wired, OnSwitch, NodeOf
  <1>5. Ported(switchNodes, Present)'
    BY <1>3 DEF Ported, OnSwitch, NodeOf
  <1>6. Matched(switchNodes)'
    BY <1>3 DEF Matched, Matches, NodeOf
  <1>7. HostsInv'
    BY <1>3 DEF HostsInv, Linked, NodeOf
  <1> QED
    BY <1>4, <1>5, <1>6, <1>7 DEF SwitchesInv

\* The devices of the next link are new.
LEMMA NextDevices ==
  ASSUME LinksInv, NEW n, n = Len(rates) + 1
  PROVE  <<n, 0>> \notin Present /\ <<n, 1>> \notin Present
  <1>1. Len(rates) \in Nat
    BY LenProperties DEF LinksInv
  <1> QED
    BY <1>1 DEF Present

LEMMA LinkInstalled ==
  ASSUME IInv, NEW n, n = Len(rates) + 1, Installed(n, topoReader.links[n])
  PROVE  /\ LinkAdded(switchNodes', hostNodes', (Present \cup {<<n, 0>>}) \cup {<<n, 1>>})
         /\ \A d \in {<<n, 0>>, <<n, 1>>} :
              NodeOf(d).type = "s" => NodeOf(d).index \in DOMAIN switchNodes
  <1> DEFINE d == <<n, 0>>
             o == <<n, 1>>
             link == topoReader.links[n]
             Q == (Present \cup {d}) \cup {o}
  <1>1. OtherEnd(d) = o /\ OtherEnd(o) = d /\ d # o
    BY OtherEnds
  <1>2. /\ NodeOf(d) = [type |-> link.fromType, index |-> link.from]
        /\ NodeOf(o) = [type |-> link.toType, index |-> link.to]
    BY EndsOfLink
  <1>3. d \notin Present /\ o \notin Present
    BY NextDevices DEF IInv
  <1>4. SwitchesInv /\ HostsInv
    BY DEF IInv
  <1>5. CASE SwitchToSwitch(n, link)
    <2> DEFINE a == link.from
               b == link.to
    <2>1. /\ a \in DOMAIN switchNodes /\ b \in DOMAIN switchNodes
          /\ link.fromType = "s" /\ link.toType = "s"
          /\ switchNodes' = WithPort(WithPort(switchNodes, a, d, SwitchInfo(b, PortNumber(b))),
                                     b, o, SwitchInfo(a, PortNumber(a)))
          /\ hostNodes' = hostNodes
      BY <1>5 DEF SwitchToSwitch, IsSwitch
    <2>2. OnSwitch(d, a) /\ OnSwitch(o, b)
      BY <1>2, <2>1 DEF OnSwitch
    <2>3. \A e \in {d, o} : NodeOf(e).type = "s" => NodeOf(e).index \in DOMAIN switchNodes
      BY <1>2, <2>1
    <2> HIDE DEF a, b, d, o
    <2>4. LinkAdded(switchNodes', hostNodes', Q)
      BY <1>1, <1>3, <1>4, <2>1, <2>2, SwitchLinkAdded
    <2> QED
      BY <2>3, <2>4 DEF d, o
  <1>6. CASE /\ IsSwitch(link.fromType, link.from) /\ IsHost(link.toType, link.to)
             /\ SwitchToHost(n, 0, link.from, link.to - topoReader.switchNum)
    <2> DEFINE s == link.from
               h == link.to - topoReader.switchNum
    <2>1. /\ s \in DOMAIN switchNodes /\ h \in DOMAIN hostNodes
          /\ link.fromType = "s" /\ link.toType = "h"
          /\ switchNodes' = WithPort(switchNodes, s, d, HostInfo(h))
          /\ hostNodes' = WithHostLink(h, o, s)
      BY <1>6 DEF SwitchToHost, IsSwitch, IsHost
    <2>2. OnSwitch(d, s) /\ NodeOf(o).type = "h" /\ NodeOf(o).index - topoReader.switchNum = h
      BY <1>2, <2>1 DEF OnSwitch
    <2>3. \A e \in {d, o} : NodeOf(e).type = "s" => NodeOf(e).index \in DOMAIN switchNodes
      BY <1>2, <2>1
    <2> HIDE DEF s, h, d, o
    <2>4. LinkAdded(switchNodes', hostNodes', Q)
      BY <1>1, <1>3, <1>4, <2>1, <2>2, HostLinkAdded
    <2> QED
      BY <2>3, <2>4 DEF d, o
  <1>7. CASE /\ IsHost(link.fromType, link.from) /\ IsSwitch(link.toType, link.to)
             /\ SwitchToHost(n, 1, link.to, link.from - topoReader.switchNum)
    <2> DEFINE s == link.to
               h == link.from - topoReader.switchNum
    <2>1. /\ s \in DOMAIN switchNodes /\ h \in DOMAIN hostNodes
          /\ link.fromType = "h" /\ link.toType = "s"
          /\ switchNodes' = WithPort(switchNodes, s, o, HostInfo(h))
          /\ hostNodes' = WithHostLink(h, d, s)
      BY <1>7 DEF SwitchToHost, IsSwitch, IsHost
    <2>2. OnSwitch(o, s) /\ NodeOf(d).type = "h" /\ NodeOf(d).index - topoReader.switchNum = h
      BY <1>2, <2>1 DEF OnSwitch
    <2>3. \A e \in {d, o} : NodeOf(e).type = "s" => NodeOf(e).index \in DOMAIN switchNodes
      BY <1>2, <2>1
    <2>4. Q = (Present \cup {o}) \cup {d}
      OBVIOUS
    <2> HIDE DEF s, h, d, o, Q
    <2>5. LinkAdded(switchNodes', hostNodes', (Present \cup {o}) \cup {d})
      BY <1>1, <1>3, <1>4, <2>1, <2>2, HostLinkAdded
    <2> QED
      BY <2>3, <2>4, <2>5 DEF d, o, Q
  <1> QED
    BY <1>5, <1>6, <1>7 DEF Installed

LEMMA InstallLinkInv == ASSUME IInv, InstallLink PROVE IInv'
  <1> DEFINE n == Len(rates) + 1
             R == {ChannelRate(topoReader.links, k) : k \in DOMAIN topoReader.links}
  <1>1. /\ phase = "read" /\ n \in DOMAIN topoReader.links
        /\ Installed(n, topoReader.links[n])
        /\ rates' = Append(rates, ChannelRate(topoReader.links, n))
        /\ UNCHANGED <<phase, p4src, podNum, file, topoReader, flowTables, m_ports, configured, packet>>
    BY DEF InstallLink
  <1>2. rates \in Seq(R) /\ 1 .. Len(rates) \subseteq DOMAIN topoReader.links
    BY DEF IInv, LinksInv
  <1>3. rates' \in Seq(R) /\ Len(rates') = n /\ n \in Nat /\ n > 0
    BY <1>1, <1>2, AppendProperties, LenProperties
  <1>4. /\ LinkAdded(switchNodes', hostNodes', (Present \cup {<<n, 0>>}) \cup {<<n, 1>>})
        /\ \A d \in {<<n, 0>>, <<n, 1>>} :
             NodeOf(d).type = "s" => NodeOf(d).index \in DOMAIN switchNodes
    BY <1>1, LinkInstalled
  <1>5. 1 .. Len(rates') = (1 .. Len(rates)) \cup {n}
    <2>1. Len(rates) \in Nat
      BY <1>2, LenProperties
    <2> QED
      BY <1>3, <2>1
  <1> HIDE DEF n, R
  <1>6. Present' = (Present \cup {<<n, 0>>}) \cup {<<n, 1>>}
    BY <1>5 DEF Present
  <1>7. SwitchesInv' /\ HostsInv'
    BY <1>1, <1>4, <1>6, InvAgain
  <1>8. LinksInv'
    <2>1. DOMAIN switchNodes' = DOMAIN switchNodes
      BY <1>4 DEF LinkAdded
    <2>2. \A d : NodeOf(d)' = NodeOf(d)
      BY <1>1 DEF NodeOf
    <2>3. ASSUME NEW d \in Present', NodeOf(d)'.type = "s"
          PROVE  NodeOf(d)'.index \in DOMAIN switchNodes'
      <3>1. NodeOf(d).type = "s"
        BY <2>2, <2>3
      <3>2. d \in Present \/ d \in {<<n, 0>>, <<n, 1>>}
        BY <1>6, <2>3
      <3>3. NodeOf(d).index \in DOMAIN switchNodes
        BY <1>4, <3>1, <3>2 DEF IInv, LinksInv
      <3> QED
        BY <2>1, <2>2, <3>3
    <2>4. rates' \in Seq({ChannelRate(topoReader.links, k) : k \in DOMAIN topoReader.links}')
      BY <1>1, <1>3 DEF R, ChannelRate
    <2>5. 1 .. Len(rates') \subseteq DOMAIN topoReader'.links
      BY <1>1, <1>2, <1>5
    <2> QED
      BY <2>3, <2>4, <2>5 DEF LinksInv
  <1>9. /\ m_ports = <<>> /\ configured = <<>> /\ packet = NoPacket
        /\ StageInv
    BY <1>1 DEF IInv, StageInv
  <1>10. StageInv'
    BY <1>1, <1>9 DEF StageInv
  <1>11. DevicesInv'
    <2>1. FunctionsAsNamed'
      BY <1>1 DEF IInv, DevicesInv, FunctionsAsNamed
    <2>2. configured' \in Seq(Globals) /\ DOMAIN m_ports' = 0 .. Len(configured') - 1
      BY <1>1 DEF IInv, DevicesInv
    <2>3. DOMAIN m_ports' = {}
      BY <1>1, <1>9
    <2> QED
      BY <2>1, <2>2, <2>3 DEF DevicesInv
  <1>12. PacketInv'
    BY <1>1, <1>9 DEF PacketInv, NoPacket
  <1> QED
    BY <1>7, <1>8, <1>10, <1>11, <1>12 DEF IInv

-----------------------------------------------------------------------------
(* The other steps.                                                        *)

LEMMA NetworkStays ==
  ASSUME IInv, UNCHANGED <<topoReader, switchNodes, hostNodes, rates>>
  PROVE  SwitchesInv' /\ LinksInv' /\ HostsInv'
  <1>1. SwitchesInv'
    <2>1. Wired(switchNodes, Present, AllInfos) /\ Ported(switchNodes, Present) /\ Matched(switchNodes)
      BY DEF IInv, SwitchesInv
    <2>2. Present' = Present /\ AllInfos' = AllInfos /\ switchNodes' = switchNodes
      BY DEF Present, AllInfos
    <2>3. \A d : NodeOf(d)' = NodeOf(d)
      BY DEF NodeOf
    <2>4. \A d, s : OnSwitch(d, s)' <=> OnSwitch(d, s)
      BY <2>3 DEF OnSwitch
    <2>5. Wired(switchNodes, Present, AllInfos)'
      BY <2>1, <2>2, <2>4 DEF Wired
    <2>6. Ported(switchNodes, Present)'
      BY <2>1, <2>2, <2>4 DEF Ported
    <2>7. \A s, d, info : Matches(switchNodes, s, d, info)' <=> Matches(switchNodes, s, d, info)
      BY <2>2, <2>3 DEF Matches
    <2>8. Matched(switchNodes)'
      BY <2>1, <2>2, <2>7 DEF Matched
    <2> QED
      BY <2>5, <2>6, <2>8 DEF SwitchesInv
  <1>2. LinksInv'
    BY DEF IInv, LinksInv, NodeOf, Present, ChannelRate
  <1>3. HostsInv'
    BY DEF IInv, HostsInv, Linked, NodeOf, Present
  <1> QED
    BY <1>1, <1>2, <1>3

LEMMA DevicesStay ==
  ASSUME IInv, UNCHANGED <<p4src, topoReader, switchNodes, m_ports, configured>>
  PROVE  DevicesInv'
  BY DEF IInv, DevicesInv, FunctionsAsNamed

LEMMA PacketStays ==
  ASSUME IInv, UNCHANGED <<topoReader, switchNodes, hostNodes, rates, m_ports, packet>>
  PROVE  PacketInv'
  BY DEF IInv, PacketInv, OnPath, Hops, Port, NodeOf, Present

LEMMA FileInv ==
  ASSUME IInv, phase = "start", phase' = "file", podNum' \in PodNums \cup {0},
         UNCHANGED <<p4src, topoReader, switchNodes, hostNodes, rates, m_ports, configured, packet>>
  PROVE  IInv'
  <1>1. SwitchesInv' /\ LinksInv' /\ HostsInv'
    BY NetworkStays
  <1>2. DevicesInv' /\ PacketInv'
    BY DevicesStay, PacketStays
  <1>3. StageInv'
    BY DEF IInv, StageInv
  <1> QED
    BY <1>1, <1>2, <1>3 DEF IInv

LEMMA ReadTopologyInv == ASSUME IInv, ReadTopology PROVE IInv'
  <1>1. /\ phase = "file" /\ phase' \in {"read", "aborted"}
        /\ switchNodes' = [s \in 0 .. topoReader'.switchNum - 1 |-> NoPorts]
        /\ hostNodes' = [h \in 0 .. topoReader'.hostNum - 1 |-> NoLink]
        /\ UNCHANGED <<p4src, podNum, file, rates, flowTables, m_ports, configured, packet>>
    BY DEF ReadTopology
  <1>2. /\ rates = <<>> /\ m_ports = <<>> /\ configured = <<>> /\ packet = NoPacket
        /\ podNum \in PodNums \cup {0}
    BY <1>1 DEF IInv, StageInv
  <1>3. Present' = {}
    BY <1>1, <1>2 DEF Present
  <1>4. SwitchesInv'
    <2>1. \A s \in DOMAIN switchNodes' : switchNodes'[s] = [switchDevices |-> <<>>, switchPortInfos |-> <<>>]
      BY <1>1 DEF NoPorts
    <2>2. ASSUME NEW s \in DOMAIN switchNodes'
          PROVE  /\ switchNodes'[s] \in [switchDevices : Seq(Present'), switchPortInfos : Seq(AllInfos')]
                 /\ Len(switchNodes'[s].switchPortInfos) = 0
                 /\ Len(switchNodes'[s].switchDevices) = 0
                 /\ 1 .. Len(switchNodes'[s].switchDevices) = {}
      <3>1. <<>> \in Seq(Present') /\ <<>> \in Seq(AllInfos')
        OBVIOUS
      <3> DEFINE ports == switchNodes'[s]
      <3>2. ports = [switchDevices |-> <<>>, switchPortInfos |-> <<>>]
        BY <2>1
      <3> HIDE DEF ports
      <3>3. ports \in [switchDevices : Seq(Present'), switchPortInfos : Seq(AllInfos')]
        BY <3>1, <3>2
      <3>4. Len(ports.switchPortInfos) = 0 /\ Len(ports.switchDevices) = 0
        BY <3>2
      <3>5. 1 .. Len(ports.switchDevices) = {}
        BY <3>4
      <3> QED
        BY <3>3, <3>4, <3>5 DEF ports
    <2>3. Wired(switchNodes, Present, AllInfos)'
      BY <2>2 DEF Wired
    <2>4. Ported(switchNodes, Present)'
      BY <1>3 DEF Ported
    <2>5. Matched(switchNodes)'
      BY <2>2 DEF Matched
    <2> QED
      BY <2>3, <2>4, <2>5 DEF SwitchesInv
  <1>5. LinksInv'
    BY <1>1, <1>2, <1>3 DEF LinksInv
  <1>6. HostsInv'
    <2>1. ASSUME NEW h \in DOMAIN hostNodes'
          PROVE  Linked(switchNodes, Present, hostNodes[h])'
      <3> DEFINE host == hostNodes'[h]
                 indices == (DOMAIN switchNodes') \cup {-1}
      <3>1. host = [hostDevice |-> <<>>, linkSwitchIndex |-> -1, linkSwitchPort |-> -1, address |-> 0]
        BY <1>1, <2>1 DEF NoLink
      <3>2. <<>> \in Seq(Present') /\ -1 \in indices
        OBVIOUS
      <3> HIDE DEF host, indices
      <3>3. /\ host.hostDevice = <<>> /\ host.address = 0
            /\ host \in [hostDevice : Seq(Present'), linkSwitchIndex : indices,
                         linkSwitchPort : Int, address : Nat]
        BY <3>1, <3>2
      <3> QED
        BY <3>3 DEF Linked, host, indices
    <2> QED
      BY <2>1 DEF HostsInv
  <1>7. StageInv'
    BY <1>1, <1>2 DEF StageInv
  <1>8. DevicesInv'
    BY <1>1, <1>2 DEF DevicesInv, FunctionsAsNamed
  <1>9. PacketInv'
    BY <1>1, <1>2 DEF PacketInv, NoPacket
  <1> QED
    BY <1>4, <1>5, <1>6, <1>7, <1>8, <1>9 DEF IInv

LEMMA RefuseLinkInv == ASSUME IInv, RefuseLink PROVE IInv'
  <1>1. /\ phase = "read" /\ phase' \in {"aborted", "crashed"}
        /\ UNCHANGED <<p4src, podNum, file, topoReader, switchNodes, hostNodes, rates, flowTables, m_ports, configured, packet>>
    BY DEF RefuseLink
  <1>2. SwitchesInv' /\ LinksInv' /\ HostsInv'
    BY <1>1, NetworkStays
  <1>3. DevicesInv' /\ PacketInv'
    BY <1>1, DevicesStay, PacketStays
  <1>4. StageInv'
    BY <1>1 DEF IInv, StageInv
  <1> QED
    BY <1>2, <1>3, <1>4 DEF IInv

\* A host with a device gets an address.
LEMMA AddressGiven ==
  ASSUME NEW switches, NEW P, NEW host, Linked(switches, P, host), host.hostDevice # <<>>,
         NEW a \in Nat
  PROVE  Linked(switches, P, [host EXCEPT !.address = a])
  <1> DEFINE new == [host EXCEPT !.address = a]
             indices == (DOMAIN switches) \cup {-1}
  <1>1. host \in [hostDevice : Seq(P), linkSwitchIndex : indices, linkSwitchPort : Int, address : Nat]
    BY DEF Linked
  <1> HIDE DEF indices
  <1>2. /\ new \in [hostDevice : Seq(P), linkSwitchIndex : indices, linkSwitchPort : Int, address : Nat]
        /\ new.hostDevice = host.hostDevice
        /\ new.linkSwitchIndex = host.linkSwitchIndex
        /\ new.linkSwitchPort = host.linkSwitchPort
    BY <1>1
  <1> HIDE DEF new
  <1>3. Linked(switches, P, new)
    BY <1>2 DEF Linked, indices
  <1> QED
    BY <1>3 DEF new

LEMMA AssignAddressInv ==
  ASSUME IInv, NEW h \in DOMAIN hostNodes, AssignAddress(h)
  PROVE  IInv'
  <1>1. /\ phase = "read"
        /\ UNCHANGED <<p4src, podNum, file, topoReader, switchNodes, rates, flowTables, m_ports, configured, packet>>
    BY DEF AssignAddress
  <1>2. m_ports = <<>> /\ configured = <<>> /\ packet = NoPacket
    BY <1>1 DEF IInv, StageInv
  <1>3. CASE hostNodes[h].hostDevice = <<>>
    <2>1. phase' = "crashed" /\ hostNodes' = hostNodes
      BY <1>3 DEF AssignAddress
    <2>2. SwitchesInv' /\ LinksInv' /\ HostsInv'
      BY <1>1, <2>1, NetworkStays
    <2>3. DevicesInv' /\ PacketInv'
      BY <1>1, <2>1, DevicesStay, PacketStays
    <2>4. StageInv'
      BY <1>1, <2>1 DEF IInv, StageInv
    <2> QED
      BY <2>2, <2>3, <2>4 DEF IInv
  <1>4. CASE hostNodes[h].hostDevice # <<>>
    <2> DEFINE a == IF h - 1 \in DOMAIN hostNodes
                    THEN hostNodes[h - 1].address + Len(hostNodes[h - 1].hostDevice) ELSE 1
    <2>1. phase' = phase /\ hostNodes' = [hostNodes EXCEPT ![h].address = a]
      BY <1>4 DEF AssignAddress
    <2>2. a \in Nat
      <3>1. CASE h - 1 \in DOMAIN hostNodes
        <4> DEFINE host == hostNodes[h - 1]
        <4>1. Linked(switchNodes, Present, host)
          BY <3>1 DEF IInv, HostsInv
        <4> HIDE DEF host
        <4>2. host.address \in Nat /\ host.hostDevice \in Seq(Present)
          BY <4>1 DEF Linked
        <4>3. Len(host.hostDevice) \in Nat
          BY <4>2, LenProperties
        <4>4. host.address + Len(host.hostDevice) \in Nat
          BY <4>2, <4>3
        <4> QED
          BY <3>1, <4>4 DEF host
      <3>2. CASE h - 1 \notin DOMAIN hostNodes
        BY <3>2
      <3> QED
        BY <3>1, <3>2
    <2> HIDE DEF a
    <2>3. /\ DOMAIN hostNodes' = DOMAIN hostNodes
          /\ hostNodes'[h] = [hostNodes[h] EXCEPT !.address = a]
          /\ \A g \in DOMAIN hostNodes : g # h => hostNodes'[g] = hostNodes[g]
      BY <2>1
    <2>4. Linked(switchNodes, Present, hostNodes'[h])
      <3> DEFINE host == hostNodes[h]
      <3>1. Linked(switchNodes, Present, host) /\ host.hostDevice # <<>>
        BY <1>4 DEF IInv, HostsInv
      <3> HIDE DEF host
      <3>2. Linked(switchNodes, Present, [host EXCEPT !.address = a])
        BY <2>2, <3>1, AddressGiven
      <3> QED
        BY <2>3, <3>2 DEF host
    <2>5. \A g \in DOMAIN hostNodes' : Linked(switchNodes, Present, hostNodes'[g])
      BY <2>3, <2>4 DEF IInv, HostsInv
    <2>6. LinkAdded(switchNodes', hostNodes', Present')
      <3>1. switchNodes' = switchNodes /\ Present' = Present
        BY <1>1 DEF Present
      <3> QED
        BY <2>3, <2>5, <3>1 DEF LinkAdded, IInv, SwitchesInv
    <2>7. SwitchesInv' /\ HostsInv'
      BY <1>1, <2>6, InvAgain
    <2>8. LinksInv'
      BY <1>1 DEF IInv, LinksInv, NodeOf, Present, ChannelRate
    <2>9. DevicesInv'
      BY <1>1, DevicesStay
    <2>10. PacketInv'
      BY <1>1, <1>2 DEF PacketInv, NoPacket
    <2>11. StageInv'
      BY <1>1, <2>1 DEF IInv, StageInv
    <2> QED
      BY <2>7, <2>8, <2>9, <2>10, <2>11 DEF IInv
  <1> QED
    BY <1>3, <1>4

LEMMA BuildFlowTablesInv == ASSUME IInv, BuildFlowTables PROVE IInv'
  <1>1. /\ phase = "read" /\ phase' \in {"tables", "crashed"}
        /\ \A h \in DOMAIN hostNodes : hostNodes[h].address # 0
        /\ UNCHANGED <<p4src, podNum, file, topoReader, switchNodes, hostNodes, rates, m_ports, configured, packet>>
    BY DEF BuildFlowTables
  <1>2. SwitchesInv' /\ LinksInv' /\ HostsInv'
    BY <1>1, NetworkStays
  <1>3. DevicesInv' /\ PacketInv'
    BY <1>1, DevicesStay, PacketStays
  <1>4. StageInv'
    BY <1>1 DEF IInv, StageInv
  <1> QED
    BY <1>2, <1>3, <1>4 DEF IInv

\* The program of a switch with a network function.
ProgramOf(name) == IF p4src = "simple_switch" THEN "SIMPLESWITCH" ELSE name

\* What the globals of a device are when they were typed before.
LEMMA ConfigureIs ==
  ASSUME NEW g \in Globals, NEW s \in Nat, NEW networkFunction
  PROVE  /\ Configure(g, s, networkFunction) \in Globals
         /\ networkFunction \in NetworkFunctions =>
              /\ Configure(g, s, networkFunction).g_networkFunc = networkFunction
              /\ Configure(g, s, networkFunction).g_p4JsonPath = ProgramOf(networkFunction)
  <1> DEFINE name == g_nfStrUintMap(networkFunction)
             named == [g EXCEPT !.g_networkFunc = name]
             byTopology == SetP4MatchTypeJsonPath(named)
             byHand == IF p4src = "simple_switch"
                       THEN [byTopology EXCEPT !.g_p4JsonPath = "SIMPLESWITCH", !.g_flowTableDir = "SIMPLESWITCH"]
                       ELSE byTopology
             last == [byHand EXCEPT !.g_flowTablePath = <<byHand.g_flowTableDir, s + 1>>]
  <1>1. /\ name \in NetworkFunctions /\ name \in Paths
        /\ networkFunction \in NetworkFunctions => name = networkFunction
    BY DEF g_nfStrUintMap, NetworkFunctions, MatchTyped, WithFlowTableDir, Paths
  <1> HIDE DEF name
  <1>2. named \in Globals /\ named.g_networkFunc = name
    BY <1>1 DEF Globals
  <1> HIDE DEF named
  <1>3. /\ byTopology \in Globals
        /\ byTopology.g_networkFunc = name /\ byTopology.g_p4JsonPath = name
    <2>1. CASE name \in MatchTyped
      <3>1. byTopology = [named EXCEPT !.g_p4JsonPath = name, !.g_p4MatchTypePath = name]
        BY <1>2, <2>1 DEF SetP4MatchTypeJsonPath
      <3> QED
        BY <1>1, <1>2, <3>1 DEF Globals
    <2>2. CASE name \notin MatchTyped
      <3>1. byTopology = [named EXCEPT !.g_p4JsonPath = name, !.g_flowTableDir = name]
        BY <1>2, <2>2 DEF SetP4MatchTypeJsonPath
      <3> QED
        BY <1>1, <1>2, <3>1 DEF Globals
    <2> QED
      BY <2>1, <2>2
  <1> HIDE DEF byTopology
  <1>4. /\ byHand \in Globals
        /\ byHand.g_networkFunc = name /\ byHand.g_p4JsonPath = ProgramOf(name)
    <2>1. "SIMPLESWITCH" \in Paths
      BY DEF Paths, NetworkFunctions, WithFlowTableDir
    <2>2. CASE p4src = "simple_switch"
      BY <1>3, <2>1, <2>2 DEF Globals, ProgramOf
    <2>3. CASE p4src # "simple_switch"
      BY <1>3, <2>3 DEF ProgramOf
    <2> QED
      BY <2>2, <2>3
  <1> HIDE DEF byHand
  <1>5. byHand.g_flowTableDir \in Paths
    BY <1>4 DEF Globals
  <1>6. <<byHand.g_flowTableDir, s + 1>> \in Paths \X Nat
    BY <1>5
  <1>7. /\ last \in Globals
        /\ last.g_networkFunc = name /\ last.g_p4JsonPath = ProgramOf(name)
    BY <1>4, <1>6 DEF Globals
  <1>8. Configure(g, s, networkFunction) = last
    BY DEF Configure, byHand, byTopology, named, name
  <1> QED
    BY <1>1, <1>7, <1>8

LEMMA InstallSwitchInv == ASSUME IInv, InstallSwitch PROVE IInv'
  <1> DEFINE s == Len(configured)
             before == IF configured = <<>> THEN GlobalVariables ELSE configured[s]
             new == Configure(before, s, topoReader.netFunc[s])
  <1>1. /\ phase = "tables" /\ s \in DOMAIN switchNodes
        /\ configured' = Append(configured, new)
        /\ m_ports' = [t \in 0 .. s |-> IF t = s THEN switchNodes[s].switchDevices ELSE m_ports[t]]
        /\ phase' = IF DOMAIN switchNodes = 0 .. s THEN "running" ELSE phase
        /\ UNCHANGED <<p4src, podNum, file, topoReader, switchNodes, hostNodes, rates, flowTables, packet>>
    BY DEF InstallSwitch
  <1>2. /\ configured \in Seq(Globals) /\ s \in Nat
        /\ DOMAIN m_ports = 0 .. s - 1 /\ DOMAIN m_ports \subseteq DOMAIN switchNodes
        /\ \A t \in DOMAIN m_ports : m_ports[t] = switchNodes[t].switchDevices
        /\ FunctionsAsNamed
    BY LenProperties DEF IInv, DevicesInv
  <1>3. before \in Globals
    <2>1. GlobalVariables \in Globals
      <3>1. "" \in Paths /\ "SIMPLESWITCH" \in NetworkFunctions
        BY DEF Paths, NetworkFunctions, WithFlowTableDir
      <3>2. <<"", 0>> \in Paths \X Nat
        BY <3>1
      <3> QED
        BY <3>1, <3>2 DEF GlobalVariables, Globals
    <2>2. configured # <<>> => configured[s] \in Globals
      <3>1. configured # <<>> => s > 0
        BY <1>2, EmptySeq
      <3> HIDE DEF s
      <3>2. configured # <<>> => s \in 1 .. s
        BY <1>2, <3>1
      <3> QED
        BY <1>2, <3>2, ElementOfSeq DEF s
    <2> QED
      BY <2>1, <2>2
  <1> HIDE DEF before
  <1>4. /\ new \in Globals
        /\ topoReader.netFunc[s] \in NetworkFunctions =>
             /\ new.g_networkFunc = topoReader.netFunc[s]
             /\ new.g_p4JsonPath = ProgramOf(topoReader.netFunc[s])
    BY <1>2, <1>3, ConfigureIs
  <1> HIDE DEF new
  <1>5. /\ configured' \in Seq(Globals) /\ Len(configured') = s + 1
        /\ \A i \in 1 .. s : configured'[i] = configured[i]
        /\ configured'[s + 1] = new
    BY <1>1, <1>2, <1>4, AppendProperties
  <1> HIDE DEF s
  <1>6. FunctionsAsNamed'
    <2>1. ASSUME NEW i \in 1 .. s + 1, topoReader.netFunc[i - 1] \in NetworkFunctions
          PROVE  /\ configured'[i].g_networkFunc = topoReader.netFunc[i - 1]
                 /\ configured'[i].g_p4JsonPath = ProgramOf(topoReader.netFunc[i - 1])
      <3>1. CASE i \in 1 .. s
        BY <1>2, <1>5, <2>1, <3>1 DEF FunctionsAsNamed, ProgramOf, s
      <3>2. CASE i = s + 1
        <4>1. i - 1 = s
          BY <1>2, <3>2
        <4> QED
          BY <1>4, <1>5, <2>1, <3>2, <4>1
      <3> QED
        BY <1>2, <3>1, <3>2
    <2> QED
      BY <1>1, <1>5, <2>1 DEF FunctionsAsNamed, ProgramOf
  <1>7. /\ DOMAIN m_ports' = 0 .. Len(configured') - 1
        /\ DOMAIN m_ports' \subseteq DOMAIN switchNodes'
        /\ \A t \in DOMAIN m_ports' : m_ports'[t] = switchNodes'[t].switchDevices
    <2>1. 0 .. Len(configured') - 1 = 0 .. s /\ 0 .. s = (0 .. s - 1) \cup {s}
      BY <1>2, <1>5
    <2> QED
      BY <1>1, <1>2, <2>1
  <1>8. DevicesInv'
    BY <1>5, <1>6, <1>7 DEF DevicesInv
  <1>9. SwitchesInv' /\ LinksInv' /\ HostsInv'
    BY <1>1, NetworkStays
  <1>10. packet = NoPacket /\ podNum \in PodNums \cup {0}
         /\ \A h \in DOMAIN hostNodes : hostNodes[h].address # 0
    BY <1>1 DEF IInv, StageInv
  <1>11. StageInv'
    <2>1. phase' \in {"tables", "running"}
      BY <1>1
    <2>2. phase' = "running" => DOMAIN m_ports' = DOMAIN switchNodes'
      BY <1>1
    <2> QED
      BY <1>1, <1>10, <2>1, <2>2 DEF StageInv
  <1>12. PacketInv'
    BY <1>1, <1>10 DEF PacketInv, NoPacket
  <1> QED
    BY <1>8, <1>9, <1>11, <1>12 DEF IInv

-----------------------------------------------------------------------------
(* The packet.                                                             *)

\* The hops of a path and where it leads.
Joined(visited) ==
  /\ \A k \in 1 .. Len(visited) :
       /\ visited[k].inPort \in 0 .. Len(switchNodes[visited[k].switch].switchDevices) - 1
       /\ visited[k].outPort \in 0 .. Len(switchNodes[visited[k].switch].switchDevices) - 1
  /\ \A k \in 1 .. Len(visited) - 1 :
       Port(visited[k + 1].switch, visited[k + 1].inPort) =
         OtherEnd(Port(visited[k].switch, visited[k].outPort))

LeadsTo(visited, at) ==
  IF visited = <<>> THEN NodeOf(at).type = "s"
  ELSE at = OtherEnd(Port(visited[Len(visited)].switch, visited[Len(visited)].outPort))

LEMMA PathIs ==
  ASSUME NEW p
  PROVE  OnPath(p) <=>
           /\ p \in [state : {"travelling", "delivered", "ignored", "dropped"}, to : Nat, at : Present,
                     visited : Seq(Hops)]
           /\ Joined(p.visited) /\ LeadsTo(p.visited, p.at)
           /\ p.state = "delivered" =>
                /\ NodeOf(p.at).type = "h"
                /\ hostNodes[NodeOf(p.at).index - topoReader.switchNum].address = p.to
  BY DEF OnPath, Joined, LeadsTo

\* A packet that takes one more hop.
LEMMA OneMoreHop ==
  ASSUME NEW visited \in Seq(Hops), NEW at, Joined(visited), LeadsTo(visited, at),
         NEW hop \in Hops, Port(hop.switch, hop.inPort) = at,
         hop.inPort \in 0 .. Len(switchNodes[hop.switch].switchDevices) - 1,
         hop.outPort \in 0 .. Len(switchNodes[hop.switch].switchDevices) - 1
  PROVE  /\ Append(visited, hop) \in Seq(Hops)
         /\ Joined(Append(visited, hop))
         /\ LeadsTo(Append(visited, hop), OtherEnd(Port(hop.switch, hop.outPort)))
  <1> DEFINE new == Append(visited, hop)
             n == Len(visited)
  <1>1. /\ new \in Seq(Hops) /\ n \in Nat /\ Len(new) = n + 1
        /\ \A k \in 1 .. n : new[k] = visited[k]
        /\ new[n + 1] = hop
        /\ new # <<>>
    BY AppendProperties, LenProperties
  <1>2. n > 0 => visited # <<>>
    OBVIOUS
  <1> HIDE DEF new
  <1>3. ASSUME NEW k \in 1 .. Len(new)
        PROVE  /\ new[k].inPort \in 0 .. Len(switchNodes[new[k].switch].switchDevices) - 1
               /\ new[k].outPort \in 0 .. Len(switchNodes[new[k].switch].switchDevices) - 1
    <2>1. CASE k \in 1 .. n
      BY <1>1, <2>1 DEF Joined
    <2>2. CASE k = n + 1
      BY <1>1, <2>2
    <2> QED
      BY <1>1, <2>1, <2>2
  <1>4. ASSUME NEW k \in 1 .. Len(new) - 1
        PROVE  Port(new[k + 1].switch, new[k + 1].inPort) = OtherEnd(Port(new[k].switch, new[k].outPort))
    <2>1. CASE k \in 1 .. n - 1
      <3>1. k + 1 \in 1 .. n /\ k \in 1 .. n
        BY <1>1, <2>1
      <3>2. new[k] = visited[k] /\ new[k + 1] = visited[k + 1]
        BY <1>1, <3>1
      <3> QED
        BY <2>1, <3>2 DEF Joined
    <2>2. CASE k = n
      <3>1. new[k + 1] = hop /\ new[k] = visited[n] /\ visited # <<>>
        BY <1>1, <1>2, <2>2
      <3>2. at = OtherEnd(Port(visited[n].switch, visited[n].outPort))
        BY <3>1 DEF LeadsTo
      <3> QED
        BY <3>1, <3>2
    <2> QED
      BY <1>1, <2>1, <2>2
  <1>5. LeadsTo(new, OtherEnd(Port(hop.switch, hop.outPort)))
    BY <1>1 DEF LeadsTo
  <1> QED
    BY <1>1, <1>3, <1>4, <1>5 DEF Joined, new

\* Nothing a path is made of changes while a packet travels.
LEMMA PathAgain ==
  ASSUME UNCHANGED <<topoReader, switchNodes, hostNodes, rates, m_ports>>,
         DOMAIN m_ports = DOMAIN switchNodes, OnPath(packet')
  PROVE  PacketInv'
  BY DEF PacketInv, OnPath, Hops, Port, NodeOf, Present

LEMMA AtInPresent ==
  ASSUME IInv, NEW device \in Present
  PROVE  OtherEnd(device) \in Present /\ OtherEnd(OtherEnd(device)) = device
  BY DEF Present, OtherEnd

\* What a step does that changes the packet only, or stops the program.
LEMMA TravelInv ==
  ASSUME IInv, phase = "running", phase' \in {"running", "crashed"}, PacketInv',
         UNCHANGED <<p4src, podNum, file, topoReader, switchNodes, hostNodes, rates, flowTables, m_ports, configured>>
  PROVE  IInv'
  <1>1. SwitchesInv' /\ LinksInv' /\ HostsInv'
    BY NetworkStays
  <1>2. DevicesInv'
    BY DevicesStay
  <1>3. StageInv'
    BY DEF IInv, StageInv
  <1> QED
    BY <1>1, <1>2, <1>3 DEF IInv

LEMMA SendInv ==
  ASSUME IInv, NEW h \in DOMAIN hostNodes, NEW d \in DOMAIN hostNodes, Send(h, d)
  PROVE  IInv'
  <1> DEFINE device == hostNodes[h].hostDevice[1]
             new == [state |-> "travelling", to |-> hostNodes[d].address,
                     at |-> OtherEnd(device), visited |-> <<>>]
  <1>1. /\ phase = "running" /\ packet' = new
        /\ UNCHANGED <<phase, p4src, podNum, file, topoReader, switchNodes, hostNodes, rates, flowTables, m_ports, configured>>
    BY DEF Send
  <1>2. hostNodes[h].address # 0 /\ DOMAIN m_ports = DOMAIN switchNodes
    BY <1>1 DEF IInv, StageInv
  <1>3. device \in Present /\ NodeOf(OtherEnd(device)).type = "s"
    <2> DEFINE host == hostNodes[h]
    <2>1. Linked(switchNodes, Present, host) /\ host.address # 0
      BY <1>2 DEF IInv, HostsInv
    <2> HIDE DEF host
    <2>2. host.hostDevice \in Seq(Present) /\ host.hostDevice # <<>>
      BY <2>1 DEF Linked
    <2>3. 1 \in 1 .. Len(host.hostDevice)
      BY <2>2, EmptySeq, LenProperties
    <2>4. host.hostDevice[1] \in Present /\ NodeOf(OtherEnd(host.hostDevice[1])).type = "s"
      BY <2>1, <2>2, <2>3, ElementOfSeq DEF Linked
    <2> QED
      BY <2>4 DEF host
  <1>4. hostNodes[d].address \in Nat
    <2> DEFINE host == hostNodes[d]
    <2>1. Linked(switchNodes, Present, host)
      BY DEF IInv, HostsInv
    <2> HIDE DEF host
    <2>2. host.address \in Nat
      BY <2>1 DEF Linked
    <2> QED
      BY <2>2 DEF host
  <1>5. OtherEnd(device) \in Present
    BY <1>3, AtInPresent
  <1> HIDE DEF device
  <1>6. OnPath(new)
    <2>1. new \in [state : {"travelling", "delivered", "ignored", "dropped"}, to : Nat, at : Present,
                   visited : Seq(Hops)]
      BY <1>4, <1>5
    <2>2. Joined(<<>>)
      BY DEF Joined
    <2>3. LeadsTo(<<>>, OtherEnd(device))
      BY <1>3 DEF LeadsTo
    <2> QED
      BY <2>1, <2>2, <2>3, PathIs
  <1> HIDE DEF new
  <1>7. PacketInv'
    BY <1>1, <1>2, <1>6, PathAgain
  <1> QED
    BY <1>1, <1>7, TravelInv

LEMMA Travelling ==
  ASSUME IInv, packet.state = "travelling"
  PROVE  DOMAIN m_ports = DOMAIN switchNodes /\ OnPath(packet)
  <1>1. packet # NoPacket
    BY DEF NoPacket
  <1> QED
    BY <1>1 DEF IInv, PacketInv

\* The port of switch s a device of it is.
LEMMA InPortIs ==
  ASSUME IInv, DOMAIN m_ports = DOMAIN switchNodes, NEW device \in Present,
         NEW s, OnSwitch(device, s)
  PROVE  /\ s \in DOMAIN switchNodes
         /\ m_ports[s] = switchNodes[s].switchDevices
         /\ GetPortNumber(s, device) \in 0 .. Len(switchNodes[s].switchDevices) - 1
         /\ Port(s, GetPortNumber(s, device)) = device
  <1> DEFINE devices == switchNodes[s].switchDevices
             P(n) == n \in 1 .. Len(devices) /\ devices[n] = device
  <1>1. s \in DOMAIN switchNodes
    BY DEF IInv, LinksInv, OnSwitch
  <1>2. m_ports[s] = devices
    BY <1>1 DEF IInv, DevicesInv
  <1>3. \E n \in 1 .. Len(devices) : devices[n] = device
    BY <1>1 DEF IInv, SwitchesInv, Ported
  <1>4. Len(devices) \in Nat
    BY <1>1, LenProperties DEF IInv, SwitchesInv, Wired
  <1> HIDE DEF devices
  <1>5. PICK n \in 1 .. Len(devices) :
          devices[n] = device /\ n = CHOOSE i \in 1 .. Len(devices) : devices[i] = device
    BY <1>3
  <1>6. GetPortNumber(s, device) = n - 1
    BY <1>2, <1>3, <1>5 DEF GetPortNumber
  <1>7. n - 1 \in 0 .. Len(devices) - 1 /\ (n - 1) + 1 = n
    BY <1>4
  <1> QED
    BY <1>1, <1>2, <1>5, <1>6, <1>7 DEF Port, devices

LEMMA SwitchForwardsInv == ASSUME IInv, SwitchForwards PROVE IInv'
  <1> DEFINE s == NodeOf(packet.at).index
             inPort == GetPortNumber(s, packet.at)
  <1>1. /\ phase = "running" /\ packet.state = "travelling" /\ NodeOf(packet.at).type = "s"
        /\ UNCHANGED <<p4src, podNum, file, topoReader, switchNodes, hostNodes, rates, flowTables, m_ports, configured>>
    BY DEF SwitchForwards
  <1>2. PICK outPort : SendNs3Packet(s, inPort, outPort)
    BY DEF SwitchForwards
  <1>3. DOMAIN m_ports = DOMAIN switchNodes /\ OnPath(packet)
    BY <1>1, Travelling
  <1>4. /\ packet \in [state : {"travelling", "delivered", "ignored", "dropped"}, to : Nat, at : Present,
                       visited : Seq(Hops)]
        /\ Joined(packet.visited) /\ LeadsTo(packet.visited, packet.at)
    BY <1>3, PathIs
  <1>5. OnSwitch(packet.at, s)
    BY <1>1 DEF OnSwitch, NodeOf
  <1>6. /\ s \in DOMAIN switchNodes
        /\ m_ports[s] = switchNodes[s].switchDevices
        /\ inPort \in 0 .. Len(switchNodes[s].switchDevices) - 1
        /\ Port(s, inPort) = packet.at
    BY <1>3, <1>4, <1>5, InPortIs
  <1> HIDE DEF s, inPort
  <1>7. CASE outPort = DropPort
    <2>1. packet' = [packet EXCEPT !.state = "dropped"] /\ phase' = phase
      BY <1>2, <1>7 DEF SendNs3Packet
    <2>2. /\ packet' \in [state : {"travelling", "delivered", "ignored", "dropped"}, to : Nat, at : Present,
                          visited : Seq(Hops)]
          /\ packet'.visited = packet.visited /\ packet'.at = packet.at /\ packet'.state = "dropped"
      BY <1>4, <2>1
    <2>3. OnPath(packet')
      BY <1>4, <2>2, PathIs
    <2>4. PacketInv'
      BY <1>1, <1>3, <2>3, PathAgain
    <2> QED
      BY <1>1, <2>1, <2>4, TravelInv
  <1>8. CASE outPort # DropPort /\ outPort \notin 0 .. Len(m_ports[s]) - 1
    <2>1. phase' = "crashed" /\ packet' = packet
      BY <1>2, <1>8 DEF SendNs3Packet
    <2>2. PacketInv'
      BY <1>1, <1>3, <2>1, PathAgain
    <2> QED
      BY <1>1, <2>1, <2>2, TravelInv
  <1>9. CASE outPort # DropPort /\ outPort \in 0 .. Len(m_ports[s]) - 1
    <2> DEFINE hop == [switch |-> s, inPort |-> inPort, outPort |-> outPort]
               at == OtherEnd(Port(s, outPort))
    <2>1. /\ phase' = phase
          /\ packet' = [packet EXCEPT !.at = at, !.visited = Append(@, hop)]
      BY <1>2, <1>6, <1>9 DEF SendNs3Packet, Port
    <2>2. outPort \in 0 .. Len(switchNodes[s].switchDevices) - 1 /\ outPort \in Nat /\ inPort \in Nat
      BY <1>6, <1>9
    <2>3. hop \in Hops /\ hop.switch = s /\ hop.inPort = inPort /\ hop.outPort = outPort
      BY <1>6, <2>2 DEF Hops
    <2>4. at \in Present
      <3> DEFINE devices == switchNodes[s].switchDevices
      <3>1. devices \in Seq(Present)
        BY <1>6 DEF IInv, SwitchesInv, Wired
      <3>2. outPort + 1 \in 1 .. Len(devices)
        <4>1. Len(devices) \in Nat /\ outPort \in 0 .. Len(devices) - 1
          BY <2>2, <3>1, LenProperties
        <4> HIDE DEF devices
        <4> QED
          BY <4>1
      <3> HIDE DEF devices
      <3>3. devices[outPort + 1] \in Present
        BY <3>1, <3>2, ElementOfSeq
      <3> QED
        BY <3>3, AtInPresent DEF Port, devices
    <2> HIDE DEF hop
    <2>5. /\ Append(packet.visited, hop) \in Seq(Hops)
          /\ Joined(Append(packet.visited, hop))
          /\ LeadsTo(Append(packet.visited, hop), at)
      <3> DEFINE visited == packet.visited
                 here == packet.at
      <3>1. /\ visited \in Seq(Hops) /\ Joined(visited) /\ LeadsTo(visited, here)
            /\ Port(hop.switch, hop.inPort) = here
            /\ hop.inPort \in 0 .. Len(switchNodes[hop.switch].switchDevices) - 1
            /\ hop.outPort \in 0 .. Len(switchNodes[hop.switch].switchDevices) - 1
        BY <1>4, <1>6, <2>2, <2>3
      <3> HIDE DEF visited, here, at
      <3>2. /\ Append(visited, hop) \in Seq(Hops)
            /\ Joined(Append(visited, hop))
            /\ LeadsTo(Append(visited, hop), OtherEnd(Port(hop.switch, hop.outPort)))
        BY <2>3, <3>1, OneMoreHop
      <3> QED
        BY <2>3, <3>2 DEF visited, at
    <2> HIDE DEF at
    <2> DEFINE visited == Append(packet.visited, hop)
    <2> HIDE DEF visited
    <2>6. packet' = [packet EXCEPT !.at = at, !.visited = visited]
      BY <2>1 DEF visited
    <2>7. visited \in Seq(Hops) /\ Joined(visited) /\ LeadsTo(visited, at)
      BY <2>5 DEF visited
    <2>8. /\ packet' \in [state : {"travelling", "delivered", "ignored", "dropped"}, to : Nat, at : Present,
                          visited : Seq(Hops)]
          /\ packet'.visited = visited /\ packet'.at = at /\ packet'.state = "travelling"
      BY <1>1, <1>4, <2>4, <2>6, <2>7
    <2>9. OnPath(packet')
      BY <2>7, <2>8, PathIs
    <2>10. PacketInv'
      BY <1>1, <1>3, <2>9, PathAgain
    <2> QED
      BY <1>1, <2>1, <2>10, TravelInv
  <1> QED
    BY <1>7, <1>8, <1>9

LEMMA HostReceivesInv == ASSUME IInv, HostReceives PROVE IInv'
  <1> DEFINE node == NodeOf(packet.at)
             taken == hostNodes[node.index - topoReader.switchNum].address = packet.to
  <1>1. /\ phase = "running" /\ packet.state = "travelling" /\ node.type = "h"
        /\ packet' = [packet EXCEPT !.state = IF taken THEN "delivered" ELSE "ignored"]
        /\ UNCHANGED <<phase, p4src, podNum, file, topoReader, switchNodes, hostNodes, rates, flowTables, m_ports, configured>>
    BY DEF HostReceives
  <1>2. DOMAIN m_ports = DOMAIN switchNodes /\ OnPath(packet)
    BY <1>1, Travelling
  <1>3. /\ packet \in [state : {"travelling", "delivered", "ignored", "dropped"}, to : Nat, at : Present,
                       visited : Seq(Hops)]
        /\ Joined(packet.visited) /\ LeadsTo(packet.visited, packet.at)
    BY <1>2, PathIs
  <1>4. /\ packet' \in [state : {"travelling", "delivered", "ignored", "dropped"}, to : Nat, at : Present,
                        visited : Seq(Hops)]
        /\ packet'.visited = packet.visited /\ packet'.at = packet.at /\ packet'.to = packet.to
        /\ packet'.state = IF taken THEN "delivered" ELSE "ignored"
    <2> HIDE DEF taken
    <2> QED
      BY <1>1, <1>3
  <1>5. packet'.state = "delivered" => NodeOf(packet.at).type = "h" /\ taken
    <2> HIDE DEF taken
    <2> QED
      BY <1>1, <1>4
  <1>6. OnPath(packet')
    BY <1>3, <1>4, <1>5, PathIs
  <1>7. PacketInv'
    BY <1>1, <1>2, <1>6, PathAgain
  <1> QED
    BY <1>1, <1>7, TravelInv

-----------------------------------------------------------------------------
(* The invariant holds.                                                    *)

LEMMA InitInv == ASSUME Init PROVE IInv
  <1>1. /\ phase = "start" /\ podNum = 0 /\ switchNodes = <<>> /\ hostNodes = <<>> /\ rates = <<>>
        /\ m_ports = <<>> /\ configured = <<>> /\ packet = NoPacket
    BY DEF Init
  <1>2. /\ DOMAIN switchNodes = {} /\ DOMAIN hostNodes = {} /\ DOMAIN m_ports = {}
        /\ Present = {} /\ Len(configured) = 0 /\ Len(rates) = 0
    BY <1>1 DEF Present
  <1>3. SwitchesInv
    BY <1>2 DEF SwitchesInv, Wired, Ported, Matched
  <1>4. LinksInv
    BY <1>1, <1>2 DEF LinksInv
  <1>5. HostsInv
    BY <1>2 DEF HostsInv
  <1>6. StageInv
    BY <1>1 DEF StageInv
  <1>7. DevicesInv
    BY <1>1, <1>2 DEF DevicesInv, FunctionsAsNamed
  <1>8. PacketInv
    BY <1>1 DEF PacketInv
  <1> QED
    BY <1>3, <1>4, <1>5, <1>6, <1>7, <1>8 DEF IInv

LEMMA NextInv == ASSUME IInv, [Next]_vars PROVE IInv'
  <1>1. ASSUME NEW p \in PodNums, WriteFattree(p)
        PROVE  IInv'
    <2>1. /\ phase = "start" /\ phase' = "file" /\ podNum' \in PodNums \cup {0}
          /\ UNCHANGED <<p4src, topoReader, switchNodes, hostNodes, rates, m_ports, configured, packet>>
      BY <1>1 DEF WriteFattree
    <2> QED
      BY <2>1, FileInv
  <1>2. podNum \in PodNums \cup {0}
    BY DEF IInv, StageInv
  <1>3. ASSUME NEW l \in TreeLevelNums, WriteBinaryTree(l)
        PROVE  IInv'
    <2>1. /\ phase = "start" /\ phase' = "file" /\ podNum' \in PodNums \cup {0}
          /\ UNCHANGED <<p4src, topoReader, switchNodes, hostNodes, rates, m_ports, configured, packet>>
      BY <1>2, <1>3 DEF WriteBinaryTree
    <2> QED
      BY <2>1, FileInv
  <1>4. ASSUME NEW f \in GivenFiles, UseGiven(f)
        PROVE  IInv'
    <2>1. /\ phase = "start" /\ phase' = "file" /\ podNum' \in PodNums \cup {0}
          /\ UNCHANGED <<p4src, topoReader, switchNodes, hostNodes, rates, m_ports, configured, packet>>
      BY <1>2, <1>4 DEF UseGiven
    <2> QED
      BY <2>1, FileInv
  <1>5. ASSUME UNCHANGED vars
        PROVE  IInv'
    <2>1. /\ UNCHANGED <<p4src, topoReader, switchNodes, hostNodes, rates, m_ports, configured, packet>>
          /\ UNCHANGED <<phase, podNum>>
      BY <1>5 DEF vars
    <2>2. SwitchesInv' /\ LinksInv' /\ HostsInv' /\ DevicesInv' /\ PacketInv'
      BY <2>1, NetworkStays, DevicesStay, PacketStays
    <2>3. StageInv'
      BY <2>1 DEF IInv, StageInv
    <2> QED
      BY <2>2, <2>3 DEF IInv
  <1> QED
    BY <1>1, <1>3, <1>4, <1>5, ReadTopologyInv, InstallLinkInv, RefuseLinkInv, AssignAddressInv,
       BuildFlowTablesInv, InstallSwitchInv, SendInv, SwitchForwardsInv, HostReceivesInv DEF Next

LEMMA Invariance == Spec => []IInv
  BY InitInv, NextInv, PTL DEF Spec

-----------------------------------------------------------------------------
(* The flow tables.                                                        *)

\* The switches and ports that switches have noted are those of later.
PlacedIn(switches, later) ==
  \A s \in DOMAIN switches : \A p \in 1 .. Len(switches[s].switchPortInfos) :
    switches[s].switchPortInfos[p].type = "s" =>
      /\ switches[s].switchPortInfos[p].index \in DOMAIN later
      /\ switches[s].switchPortInfos[p].port
           \in 0 .. Len(later[switches[s].switchPortInfos[p].index].switchDevices) - 1

HostPlaced(host, switches) ==
  host.hostDevice # <<>> =>
    /\ host.linkSwitchIndex \in DOMAIN switches
    /\ host.linkSwitchPort \in 0 .. Len(switches[host.linkSwitchIndex].switchDevices) - 1

PlacesInv ==
  /\ PlacedIn(switchNodes, switchNodes)
  /\ \A h \in DOMAIN hostNodes : HostPlaced(hostNodes[h], switchNodes)

\* Nodes are numbered from 0.
NumbersInv ==
  /\ file.switchNum \in Nat /\ file.hostNum \in Nat
  /\ \E n \in Nat : DOMAIN switchNodes = 0 .. n - 1
  /\ \E n \in Nat : DOMAIN hostNodes = 0 .. n - 1

TablesInv ==
  /\ phase \in {"start", "file", "read"} => flowTables = <<>>
  /\ TablesNameWhatExists

BuildInv == PlacesInv /\ NumbersInv /\ TablesInv

LEMMA LongerTwice ==
  ASSUME NEW switches, NEW between, NEW later, Longer(switches, between), Longer(between, later)
  PROVE  Longer(switches, later)
  <1>1. ASSUME NEW s \in DOMAIN switches
        PROVE  /\ Len(switches[s].switchDevices) \in Nat /\ Len(later[s].switchDevices) \in Nat
               /\ Len(switches[s].switchDevices) <= Len(later[s].switchDevices)
               /\ \A p \in 1 .. Len(switches[s].switchDevices) :
                    later[s].switchDevices[p] = switches[s].switchDevices[p]
    <2> DEFINE old == switches[s].switchDevices
               mid == between[s].switchDevices
               new == later[s].switchDevices
    <2>1. /\ Len(old) \in Nat /\ Len(mid) \in Nat /\ Len(new) \in Nat
          /\ Len(old) <= Len(mid) /\ Len(mid) <= Len(new)
          /\ \A p \in 1 .. Len(old) : mid[p] = old[p]
          /\ \A p \in 1 .. Len(mid) : new[p] = mid[p]
      BY DEF Longer
    <2> HIDE DEF old, mid, new
    <2>2. Len(old) <= Len(new) /\ \A p \in 1 .. Len(old) : new[p] = old[p]
      BY <2>1
    <2> QED
      BY <2>1, <2>2 DEF old, new
  <1>2. DOMAIN later = DOMAIN switches
    BY DEF Longer
  <1> QED
    BY <1>1, <1>2 DEF Longer

LEMMA PlacedLater ==
  ASSUME NEW switches, NEW between, NEW later, Longer(between, later), PlacedIn(switches, between)
  PROVE  PlacedIn(switches, later)
  <1> SUFFICES ASSUME NEW s \in DOMAIN switches, NEW p \in 1 .. Len(switches[s].switchPortInfos),
                      switches[s].switchPortInfos[p].type = "s"
               PROVE  /\ switches[s].switchPortInfos[p].index \in DOMAIN later
                      /\ switches[s].switchPortInfos[p].port
                           \in 0 .. Len(later[switches[s].switchPortInfos[p].index].switchDevices) - 1
    BY DEF PlacedIn
  <1> DEFINE t == switches[s].switchPortInfos[p].index
             port == switches[s].switchPortInfos[p].port
  <1>1. t \in DOMAIN between /\ port \in 0 .. Len(between[t].switchDevices) - 1
    BY DEF PlacedIn
  <1> HIDE DEF t, port
  <1>2. t \in DOMAIN later /\ port \in 0 .. Len(later[t].switchDevices) - 1
    BY <1>1, PortStays DEF Longer
  <1> QED
    BY <1>2 DEF t, port

\* A port is added whose information is right at last.
LEMMA WithPortPlaced ==
  ASSUME NEW switches, NEW P, NEW I, Wired(switches, P, I), NEW s \in DOMAIN switches, NEW d, NEW i,
         NEW later, PlacedIn(switches, later),
         i.type = "s" => i.index \in DOMAIN later /\ i.port \in 0 .. Len(later[i.index].switchDevices) - 1
  PROVE  PlacedIn(WithPort(switches, s, d, i), later)
  <1> DEFINE new == WithPort(switches, s, d, i)
  <1>1. DOMAIN new = DOMAIN switches
    BY PortAdded
  <1> SUFFICES ASSUME NEW t \in DOMAIN switches, NEW p \in 1 .. Len(new[t].switchPortInfos)
               PROVE  new[t].switchPortInfos[p].type = "s" =>
                        /\ new[t].switchPortInfos[p].index \in DOMAIN later
                        /\ new[t].switchPortInfos[p].port
                             \in 0 .. Len(later[new[t].switchPortInfos[p].index].switchDevices) - 1
    BY <1>1 DEF PlacedIn
  <1> DEFINE olds == switches[t].switchPortInfos
             news == new[t].switchPortInfos
  <1>2. Extended(olds, news, I, i, t, s)
    BY PortsAfter
  <1>3. \A q \in 1 .. Len(olds) : olds[q].type = "s" =>
          olds[q].index \in DOMAIN later /\ olds[q].port \in 0 .. Len(later[olds[q].index].switchDevices) - 1
    BY DEF PlacedIn
  <1> HIDE DEF olds, news, new
  <1>4. news[p] = i \/ (p \in 1 .. Len(olds) /\ news[p] = olds[p])
    BY <1>2, ExtendedRange DEF news
  <1>5. news[p].type = "s" =>
          news[p].index \in DOMAIN later /\ news[p].port \in 0 .. Len(later[news[p].index].switchDevices) - 1
    BY <1>3, <1>4
  <1> QED
    BY <1>5 DEF news

LEMMA HostPlacedLater ==
  ASSUME NEW host, NEW switches, NEW later, Longer(switches, later), HostPlaced(host, switches)
  PROVE  HostPlaced(host, later)
  BY PortStays DEF HostPlaced, Longer

\* A link between switch s, at device d, and host h, at device o.
LEMMA HostLinkPlaced ==
  ASSUME IInv, PlacesInv, NEW s \in DOMAIN switchNodes, NEW h \in DOMAIN hostNodes, NEW d, NEW o,
         switchNodes' = WithPort(switchNodes, s, d, HostInfo(h)), hostNodes' = WithHostLink(h, o, s)
  PROVE  PlacesInv'
  <1> DEFINE new == WithPort(switchNodes, s, d, HostInfo(h))
             m == Len(switchNodes[s].switchDevices)
  <1>1. Wired(switchNodes, Present, AllInfos)
    BY DEF IInv, SwitchesInv
  <1>2. Longer(switchNodes, new) /\ PlacedIn(switchNodes, new)
    BY <1>1, WithPortLonger, PlacedLater DEF PlacesInv
  <1>3. HostInfo(h).type # "s"
    BY DEF HostInfo
  <1>4. PlacedIn(new, new)
    BY <1>1, <1>2, <1>3, WithPortPlaced
  <1>5. m \in 0 .. Len(new[s].switchDevices) - 1
    BY <1>1, NewPort
  <1>6. /\ DOMAIN hostNodes' = DOMAIN hostNodes
        /\ \A g \in DOMAIN hostNodes : g # h => hostNodes'[g] = hostNodes[g]
        /\ hostNodes'[h].linkSwitchIndex = s /\ hostNodes'[h].linkSwitchPort = m
    BY DEF WithHostLink, PortNumber
  <1>7. s \in DOMAIN new
    BY <1>2 DEF Longer
  <1> HIDE DEF new, m
  <1>8. ASSUME NEW g \in DOMAIN hostNodes'
        PROVE  HostPlaced(hostNodes'[g], new)
    <2>1. CASE g = h
      BY <1>5, <1>6, <1>7, <2>1 DEF HostPlaced
    <2>2. CASE g # h
      <3>1. HostPlaced(hostNodes[g], switchNodes) /\ hostNodes'[g] = hostNodes[g]
        BY <1>6, <2>2 DEF PlacesInv
      <3> QED
        BY <1>2, <3>1, HostPlacedLater
    <2> QED
      BY <2>1, <2>2
  <1>9. switchNodes' = new
    BY DEF new
  <1> QED
    BY <1>4, <1>8, <1>9 DEF PlacesInv, PlacedIn, HostPlaced

\* A link between switches a, at device d, and b, at device o.
LEMMA SwitchLinkPlaced ==
  ASSUME IInv, PlacesInv, NEW a \in DOMAIN switchNodes, NEW b \in DOMAIN switchNodes, NEW d, NEW o,
         d \notin Present, OnSwitch(d, a),
         switchNodes' = WithPort(WithPort(switchNodes, a, d, SwitchInfo(b, PortNumber(b))),
                                 b, o, SwitchInfo(a, PortNumber(a))),
         hostNodes' = hostNodes
  PROVE  PlacesInv'
  <1> DEFINE m == Len(switchNodes[a].switchDevices)
             n == Len(switchNodes[b].switchDevices)
             i == SwitchInfo(b, n)
             j == SwitchInfo(a, m)
             between == WithPort(switchNodes, a, d, i)
             later == WithPort(between, b, o, j)
             Q == Present \cup {d}
  <1>1. Wired(switchNodes, Present, AllInfos)
    BY DEF IInv, SwitchesInv
  <1>2. Longer(switchNodes, between)
    BY <1>1, WithPortLonger
  <1>3. m \in Nat /\ n \in Nat
    BY <1>2 DEF Longer
  <1>4. i \in AllInfos
    BY <1>3, InfosAre DEF AllInfos
  <1>5. Wired(between, Q, AllInfos)
    BY <1>1, <1>4, WithPortWired
  <1>6. m \in 0 .. Len(between[a].switchDevices) - 1
    BY <1>1, NewPort
  <1>7. /\ i.type = "s" /\ i.index = b /\ i.port = n
        /\ j.type = "s" /\ j.index = a /\ j.port = m
    BY DEF SwitchInfo
  <1>8. switchNodes' = later
    BY DEF PortNumber
  <1> DEFINE k == Len(between[b].switchDevices)
  <1>9. n <= k
    BY <1>2 DEF Longer
  <1> HIDE DEF m, n, i, j, between, k
  <1>10. DOMAIN between = DOMAIN switchNodes
    BY <1>2 DEF Longer
  <1>11. Longer(between, later) /\ k \in 0 .. Len(later[b].switchDevices) - 1
    BY <1>5, <1>10, WithPortLonger, NewPort DEF k
  <1> HIDE DEF later
  <1>12. /\ DOMAIN later = DOMAIN between
         /\ n \in 0 .. Len(later[b].switchDevices) - 1
         /\ m \in 0 .. Len(later[a].switchDevices) - 1
    <2>1. n \in 0 .. Len(later[b].switchDevices) - 1
      <3> DEFINE l == Len(later[b].switchDevices)
      <3>1. l \in Nat /\ k \in 0 .. l - 1
        BY <1>10, <1>11 DEF Longer
      <3> HIDE DEF l
      <3>2. n \in 0 .. l - 1
        BY <1>3, <1>9, <3>1
      <3> QED
        BY <3>2 DEF l
    <2> QED
      BY <1>6, <1>10, <1>11, <2>1, PortStays DEF Longer
  <1>13. Longer(switchNodes, later)
    BY <1>2, <1>11, LongerTwice
  <1>14. PlacedIn(switchNodes, later)
    BY <1>13, PlacedLater DEF PlacesInv
  <1>15. PlacedIn(between, later)
    BY <1>1, <1>7, <1>10, <1>12, <1>14, WithPortPlaced DEF between
  <1>16. PlacedIn(later, later)
    BY <1>5, <1>7, <1>10, <1>12, <1>15, WithPortPlaced DEF later
  <1>17. \A h \in DOMAIN hostNodes : HostPlaced(hostNodes[h], later)
    BY <1>13, HostPlacedLater DEF PlacesInv
  <1> QED
    BY <1>8, <1>16, <1>17 DEF PlacesInv, PlacedIn, HostPlaced

LEMMA NoTables ==
  ASSUME flowTables' = <<>>
  PROVE  TablesInv'
  <1>1. DOMAIN flowTables' = {}
    OBVIOUS
  <1> QED
    BY <1>1 DEF TablesInv, TablesNameWhatExists

LEMMA InstallLinkTables ==
  ASSUME IInv, BuildInv, InstallLink
  PROVE  BuildInv'
  <1> DEFINE n == Len(rates) + 1
             d == <<n, 0>>
             o == <<n, 1>>
             link == topoReader.links[n]
  <1>1. /\ phase = "read" /\ Installed(n, link)
        /\ UNCHANGED <<phase, file, topoReader, flowTables>>
    BY DEF InstallLink
  <1>2. IInv'
    BY InstallLinkInv
  <1>3. PlacesInv'
    <2>1. PlacesInv
      BY DEF BuildInv
    <2>2. CASE SwitchToSwitch(n, link)
      <3> DEFINE a == link.from
                 b == link.to
      <3>1. /\ a \in DOMAIN switchNodes /\ b \in DOMAIN switchNodes
            /\ link.fromType = "s"
            /\ switchNodes' = WithPort(WithPort(switchNodes, a, d, SwitchInfo(b, PortNumber(b))),
                                       b, o, SwitchInfo(a, PortNumber(a)))
            /\ hostNodes' = hostNodes
        BY <2>2 DEF SwitchToSwitch, IsSwitch
      <3>2. OnSwitch(d, a) /\ d \notin Present
        BY <3>1, EndsOfLink, NextDevices DEF OnSwitch, IInv
      <3> HIDE DEF a, b, d, o
      <3> QED
        BY <2>1, <3>1, <3>2, SwitchLinkPlaced
    <2>3. CASE /\ IsSwitch(link.fromType, link.from) /\ IsHost(link.toType, link.to)
               /\ SwitchToHost(n, 0, link.from, link.to - topoReader.switchNum)
      <3> DEFINE s == link.from
                 h == link.to - topoReader.switchNum
      <3>1. /\ s \in DOMAIN switchNodes /\ h \in DOMAIN hostNodes
            /\ switchNodes' = WithPort(switchNodes, s, d, HostInfo(h))
            /\ hostNodes' = WithHostLink(h, o, s)
        BY <2>3 DEF SwitchToHost, IsSwitch, IsHost
      <3> HIDE DEF s, h, d, o
      <3> QED
        BY <2>1, <3>1, HostLinkPlaced
    <2>4. CASE /\ IsHost(link.fromType, link.from) /\ IsSwitch(link.toType, link.to)
               /\ SwitchToHost(n, 1, link.to, link.from - topoReader.switchNum)
      <3> DEFINE s == link.to
                 h == link.from - topoReader.switchNum
      <3>1. /\ s \in DOMAIN switchNodes /\ h \in DOMAIN hostNodes
            /\ switchNodes' = WithPort(switchNodes, s, o, HostInfo(h))
            /\ hostNodes' = WithHostLink(h, d, s)
        BY <2>4 DEF SwitchToHost, IsSwitch, IsHost
      <3> HIDE DEF s, h, d, o
      <3> QED
        BY <2>1, <3>1, HostLinkPlaced
    <2> QED
      BY <1>1, <2>2, <2>3, <2>4 DEF Installed
  <1>4. NumbersInv'
    <2>1. DOMAIN switchNodes' = DOMAIN switchNodes /\ DOMAIN hostNodes' = DOMAIN hostNodes
      BY <1>1, LinkInstalled DEF LinkAdded
    <2> QED
      BY <1>1, <2>1 DEF BuildInv, NumbersInv
  <1>5. TablesInv'
    BY <1>1, NoTables DEF BuildInv, TablesInv
  <1> QED
    BY <1>3, <1>4, <1>5 DEF BuildInv

LEMMA AssignAddressTables ==
  ASSUME IInv, BuildInv, NEW h \in DOMAIN hostNodes, AssignAddress(h)
  PROVE  BuildInv'
  <1>1. phase = "read" /\ UNCHANGED <<file, topoReader, switchNodes, flowTables>>
    BY DEF AssignAddress
  <1>2. /\ DOMAIN hostNodes' = DOMAIN hostNodes
        /\ \A g \in DOMAIN hostNodes :
             /\ hostNodes'[g].hostDevice = hostNodes[g].hostDevice
             /\ hostNodes'[g].linkSwitchIndex = hostNodes[g].linkSwitchIndex
             /\ hostNodes'[g].linkSwitchPort = hostNodes[g].linkSwitchPort
    <2>1. CASE hostNodes' = hostNodes
      BY <2>1
    <2>2. ASSUME NEW a, hostNodes' = [hostNodes EXCEPT ![h].address = a]
          PROVE  /\ DOMAIN hostNodes' = DOMAIN hostNodes
                 /\ \A g \in DOMAIN hostNodes :
                      /\ hostNodes'[g].hostDevice = hostNodes[g].hostDevice
                      /\ hostNodes'[g].linkSwitchIndex = hostNodes[g].linkSwitchIndex
                      /\ hostNodes'[g].linkSwitchPort = hostNodes[g].linkSwitchPort
      <3>1. Linked(switchNodes, Present, hostNodes[h])
        BY DEF IInv, HostsInv
      <3>2. /\ hostNodes'[h] = [hostNodes[h] EXCEPT !.address = a]
            /\ \A g \in DOMAIN hostNodes : g # h => hostNodes'[g] = hostNodes[g]
            /\ DOMAIN hostNodes' = DOMAIN hostNodes
        BY <2>2
      <3> DEFINE host == hostNodes[h]
                 new == hostNodes'[h]
      <3>3. new = [host EXCEPT !.address = a]
            /\ host \in [hostDevice : Seq(Present), linkSwitchIndex : (DOMAIN switchNodes) \cup {-1},
                         linkSwitchPort : Int, address : Nat]
        BY <3>1, <3>2 DEF Linked
      <3> HIDE DEF host, new
      <3>4. /\ new.hostDevice = host.hostDevice /\ new.linkSwitchIndex = host.linkSwitchIndex
            /\ new.linkSwitchPort = host.linkSwitchPort
        BY <3>3
      <3> QED
        BY <3>2, <3>4 DEF host, new
    <2> QED
      BY <2>1, <2>2 DEF AssignAddress
  <1>3. PlacesInv'
    BY <1>1, <1>2 DEF BuildInv, PlacesInv, PlacedIn, HostPlaced
  <1>4. NumbersInv'
    BY <1>1, <1>2 DEF BuildInv, NumbersInv
  <1>5. TablesInv'
    BY <1>1, NoTables DEF BuildInv, TablesInv
  <1> QED
    BY <1>3, <1>4, <1>5 DEF BuildInv

LEMMA ReadIs ==
  ASSUME NEW f, f.switchNum \in Nat, f.hostNum \in Nat
  PROVE  Read(f).switchNum \in Nat /\ Read(f).hostNum \in Nat
  BY DEF Read

LEMMA ReadTopologyTables ==
  ASSUME IInv, BuildInv, ReadTopology
  PROVE  BuildInv'
  <1>1. /\ phase = "file" /\ topoReader' = Read(file)
        /\ switchNodes' = [s \in 0 .. topoReader'.switchNum - 1 |-> NoPorts]
        /\ hostNodes' = [h \in 0 .. topoReader'.hostNum - 1 |-> NoLink]
        /\ UNCHANGED <<file, flowTables>>
    BY DEF ReadTopology
  <1>2. topoReader'.switchNum \in Nat /\ topoReader'.hostNum \in Nat
    BY <1>1, ReadIs DEF BuildInv, NumbersInv
  <1>3. PlacesInv'
    <2>1. ASSUME NEW s \in DOMAIN switchNodes'
          PROVE  1 .. Len(switchNodes'[s].switchPortInfos) = {}
      <3>1. switchNodes'[s].switchPortInfos = <<>>
        BY <1>1 DEF NoPorts
      <3> QED
        BY <3>1
    <2>2. \A h \in DOMAIN hostNodes' : hostNodes'[h].hostDevice = <<>>
      BY <1>1 DEF NoLink
    <2> QED
      BY <2>1, <2>2 DEF PlacesInv, PlacedIn, HostPlaced
  <1>4. NumbersInv'
    BY <1>1, <1>2 DEF BuildInv, NumbersInv
  <1>5. TablesInv'
    BY <1>1, NoTables DEF BuildInv, TablesInv
  <1> QED
    BY <1>3, <1>4, <1>5 DEF BuildInv

LEMMA TablesStay ==
  ASSUME BuildInv, UNCHANGED <<file, switchNodes, hostNodes, flowTables>>,
         phase' \in {"start", "file", "read"} => phase \in {"start", "file", "read"}
  PROVE  BuildInv'
  <1>1. PlacesInv'
    BY DEF BuildInv, PlacesInv, PlacedIn, HostPlaced
  <1>2. NumbersInv'
    BY DEF BuildInv, NumbersInv
  <1>3. TablesInv'
    BY DEF BuildInv, TablesInv, TablesNameWhatExists
  <1> QED
    BY <1>1, <1>2, <1>3 DEF BuildInv

LEMMA FileTables ==
  ASSUME BuildInv, UNCHANGED <<switchNodes, hostNodes, flowTables>>,
         phase = "start", file'.switchNum \in Nat, file'.hostNum \in Nat
  PROVE  BuildInv'
  <1>1. PlacesInv'
    BY DEF BuildInv, PlacesInv, PlacedIn, HostPlaced
  <1>2. NumbersInv'
    BY DEF BuildInv, NumbersInv
  <1>3. TablesInv'
    BY NoTables DEF BuildInv, TablesInv
  <1> QED
    BY <1>1, <1>2, <1>3 DEF BuildInv

\* The files the builders write hold numbers of nodes.
LEMMA FattreeNumbers ==
  ASSUME NEW p \in Nat, NEW start
  PROVE  FattreeFile(p, start).switchNum \in Nat /\ FattreeFile(p, start).hostNum \in Nat
  <1> DEFINE half == p \div 2
             core == half * half
  <1>1. half \in Nat
    OBVIOUS
  <1> HIDE DEF half
  <1>2. core \in Nat
    BY <1>1
  <1> HIDE DEF core
  <1>3. 5 * core \in Nat /\ core * p \in Nat
    BY <1>2
  <1>4. CoreSwitchNum(p) = core
    BY DEF CoreSwitchNum, core, half
  <1> QED
    BY <1>3, <1>4 DEF FattreeFile, File

LEMMA PowerOfTwoIs ==
  ASSUME NEW n \in Nat
  PROVE  PowerOfTwo(n) \in Nat \ {0}
  <1> DEFINE V == Nat \ {0}
             step == [k \in 1 .. n |-> [v \in Nat |-> 2 * v]]
  <1>1. 1 \in V
    OBVIOUS
  <1>2. ASSUME NEW k \in 1 .. n, NEW v \in V
        PROVE  step[k][v] \in V
    OBVIOUS
  <1> HIDE DEF V, step
  <1>3. Loop(n, step, 1) \in V
    BY <1>1, <1>2, LoopStaysIn
  <1> QED
    BY <1>3 DEF PowerOfTwo, V, step

LEMMA HostsBeforeIs ==
  ASSUME NEW s \in Nat, NEW l
  PROVE  HostsBefore(s, l) \in Nat
  <1> DEFINE V == Nat
             step == [k \in 1 .. s |-> [n \in Nat |-> n + HostsAt(k - 1, l)]]
  <1>1. ASSUME NEW k \in 1 .. s, NEW n \in V
        PROVE  step[k][n] \in V
    <2>1. HostsAt(k - 1, l) \in Nat
      BY DEF HostsAt
    <2> QED
      BY <2>1
  <1>2. 0 \in V
    OBVIOUS
  <1> HIDE DEF step, V
  <1>3. Loop(s, step, 0) \in V
    BY <1>1, <1>2, LoopStaysIn
  <1> QED
    BY <1>3 DEF HostsBefore, step, V

LEMMA BinaryTreeNumbers ==
  ASSUME NEW l \in Nat
  PROVE  BinaryTreeFile(l).switchNum \in Nat /\ BinaryTreeFile(l).hostNum \in Nat
  <1>1. TreeSwitchNum(l) \in Nat
    BY PowerOfTwoIs DEF TreeSwitchNum
  <1>2. TreeTerminalNum(l) \in Nat
    BY <1>1, HostsBeforeIs DEF TreeTerminalNum
  <1> QED
    BY <1>1, <1>2 DEF BinaryTreeFile, File

LEMMA PortsAre ==
  ASSUME IInv, NEW portNode, portNode = [s \in DOMAIN switchNodes |-> SwitchNode(s)],
         NEW s \in DOMAIN switchNodes
  PROVE  /\ Len(portNode[s]) \in Nat
         /\ Len(portNode[s]) = Len(switchNodes[s].switchPortInfos)
         /\ Len(portNode[s]) = Len(switchNodes[s].switchDevices)
         /\ Ports(portNode, s) = 0 .. Len(switchNodes[s].switchDevices) - 1
         /\ \A p \in 1 .. Len(portNode[s]) :
              portNode[s][p] = NodeFlagIndex(switchNodes[s].switchPortInfos[p])
  <1> DEFINE n == Len(switchNodes[s].switchPortInfos)
             node(p) == NodeFlagIndex(switchNodes[s].switchPortInfos[p])
             nodes == [p \in 1 .. n |-> node(p)]
  <1>1. n \in Nat /\ Len(switchNodes[s].switchPortInfos) = Len(switchNodes[s].switchDevices)
    <2>1. Wired(switchNodes, Present, AllInfos)
      BY DEF IInv, SwitchesInv
    <2> DEFINE ports == switchNodes[s]
    <2>2. /\ ports \in [switchDevices : Seq(Present), switchPortInfos : Seq(AllInfos)]
          /\ Len(ports.switchPortInfos) = Len(ports.switchDevices)
      BY <2>1 DEF Wired
    <2> HIDE DEF ports
    <2>3. Len(ports.switchPortInfos) \in Nat
      BY <2>2, LenProperties
    <2> QED
      BY <2>2, <2>3 DEF ports
  <1>2. portNode[s] = nodes
    BY DEF SwitchNode
  <1> HIDE DEF n, node
  <1>3. Len(nodes) = n
    <2>1. nodes \in [1 .. n -> {node(p) : p \in 1 .. n}]
      OBVIOUS
    <2> QED
      BY <1>1, <2>1, FunctionIsSeq
  <1>4. \A p \in 1 .. n : nodes[p] = node(p)
    OBVIOUS
  <1> QED
    BY <1>1, <1>2, <1>3, <1>4 DEF n, node, Ports

\* What the tables are computed from is a network.
LEMMA NetworkIs ==
  ASSUME IInv, BuildInv, \A h \in DOMAIN hostNodes : hostNodes[h].address # 0
  PROVE  IsNetwork([h \in DOMAIN hostNodes |-> HostNode(h)], [s \in DOMAIN switchNodes |-> SwitchNode(s)])
  <1> DEFINE hosts == [h \in DOMAIN hostNodes |-> HostNode(h)]
             portNode == [s \in DOMAIN switchNodes |-> SwitchNode(s)]
  <1>1. DOMAIN hosts = DOMAIN hostNodes /\ DOMAIN portNode = DOMAIN switchNodes
    OBVIOUS
  <1>2. IsFiniteSet(DOMAIN portNode)
    <2>1. PICK n \in Nat : DOMAIN switchNodes = 0 .. n - 1
      BY DEF BuildInv, NumbersInv
    <2> QED
      BY <1>1, <2>1, FS_Interval
  <1>3. ASSUME NEW s \in DOMAIN switchNodes
        PROVE  /\ Len(portNode[s]) \in Nat
               /\ Len(portNode[s]) = Len(switchNodes[s].switchPortInfos)
               /\ Len(portNode[s]) = Len(switchNodes[s].switchDevices)
               /\ \A p \in 1 .. Len(portNode[s]) :
                    portNode[s][p] = NodeFlagIndex(switchNodes[s].switchPortInfos[p])
    BY PortsAre
  <1>4. ASSUME NEW h \in DOMAIN hostNodes
        PROVE  /\ hosts[h].linkSwitchIndex \in DOMAIN portNode
               /\ hosts[h].portIndex \in Ports(portNode, hosts[h].linkSwitchIndex)
    <2>1. hostNodes[h].hostDevice # <<>>
      BY DEF IInv, HostsInv, Linked
    <2>2. /\ hostNodes[h].linkSwitchIndex \in DOMAIN switchNodes
          /\ hostNodes[h].linkSwitchPort \in 0 .. Len(switchNodes[hostNodes[h].linkSwitchIndex].switchDevices) - 1
      BY <2>1 DEF BuildInv, PlacesInv, HostPlaced
    <2>3. /\ hosts[h].linkSwitchIndex = hostNodes[h].linkSwitchIndex
          /\ hosts[h].portIndex = hostNodes[h].linkSwitchPort
      BY DEF HostNode
    <2> HIDE DEF hosts, portNode
    <2> QED
      BY <1>1, <1>3, <2>2, <2>3 DEF Ports
  <1>5. ASSUME NEW s \in DOMAIN switchNodes, NEW p \in 1 .. Len(portNode[s])
        PROVE  NodeIs(portNode[s][p], hosts, portNode)
    <2> DEFINE info == switchNodes[s].switchPortInfos[p]
    <2>1. portNode[s][p] = NodeFlagIndex(info) /\ p \in 1 .. Len(switchNodes[s].switchPortInfos)
      BY <1>3
    <2>2. info \in AllInfos
      <3>1. Wired(switchNodes, Present, AllInfos)
        BY DEF IInv, SwitchesInv
      <3> DEFINE ports == switchNodes[s]
      <3>2. ports \in [switchDevices : Seq(Present), switchPortInfos : Seq(AllInfos)]
        BY <3>1 DEF Wired
      <3>3. p \in 1 .. Len(ports.switchPortInfos)
        BY <2>1
      <3> HIDE DEF ports
      <3>4. ports.switchPortInfos[p] \in AllInfos
        BY <3>2, <3>3, ElementOfSeq
      <3> QED
        BY <3>4 DEF ports
    <2>3. info.type = "s" => /\ info.index \in DOMAIN switchNodes
                             /\ info.port \in 0 .. Len(switchNodes[info.index].switchDevices) - 1
      BY <2>1 DEF BuildInv, PlacesInv, PlacedIn
    <2>4. /\ portNode[s][p].flag = IF info.type = "s" THEN SwitchFlag ELSE HostFlag
          /\ portNode[s][p].nodeIndex = info.index
          /\ portNode[s][p].nodePort = info.port
      <3> DEFINE node == portNode[s][p]
      <3>1. node = NodeFlagIndex(info)
        BY <2>1
      <3> HIDE DEF node, info
      <3> QED
        BY <3>1 DEF NodeFlagIndex, node
    <2> HIDE DEF info, hosts, portNode
    <2>5. CASE info.type = "s"
      <3>1. portNode[s][p].flag # HostFlag
        BY <2>4, <2>5 DEF SwitchFlag, HostFlag
      <3> QED
        BY <1>1, <1>3, <2>3, <2>4, <2>5, <3>1 DEF NodeIs, Ports
    <2>6. CASE info.type # "s"
      <3>1. info.index \in DOMAIN hostNodes
        BY <2>2, <2>6 DEF AllInfos, Infos
      <3>2. portNode[s][p].flag = HostFlag
        BY <2>4, <2>6
      <3> QED
        BY <1>1, <2>4, <3>1, <3>2 DEF NodeIs
    <2> QED
      BY <2>5, <2>6
  <1>6. HostsAre(hosts, portNode)
    <2>1. \E n \in Nat : DOMAIN hosts = 0 .. n - 1
      BY <1>1 DEF BuildInv, NumbersInv
    <2> HIDE DEF hosts, portNode
    <2> QED
      BY <1>1, <1>4, <2>1 DEF HostsAre
  <1> HIDE DEF hosts, portNode
  <1>7. IsNetwork(hosts, portNode)
    BY <1>1, <1>2, <1>3, <1>5, <1>6 DEF IsNetwork
  <1> QED
    BY <1>7 DEF hosts, portNode

\* No entries but those of a network are left when nothing is divided by zero.
LEMMA SoundTables ==
  ASSUME NEW hosts, NEW portNode, IsNetwork(hosts, portNode), NEW p, NEW entries,
         entries = IF p > 0 THEN BuildFattreeFlowTable(p, hosts, portNode) ELSE DefaultFlowTable(hosts, portNode),
         ~ \E s \in DOMAIN entries : \E j \in 1 .. Len(entries[s]) : entries[s][j] = DivisionByZero
  PROVE  /\ DOMAIN entries = DOMAIN portNode
         /\ \A s \in DOMAIN portNode : entries[s] \in Seq(FlowTableEntries(hosts, Ports(portNode, s)))
  <1>1. CASE p > 0
    <2>1. /\ DOMAIN entries = DOMAIN portNode
          /\ \A s \in DOMAIN portNode :
               entries[s] \in Seq(FlowTableEntries(hosts, Ports(portNode, s)) \cup {DivisionByZero})
      BY <1>1, FattreeTablesAre
    <2>2. ASSUME NEW s \in DOMAIN portNode
          PROVE  entries[s] \in Seq(FlowTableEntries(hosts, Ports(portNode, s)))
      <3> DEFINE F == FlowTableEntries(hosts, Ports(portNode, s))
                 seq == entries[s]
      <3>1. seq \in Seq(F \cup {DivisionByZero}) /\ \A j \in 1 .. Len(seq) : seq[j] # DivisionByZero
        BY <2>1
      <3> HIDE DEF F, seq
      <3>2. Len(seq) \in Nat /\ seq \in [1 .. Len(seq) -> F \cup {DivisionByZero}]
        BY <3>1, LenProperties
      <3>3. seq \in [1 .. Len(seq) -> F]
        BY <3>1, <3>2
      <3>4. seq \in Seq(F)
        BY <3>2, <3>3, FunctionIsSeq
      <3> QED
        BY <3>4 DEF F, seq
    <2> QED
      BY <2>1, <2>2
  <1>2. CASE ~(p > 0)
    <2>1. entries \in Tables(hosts, portNode)
      BY <1>2, DefaultTablesAre
    <2> QED
      BY <2>1 DEF Tables
  <1> QED
    BY <1>1, <1>2

LEMMA BuildFlowTablesTables ==
  ASSUME IInv, BuildInv, BuildFlowTables
  PROVE  BuildInv'
  <1> DEFINE hosts == [h \in DOMAIN hostNodes |-> HostNode(h)]
             portNode == [s \in DOMAIN switchNodes |-> SwitchNode(s)]
             entries == IF podNum > 0 THEN BuildFattreeFlowTable(podNum, hosts, portNode)
                                      ELSE DefaultFlowTable(hosts, portNode)
             dividesByZero ==
               \E s \in DOMAIN entries : \E j \in 1 .. Len(entries[s]) : entries[s][j] = DivisionByZero
  <1>1. /\ phase = "read" /\ UNCHANGED <<file, switchNodes, hostNodes>>
        /\ \A h \in DOMAIN hostNodes : hostNodes[h].address # 0
        /\ IF dividesByZero
           THEN phase' = "crashed" /\ UNCHANGED flowTables
           ELSE phase' = "tables" /\ flowTables' = [s \in DOMAIN entries |-> FileEntries(entries[s])]
    BY DEF BuildFlowTables
  <1>2. CASE dividesByZero
    BY <1>1, <1>2, TablesStay
  <1>3. CASE ~dividesByZero
    <2>1. IsNetwork(hosts, portNode)
      BY <1>1, NetworkIs
    <2>2. /\ DOMAIN hosts = DOMAIN hostNodes /\ DOMAIN portNode = DOMAIN switchNodes
          /\ \A h \in DOMAIN hostNodes : hosts[h].address = hostNodes[h].address
      BY DEF HostNode
    <2>3. \A s \in DOMAIN switchNodes : Ports(portNode, s) = 0 .. Len(switchNodes[s].switchDevices) - 1
      BY <1>1, PortsAre
    <2>4. /\ ~dividesByZero
          /\ phase' = "tables" /\ flowTables' = [s \in DOMAIN entries |-> FileEntries(entries[s])]
      BY <1>1, <1>3
    <2> HIDE DEF hosts, portNode
    <2>5. /\ DOMAIN entries = DOMAIN portNode
          /\ \A s \in DOMAIN portNode : entries[s] \in Seq(FlowTableEntries(hosts, Ports(portNode, s)))
      BY <1>3, <2>1, SoundTables
    <2> HIDE DEF entries, dividesByZero
    <2>6. ASSUME NEW s \in DOMAIN flowTables', NEW a \in DOMAIN flowTables'[s]
          PROVE  /\ a \in {hostNodes'[h].address : h \in DOMAIN hostNodes'}
                 /\ flowTables'[s][a] # {}
                 /\ flowTables'[s][a] \subseteq 0 .. Len(switchNodes'[s].switchDevices) - 1
      <3>1. s \in DOMAIN switchNodes /\ flowTables'[s] = FileEntries(entries[s])
        BY <2>2, <2>4, <2>5
      <3>2. /\ a \in {hosts[h].address : h \in DOMAIN hosts}
            /\ flowTables'[s][a] \in (SUBSET Ports(portNode, s)) \ {{}}
        BY <2>2, <2>5, <3>1, FileEntriesAre
      <3>3. a \in {hostNodes[h].address : h \in DOMAIN hostNodes}
        BY <2>2, <3>2
      <3>4. Ports(portNode, s) = 0 .. Len(switchNodes[s].switchDevices) - 1
        BY <2>3, <3>1
      <3> QED
        BY <1>1, <3>2, <3>3, <3>4
    <2>7. TablesInv'
      BY <2>4, <2>6 DEF TablesInv, TablesNameWhatExists
    <2>8. PlacesInv' /\ NumbersInv'
      BY <1>1 DEF BuildInv, PlacesInv, PlacedIn, HostPlaced, NumbersInv
    <2> QED
      BY <2>7, <2>8 DEF BuildInv
  <1> QED
    BY <1>2, <1>3

LEMMA InitTables == ASSUME Init PROVE BuildInv
  <1>1. /\ DOMAIN switchNodes = {} /\ DOMAIN hostNodes = {} /\ DOMAIN flowTables = {} /\ flowTables = <<>>
        /\ file = NoFile
    BY DEF Init
  <1>2. PlacesInv
    BY <1>1 DEF PlacesInv, PlacedIn
  <1>3. NumbersInv
    <2>1. {} = 0 .. 0 - 1
      OBVIOUS
    <2>2. file.switchNum = 0 /\ file.hostNum = 0
      BY <1>1 DEF NoFile, File
    <2> QED
      BY <1>1, <2>1, <2>2 DEF NumbersInv
  <1>4. TablesInv
    BY <1>1 DEF TablesInv, TablesNameWhatExists
  <1> QED
    BY <1>2, <1>3, <1>4 DEF BuildInv

LEMMA NextTables == ASSUME IInv, BuildInv, [Next]_vars PROVE BuildInv'
  <1>1. ASSUME NEW p \in PodNums, WriteFattree(p)
        PROVE  BuildInv'
    <2>1. PICK start : file' = FattreeFile(p, start)
      BY <1>1 DEF WriteFattree
    <2>2. p \in Nat
      BY P4NetworkAssumption
    <2>3. file'.switchNum \in Nat /\ file'.hostNum \in Nat
      BY <2>1, <2>2, FattreeNumbers
    <2> QED
      BY <1>1, <2>3, FileTables DEF WriteFattree
  <1>2. ASSUME NEW l \in TreeLevelNums, WriteBinaryTree(l)
        PROVE  BuildInv'
    <2>1. l \in Nat
      BY P4NetworkAssumption
    <2>2. file' = BinaryTreeFile(l)
      BY <1>2 DEF WriteBinaryTree
    <2>3. file'.switchNum \in Nat /\ file'.hostNum \in Nat
      BY <2>1, <2>2, BinaryTreeNumbers
    <2> QED
      BY <1>2, <2>3, FileTables DEF WriteBinaryTree
  <1>3. ASSUME NEW f \in GivenFiles, UseGiven(f)
        PROVE  BuildInv'
    BY <1>3, P4NetworkAssumption, FileTables DEF UseGiven
  <1>4. ASSUME RefuseLink
        PROVE  BuildInv'
    BY <1>4, TablesStay DEF RefuseLink
  <1>5. ASSUME InstallSwitch
        PROVE  BuildInv'
    <2>1. /\ phase = "tables" /\ phase' \in {"running", "tables"}
          /\ UNCHANGED <<file, switchNodes, hostNodes, flowTables>>
      BY <1>5 DEF InstallSwitch
    <2> QED
      BY <2>1, TablesStay
  <1>6. ASSUME NEW h \in DOMAIN hostNodes, NEW d \in DOMAIN hostNodes, Send(h, d)
        PROVE  BuildInv'
    BY <1>6, TablesStay DEF Send
  <1>7. ASSUME SwitchForwards
        PROVE  BuildInv'
    <2>1. UNCHANGED <<file, switchNodes, hostNodes, flowTables>>
      BY <1>7 DEF SwitchForwards
    <2>2. phase' = phase \/ phase' = "crashed"
      BY <1>7 DEF SwitchForwards, SendNs3Packet
    <2> QED
      BY <2>1, <2>2, TablesStay
  <1>8. ASSUME HostReceives
        PROVE  BuildInv'
    BY <1>8, TablesStay DEF HostReceives
  <1>9. ASSUME UNCHANGED vars
        PROVE  BuildInv'
    BY <1>9, TablesStay DEF vars
  <1> QED
    BY <1>1, <1>2, <1>3, <1>4, <1>5, <1>6, <1>7, <1>8, <1>9, ReadTopologyTables, InstallLinkTables,
       AssignAddressTables, BuildFlowTablesTables DEF Next

-----------------------------------------------------------------------------
(* What it implies.                                                        *)

LEMMA RangeIsIn ==
  ASSUME NEW S, NEW seq \in Seq(S)
  PROVE  Range(seq) \subseteq S
  BY ElementOfSeq, LenProperties DEF Range

LEMMA PresentIsDevice == ASSUME IInv PROVE Present \subseteq Device
  BY DEF IInv, LinksInv, Present, Device

LEMMA TypeOKHolds == ASSUME IInv PROVE TypeOK
  <1>1. /\ phase \in {"start", "file", "read", "tables", "running", "aborted", "crashed"}
        /\ podNum \in PodNums \cup {0}
    BY DEF IInv, StageInv
  <1>2. ASSUME NEW s \in DOMAIN switchNodes
        PROVE  /\ Range(switchNodes[s].switchDevices) \subseteq Device
               /\ Len(switchNodes[s].switchPortInfos) = Len(switchNodes[s].switchDevices)
    <2>1. /\ switchNodes[s].switchDevices \in Seq(Present)
          /\ Len(switchNodes[s].switchPortInfos) = Len(switchNodes[s].switchDevices)
      BY DEF IInv, SwitchesInv, Wired
    <2> QED
      BY <2>1, RangeIsIn, PresentIsDevice
  <1>3. ASSUME NEW h \in DOMAIN hostNodes
        PROVE  /\ Range(hostNodes[h].hostDevice) \subseteq Device
               /\ hostNodes[h].hostDevice # <<>> => hostNodes[h].linkSwitchIndex \in DOMAIN switchNodes
               /\ hostNodes[h].address \in Nat
    <2> DEFINE host == hostNodes[h]
    <2>1. Linked(switchNodes, Present, host)
      BY DEF IInv, HostsInv
    <2> HIDE DEF host
    <2>2. /\ host.hostDevice \in Seq(Present) /\ host.address \in Nat
          /\ host.hostDevice # <<>> => host.linkSwitchIndex \in DOMAIN switchNodes
      BY <2>1 DEF Linked
    <2>3. Range(host.hostDevice) \subseteq Device
      BY <2>2, RangeIsIn, PresentIsDevice
    <2> QED
      BY <2>2, <2>3 DEF host
  <1>4. CASE packet = NoPacket
    BY <1>1, <1>2, <1>3, <1>4 DEF TypeOK
  <1>5. CASE packet # NoPacket
    <2>1. DOMAIN m_ports = DOMAIN switchNodes /\ OnPath(packet)
      BY <1>5 DEF IInv, PacketInv
    <2>2. /\ packet \in [state : {"travelling", "delivered", "ignored", "dropped"}, to : Nat, at : Present,
                         visited : Seq(Hops)]
          /\ Joined(packet.visited)
      BY <2>1, PathIs
    <2>3. packet.state \in {"travelling", "delivered", "ignored", "dropped"} /\ packet.at \in Device
      BY <2>2, PresentIsDevice
    <2>4. ASSUME NEW k \in DOMAIN packet.visited
          PROVE  /\ packet.visited[k].switch \in DOMAIN m_ports
                 /\ packet.visited[k].inPort \in 0 .. Len(m_ports[packet.visited[k].switch]) - 1
                 /\ packet.visited[k].outPort \in 0 .. Len(m_ports[packet.visited[k].switch]) - 1
      <3> DEFINE visited == packet.visited
                 s == visited[k].switch
      <3>1. visited \in Seq(Hops) /\ k \in 1 .. Len(visited)
        BY <2>2, LenProperties
      <3>2. visited[k] \in Hops
        <4> HIDE DEF visited
        <4> QED
          BY <3>1, ElementOfSeq
      <3>3. s \in DOMAIN switchNodes
        BY <3>2 DEF Hops
      <3>4. m_ports[s] = switchNodes[s].switchDevices
        BY <2>1, <3>3 DEF IInv, DevicesInv
      <3> QED
        BY <2>1, <2>2, <3>1, <3>3, <3>4 DEF Joined
    <2> QED
      BY <1>1, <1>2, <1>3, <2>3, <2>4 DEF TypeOK
  <1> QED
    BY <1>4, <1>5

LEMMA PortInfosMatchDevicesHolds == ASSUME IInv PROVE PortInfosMatchDevices
  <1>1. ASSUME NEW s \in DOMAIN switchNodes, NEW p \in 1 .. Len(switchNodes[s].switchDevices)
        PROVE  Matches(switchNodes, s, switchNodes[s].switchDevices[p], switchNodes[s].switchPortInfos[p])
    BY DEF IInv, SwitchesInv, Matched
  <1>2. ASSUME NEW h \in DOMAIN hostNodes, Len(hostNodes[h].hostDevice) = 1
        PROVE  /\ hostNodes[h].linkSwitchPort \in
                    0 .. Len(switchNodes[hostNodes[h].linkSwitchIndex].switchDevices) - 1
               /\ OtherEnd(hostNodes[h].hostDevice[1]) =
                    switchNodes[hostNodes[h].linkSwitchIndex].switchDevices[hostNodes[h].linkSwitchPort + 1]
    BY <1>2 DEF IInv, HostsInv, Linked
  <1> QED
    BY <1>1, <1>2 DEF PortInfosMatchDevices, Matches

\* What port information can be.
LEMMA InfoIs ==
  ASSUME NEW S, NEW H, NEW info \in Infos(S, H)
  PROVE  /\ info.type = "s" => info = SwitchInfo(info.index, info.port) /\ info.port \in Nat
         /\ info.type = "h" => info = HostInfo(info.index) /\ info.index \in H
  <1>1. CASE info \in [type : {"s"}, index : S, port : Nat]
    BY <1>1 DEF SwitchInfo
  <1>2. CASE info \in [type : {"h"}, index : H, port : {0}]
    BY <1>2 DEF HostInfo
  <1> QED
    BY <1>1, <1>2 DEF Infos

\* A hop, with the information of the port it left through.
LEMMA HopIs ==
  ASSUME IInv, NEW hop \in Hops, hop.outPort \in 0 .. Len(switchNodes[hop.switch].switchDevices) - 1
  PROVE  /\ PortInfo(hop) \in AllInfos
         /\ Matches(switchNodes, hop.switch, Port(hop.switch, hop.outPort), PortInfo(hop))
  <1> DEFINE s == hop.switch
             p == hop.outPort + 1
             devices == switchNodes[s].switchDevices
             infos == switchNodes[s].switchPortInfos
  <1>1. s \in DOMAIN switchNodes
    BY DEF Hops
  <1>2. /\ devices \in Seq(Present) /\ infos \in Seq(AllInfos) /\ Len(infos) = Len(devices)
    BY <1>1 DEF IInv, SwitchesInv, Wired
  <1>3. p \in 1 .. Len(devices)
    <2> DEFINE n == Len(devices)
               port == hop.outPort
    <2>1. n \in Nat /\ port \in 0 .. n - 1
      BY <1>2, LenProperties
    <2> HIDE DEF n, port
    <2>2. port + 1 \in 1 .. n
      BY <2>1
    <2> QED
      BY <2>2 DEF n, port
  <1>4. Matches(switchNodes, s, devices[p], infos[p])
    BY <1>1, <1>3 DEF IInv, SwitchesInv, Matched
  <1>5. infos[p] \in AllInfos
    <2> HIDE DEF p, infos, devices
    <2> QED
      BY <1>2, <1>3, ElementOfSeq
  <1> QED
    BY <1>4, <1>5 DEF PortInfo, Port

LEMMA HopFollows ==
  ASSUME IInv, NEW hop \in Hops, NEW next \in Hops, next.switch # hop.switch,
         hop.outPort \in 0 .. Len(switchNodes[hop.switch].switchDevices) - 1,
         next.inPort \in 0 .. Len(switchNodes[next.switch].switchDevices) - 1,
         Port(next.switch, next.inPort) = OtherEnd(Port(hop.switch, hop.outPort))
  PROVE  PortInfo(hop) = SwitchInfo(next.switch, next.inPort)
  <1> DEFINE s == hop.switch
             t == next.switch
             info == PortInfo(hop)
             other == OtherEnd(Port(hop.switch, hop.outPort))
             devices == switchNodes[t].switchDevices
             q == next.inPort + 1
  <1>1. info \in AllInfos /\ Matches(switchNodes, s, Port(hop.switch, hop.outPort), info)
    BY HopIs
  <1>2. t \in DOMAIN switchNodes /\ next.inPort \in Nat
    BY DEF Hops
  <1>3. /\ Wired(switchNodes, Present, AllInfos)
        /\ Len(devices) \in Nat
    BY <1>2, LenProperties DEF IInv, SwitchesInv, Wired
  <1>4. q \in 1 .. Len(devices) /\ devices[q] = other
    <2>1. next.inPort \in 0 .. Len(devices) - 1 /\ devices[q] = other
      BY DEF Port
    <2> DEFINE n == Len(devices)
               port == next.inPort
    <2>2. n \in Nat /\ port \in 0 .. n - 1
      BY <1>3, <2>1
    <2> HIDE DEF n, port
    <2>3. port + 1 \in 1 .. n
      BY <2>2
    <2> QED
      BY <2>1, <2>3 DEF n, port
  <1>5. OnSwitch(other, t)
    BY <1>2, <1>3, <1>4 DEF Wired
  <1>6. NodeOf(other).type = "s" /\ NodeOf(other).index = t
    BY <1>5 DEF OnSwitch
  <1>7. /\ info.type = "s" /\ info.index = t
        /\ info.port \in 0 .. Len(devices) - 1 /\ devices[info.port + 1] = other
    <2>1. info.type = "s" /\ info.index = t
      BY <1>1, <1>6 DEF Matches
    <2> QED
      BY <1>1, <2>1 DEF Matches
  <1>8. info = SwitchInfo(t, info.port) /\ info.port \in Nat
    BY <1>1, <1>7, InfoIs DEF AllInfos
  <1> HIDE DEF info
  <1>9. info.port + 1 = q
    <2> DEFINE n == Len(devices)
               port == info.port
    <2>1. n \in Nat /\ port \in 0 .. n - 1
      BY <1>3, <1>7
    <2> HIDE DEF n, port
    <2>2. port + 1 \in 1 .. n
      BY <2>1
    <2>3. port + 1 \in 1 .. Len(devices) /\ devices[port + 1] = devices[q]
      BY <1>4, <1>7, <2>2 DEF n, port
    <2>4. port + 1 = q
      <3> HIDE DEF q, t
      <3> QED
        BY <1>2, <1>3, <1>4, <2>3, OnePlace DEF t
    <2> QED
      BY <2>4 DEF port
  <1>10. info.port = next.inPort
    BY <1>2, <1>8, <1>9
  <1> QED
    BY <1>8, <1>10 DEF info

LEMMA HopsFollowPortInfosHolds == ASSUME IInv PROVE HopsFollowPortInfos
  <1> SUFFICES ASSUME packet # NoPacket
               PROVE  /\ \A k \in DOMAIN packet.visited :
                           k + 1 \in DOMAIN packet.visited
                           /\ packet.visited[k + 1].switch # packet.visited[k].switch
                           => PortInfo(packet.visited[k]) =
                                SwitchInfo(packet.visited[k + 1].switch, packet.visited[k + 1].inPort)
                      /\ packet.state = "delivered" =>
                           \E h \in DOMAIN hostNodes :
                             /\ hostNodes[h].address = packet.to
                             /\ PortInfo(packet.visited[Len(packet.visited)]) = HostInfo(h)
    BY DEF HopsFollowPortInfos
  <1> DEFINE visited == packet.visited
             n == Len(visited)
  <1>1. OnPath(packet)
    BY DEF IInv, PacketInv
  <1>2. /\ visited \in Seq(Hops) /\ Joined(visited) /\ LeadsTo(visited, packet.at)
        /\ packet.state = "delivered" =>
             /\ NodeOf(packet.at).type = "h"
             /\ hostNodes[NodeOf(packet.at).index - topoReader.switchNum].address = packet.to
    <2>1. packet \in [state : {"travelling", "delivered", "ignored", "dropped"}, to : Nat, at : Present,
                      visited : Seq(Hops)]
      BY <1>1, PathIs
    <2>2. visited \in Seq(Hops)
      BY <2>1
    <2> QED
      BY <1>1, <2>2, PathIs
  <1> HIDE DEF visited
  <1>3. n \in Nat /\ DOMAIN visited = 1 .. n /\ \A k \in 1 .. n : visited[k] \in Hops
    BY <1>2, LenProperties, ElementOfSeq
  <1>4. ASSUME NEW k \in DOMAIN visited, k + 1 \in DOMAIN visited,
               visited[k + 1].switch # visited[k].switch
        PROVE  PortInfo(visited[k]) = SwitchInfo(visited[k + 1].switch, visited[k + 1].inPort)
    <2> DEFINE hop == visited[k]
               next == visited[k + 1]
    <2>1. k \in 1 .. n /\ k + 1 \in 1 .. n /\ k \in 1 .. n - 1
      BY <1>3, <1>4
    <2>2. /\ hop \in Hops /\ next \in Hops /\ next.switch # hop.switch
          /\ hop.outPort \in 0 .. Len(switchNodes[hop.switch].switchDevices) - 1
          /\ next.inPort \in 0 .. Len(switchNodes[next.switch].switchDevices) - 1
          /\ Port(next.switch, next.inPort) = OtherEnd(Port(hop.switch, hop.outPort))
      BY <1>2, <1>3, <1>4, <2>1 DEF Joined
    <2> HIDE DEF hop, next
    <2>3. PortInfo(hop) = SwitchInfo(next.switch, next.inPort)
      BY <2>2, HopFollows
    <2> QED
      BY <2>3 DEF hop, next
  <1>5. ASSUME packet.state = "delivered"
        PROVE  \E h \in DOMAIN hostNodes :
                 hostNodes[h].address = packet.to /\ PortInfo(visited[n]) = HostInfo(h)
    <2> DEFINE last == visited[n]
               h == NodeOf(packet.at).index - topoReader.switchNum
    <2>1. visited # <<>> /\ packet.at = OtherEnd(Port(last.switch, last.outPort))
      BY <1>2, <1>5 DEF LeadsTo
    <2>2. n \in 1 .. n
      <3>1. n # 0
        BY <1>2, <2>1, EmptySeq
      <3> HIDE DEF n
      <3> QED
        BY <1>3, <3>1
    <2>3. last \in Hops /\ last.outPort \in 0 .. Len(switchNodes[last.switch].switchDevices) - 1
      BY <1>2, <1>3, <2>2 DEF Joined
    <2> HIDE DEF last
    <2>4. /\ PortInfo(last) \in AllInfos
          /\ Matches(switchNodes, last.switch, Port(last.switch, last.outPort), PortInfo(last))
      BY <2>3, HopIs
    <2>5. PortInfo(last).type = "h" /\ PortInfo(last).index = h
      BY <1>2, <1>5, <2>1, <2>4 DEF Matches
    <2>6. PortInfo(last) = HostInfo(h) /\ h \in DOMAIN hostNodes
      BY <2>4, <2>5, InfoIs DEF AllInfos
    <2>7. hostNodes[h].address = packet.to
      BY <1>2, <1>5
    <2> QED
      BY <2>6, <2>7 DEF last
  <1> QED
    BY <1>4, <1>5 DEF visited

-----------------------------------------------------------------------------
(* The theorems.                                                           *)

\* The network and the packet have the shape they should at every stage of
\* main, whatever the topology file and the flow tables.
THEOREM TypesHold == Spec => []TypeOK
  BY Invariance, TypeOKHolds, PTL

\* What main notes of the ports of switches and of hosts is what their
\* devices lead to, for every topology file (p4-simple-forward.cc 288-318).
THEOREM PortInfosMatch == Spec => []PortInfosMatchDevices
  BY Invariance, PortInfosMatchDevicesHolds, PTL

\* A packet goes where the port information says, whatever the flow tables
\* (p4-net-device.cc 107-156).
THEOREM HopsFollow == Spec => []HopsFollowPortInfos
  BY Invariance, HopsFollowPortInfosHolds, PTL

\* Every switch runs the program of the function the file names, or the one
\* p4src names for all of them, whatever the globals were left at by the switch
\* before it (global.cc 98-172, p4-simple-forward.cc 477-503).
THEOREM FunctionsAreAsNamed == Spec => []FunctionsAsNamed
  <1>1. IInv => FunctionsAsNamed
    BY DEF IInv, DevicesInv
  <1> QED
    BY <1>1, Invariance, PTL

\* The flow tables that are built have entries for addresses of hosts only,
\* and give each a port of the switch, for every topology file and whatever
\* rand() chooses (build-flowtable-helper.cc 26-144 and 344-391).
THEOREM TablesAreSound == Spec => []TablesNameWhatExists
  <1>1. Init => IInv /\ BuildInv
    BY InitInv, InitTables
  <1>2. IInv /\ BuildInv /\ [Next]_vars => (IInv /\ BuildInv)'
    BY NextInv, NextTables
  <1>3. IInv /\ BuildInv => TablesNameWhatExists
    BY DEF BuildInv, TablesInv
  <1> QED
    BY <1>1, <1>2, <1>3, PTL DEF Spec
=============================================================================
