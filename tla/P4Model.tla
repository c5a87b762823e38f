------------------------------ MODULE P4Model ------------------------------
(***************************************************************************)
(* The switch: class P4Model of model/p4-model.cc.  A packet handed over   *)
(* by the net device waits in the input buffer for the ingress pipeline,   *)
(* then in an egress buffer for the egress pipeline, then in the output    *)
(* buffer to be given back to the net device.  Three events of the         *)
(* simulator, each of which schedules itself again, move it along.         *)
(*                                                                         *)
(* The simulator runs one event at a time: an event is one action.  The    *)
(* code comes from a threaded program and still waits on condition         *)
(* variables; here nobody is left to signal them, so an event that waits   *)
(* stops the whole simulation (phase).                                     *)
(*                                                                         *)
(* The loaded P4 program is a choice among the outcomes of its ingress and *)
(* egress pipelines.  The packet replication engine of bmv2 is the         *)
(* constant Groups.                                                        *)
(***************************************************************************)
EXTENDS Integers, Sequences, FiniteSets

CONSTANTS
  BottleNeck,          \* g_switchBottleNeck, in ticks
  IngressFast, IngressSlow,  \* 100us and 1ms, in ticks
  BusyThreshold,       \* 10: from this size on the ingress is in a hurry
  NormalCapacity,      \* 10240
  ResubmitCapacity,    \* 1024
  EgressCapacity,      \* 10240, per port and priority
  OutputCapacity,      \* 10240
  Ports,               \* the egress ports that are ever named
  PolledPorts,         \* 0 .. 7: the ports egress_thread looks at
  drop_port,           \* 511
  NbPriorities,        \* nb_queues_per_port
  Groups,              \* multicast group -> port -> the copies it gets; none
                       \* in a group that is not configured, such as group 0
  MirrorConfigs,       \* the mirroring sessions that may be configured
  Depths,              \* the arguments of the set_egress_ depth functions
  IngressOutcomes, EgressOutcomes,  \* what the P4 program may decide
  Destinations,        \* the addresses packets are sent to
  Tagged,              \* whether packets carry a delay tag: a set of booleans
  DestinationSize,     \* 2^16: ns3i.destination is bit<16>
  MaxMirrorSessionId,  \* 0x7FFF
  MaxPackets,          \* bound: packets that arrive
  MaxPasses            \* bound: times one packet is copied or sent back

None == -1

ASSUME P4ModelAssumption ==
  /\ BottleNeck \in Nat
  /\ IngressFast \in Nat
  /\ IngressSlow \in Nat
  /\ OutputCapacity \in Nat \ {0}
  /\ NormalCapacity \in Nat \ {0}

\* What the P4 program and the control plane name exists, and numbers are
\* numbers: what it takes for the variables to have types.
ASSUME P4ProgramAssumption ==
  /\ EgressCapacity \in Nat /\ Depths \subseteq Nat
  /\ NbPriorities \in Nat /\ MaxPasses \in Nat
  /\ DestinationSize \in Nat \ {0}
  /\ \A g \in DOMAIN Groups : Groups[g] \in [Ports -> Nat]
  /\ MirrorConfigs \subseteq
       [mgid_valid : BOOLEAN, mgid : DOMAIN Groups,
        egress_port_valid : BOOLEAN, egress_port : Ports]
  /\ IngressOutcomes \subseteq
       [egress_spec : Ports \cup {drop_port}, priority : Nat, clone : {None} \cup Nat,
        mgid : DOMAIN Groups, resubmit : BOOLEAN, keeps : BOOLEAN]
  /\ EgressOutcomes \subseteq
       [egress_spec : Ports \cup {drop_port}, clone : {None} \cup Nat,
        recirculate : BOOLEAN, keeps : BOOLEAN]

Priorities == 0 .. NbPriorities - 1
MirrorIds == 0 .. MaxMirrorSessionId

VARIABLES
  phase,               \* "running", or where the simulation stopped
  left,                \* ticks until each of the events
  input_buffer,
  queue, limit,        \* egress_buffers
  output_buffer,
  destination_list,    \* the addresses seen so far
  tag_map,             \* the packets whose delay tag is kept
  m_pktID,
  sessions             \* mirroring_sessions

vars == <<phase, left, input_buffer, queue, limit, output_buffer,
          destination_list, tag_map, m_pktID, sessions>>

input == INSTANCE InputBuffer WITH
  capacity_hi <- NormalCapacity, capacity_lo <- ResubmitCapacity

\* What a packet is called in the metadata the switch adds for ns-3; after
\* reset_metadata it is the first packet, on its way to the first address.
Ns3Info == [pkts_id : Nat, destination : 0 .. DestinationSize - 1]
NoNs3Info == [pkts_id |-> 0, destination |-> 0]

InstanceTypes ==
  {"NORMAL", "INGRESS_CLONE", "EGRESS_CLONE", "RECIRC", "REPLICATION", "RESUBMIT"}

\* packet_id and to are what the packet is; ns3i and priority are fields of
\* the P4 program's metadata; passes counts the copies up to MaxPasses.
Packet ==
  [packet_id : Nat, to : Destinations, ns3i : Ns3Info, priority : Nat,
   instance_type : InstanceTypes, egress_port : Ports \cup {None},
   passes : 0 .. MaxPasses]

egress_buffers == INSTANCE DropTailQueues WITH
  QueueIds <- Ports, Items <- Packet, InitLimit <- EgressCapacity, Limits <- Depths
Slots == egress_buffers!Slots

-----------------------------------------------------------------------------
(* The three events.  A time reference of zero keeps two of them from being *)
(* scheduled; the transmit event is guarded by the reference of the egress. *)

IngressReference == BottleNeck \div 2
EgressReference == BottleNeck

\* Mutants of TransmitReference: as slow as two egress events; no time at all.
TransmitReferenceDoubled == 2 * BottleNeck
TransmitReferenceZero == 0

TransmitReference == BottleNeck \div 2

Events ==
  {e \in {"ingress"} : IngressReference # 0} \cup
  {e \in {"egress", "transmit"} : EgressReference # 0}

Reference ==
  [ingress |-> IngressReference, egress |-> EgressReference,
   transmit |-> TransmitReference]

\* The delay with which an event schedules itself again.
Period(e) ==
  IF e = "ingress"
    THEN IF input!get_size > BusyThreshold THEN IngressFast ELSE IngressSlow
    ELSE Reference[e]

\* Of two events due at the same time the simulator runs the one that was
\* scheduled first: the one with the longer period.
Runs(e) ==
  /\ phase = "running"
  /\ e \in Events
  /\ left[e] = 0
  /\ \A f \in Events : left[f] = 0 => Period(f) <= Period(e)
  /\ left' = [left EXCEPT ![e] = Period(e)]

\* Time passes until an event is due.
Tick ==
  /\ phase = "running"
  /\ \A e \in Events : left[e] > 0
  /\ left' = [e \in Events |-> left[e] - 1]
  /\ UNCHANGED <<phase, input_buffer, queue, limit, output_buffer,
                 destination_list, tag_map, m_pktID, sessions>>

-----------------------------------------------------------------------------
(* Putting packets into the egress buffers.                                *)

\* enqueue: a packet whose priority has no queue is dropped, and so is one
\* whose queue is full.
enqueue(queues, port, packet) ==
  IF packet.priority >= NbPriorities
    THEN queues
    ELSE egress_buffers!Offered(queues, <<port, NbPriorities - 1 - packet.priority>>,
                                [packet EXCEPT !.egress_port = port])

\* multicast: copies, with all its metadata, for the ports of the group.  The
\* copies for one queue are all alike, and it takes those that fit.
multicast(queues, packet, mgid) ==
  [s \in Slots |->
     IF packet.priority = NbPriorities - 1 - s[2]
       THEN egress_buffers!Filled(queues, s, [packet EXCEPT !.egress_port = s[1]],
                                  Groups[mgid][s[1]])
       ELSE queues[s]]

\* Mutant of copied: the field list is not applied.
copied_without_fields(packet, type, keeps) ==
  [packet EXCEPT !.ns3i = NoNs3Info, !.priority = 0,
                 !.instance_type = type, !.passes = @ + 1]

\* copy_field_list_and_set_type: the metadata of a copy is zero, except for
\* the fields of the field list.
copied(packet, type, keeps) ==
  [packet EXCEPT !.ns3i = IF keeps THEN @ ELSE NoNs3Info,
                 !.priority = IF keeps THEN @ ELSE 0,
                 !.instance_type = type,
                 !.passes = @ + 1]

\* A clone, for the group and for the port of the mirroring session.
cloned(queues, session, copy) ==
  IF session \notin DOMAIN sessions
    THEN queues
    ELSE LET config  == sessions[session]
             grouped == IF config.mgid_valid
                          THEN multicast(queues, copy, config.mgid) ELSE queues
         IN  IF config.egress_port_valid
               THEN enqueue(grouped, config.egress_port, copy) ELSE grouped

-----------------------------------------------------------------------------
(* ReceivePacket.                                                          *)

IndexOf(address, list) == CHOOSE i \in DOMAIN list : list[i] = address

\* destination_list with the address in it, and the index the packet carries.
WithDestination(address) ==
  IF \E i \in DOMAIN destination_list : destination_list[i] = address
    THEN destination_list ELSE Append(destination_list, address)

DestinationIndex(address) ==
  (IndexOf(address, WithDestination(address)) - 1) % DestinationSize

Arrived(address) ==
  [packet_id |-> m_pktID, to |-> address,
   ns3i |-> [pkts_id |-> m_pktID, destination |-> DestinationIndex(address)],
   priority |-> 0, instance_type |-> "NORMAL", egress_port |-> None, passes |-> 0]

\* Mutant of Tags: the packet has been numbered before.
TagsAfterNumbering(tagged) == tag_map \cup {id \in {m_pktID + 1} : tagged}

\* tag_map with the tag of the packet, if it has one.
Tags(tagged) == tag_map \cup {id \in {m_pktID} : tagged}

\* When the arrivals fill their queue the caller, the net device of a
\* neighbour's event, waits for the ingress to make room.
ReceivePacket(address, tagged) ==
  /\ phase = "running"
  /\ m_pktID < MaxPackets
  /\ phase' = IF input!Blocks(input_buffer, "NORMAL") THEN "receiving" ELSE phase
  /\ input_buffer' = input!push_front(input_buffer, "NORMAL", Arrived(address))
  /\ destination_list' = WithDestination(address)
  /\ tag_map' = Tags(tagged)
  /\ m_pktID' = m_pktID + 1
  /\ UNCHANGED <<left, queue, limit, output_buffer, sessions>>

-----------------------------------------------------------------------------
(* RunIngressTimerEvent.                                                   *)

\* The packet after the ingress pipeline has decided on r.
Processed(r) == [input!back(input_buffer) EXCEPT !.priority = r.priority]

\* The egress buffers after ingress cloning, which comes before everything
\* else that may happen to the packet.
AfterIngressClone(r) ==
  IF r.clone = None
    THEN queue ELSE cloned(queue, r.clone, copied(Processed(r), "INGRESS_CLONE", r.keeps))

IngressIdle ==
  /\ Runs("ingress")
  /\ input!IsEmpty(input_buffer)
  /\ UNCHANGED <<phase, input_buffer, queue, limit, output_buffer,
                 destination_list, tag_map, m_pktID, sessions>>

IngressTakes(r) ==
  /\ Runs("ingress")
  /\ ~input!IsEmpty(input_buffer)
  /\ r.clone # None \/ r.resubmit => input!back(input_buffer).passes < MaxPasses
  /\ UNCHANGED <<phase, limit, output_buffer, destination_list, tag_map, m_pktID,
                 sessions>>

Resubmit(r) ==
  /\ IngressTakes(r)
  /\ r.resubmit
  /\ input_buffer' = input!push_front(input!pop_back(input_buffer), "RESUBMIT",
                                      copied(Processed(r), "RESUBMIT", r.keeps))
  /\ queue' = AfterIngressClone(r)

Multicast(r) ==
  /\ IngressTakes(r)
  /\ ~r.resubmit
  /\ r.mgid # 0
  /\ input_buffer' = input!pop_back(input_buffer)
  /\ queue' = multicast(AfterIngressClone(r),
                        [Processed(r) EXCEPT !.instance_type = "REPLICATION"], r.mgid)

IngressDrop(r) ==
  /\ IngressTakes(r)
  /\ ~r.resubmit
  /\ r.mgid = 0
  /\ r.egress_spec = drop_port
  /\ input_buffer' = input!pop_back(input_buffer)
  /\ queue' = AfterIngressClone(r)

Forward(r) ==
  /\ IngressTakes(r)
  /\ ~r.resubmit
  /\ r.mgid = 0
  /\ r.egress_spec # drop_port
  /\ input_buffer' = input!pop_back(input_buffer)
  /\ queue' = enqueue(AfterIngressClone(r), r.egress_spec,
                      [Processed(r) EXCEPT !.instance_type = "NORMAL"])

IngressEvent(r) == Resubmit(r) \/ Multicast(r) \/ IngressDrop(r) \/ Forward(r)

IngressStep == IngressIdle \/ \E r \in IngressOutcomes : IngressEvent(r)

-----------------------------------------------------------------------------
(* RunEgressTimerEvent.                                                    *)

\* Mutant of Polled: one port short.
PolledBelowLast ==
  \E s \in Slots : s[1] \in PolledPorts /\ s[1] + 1 \in PolledPorts /\ queue[s] # <<>>

\* egress_thread looks whether anything waits for the first eight ports
\* before it asks for an element of any port.
Polled == \E s \in Slots : s[1] \in PolledPorts /\ queue[s] # <<>>

\* Nothing waits, or nothing of what waits is due.
EgressIdle ==
  /\ Runs("egress")
  /\ UNCHANGED <<phase, input_buffer, queue, limit, output_buffer,
                 destination_list, tag_map, m_pktID, sessions>>

EgressTakes(s, r) ==
  /\ Runs("egress")
  /\ Polled
  /\ queue[s] # <<>>
  /\ r.clone # None \/ r.recirculate => Head(queue[s]).passes < MaxPasses
  /\ queue' = LET taken == [queue EXCEPT ![s] = Tail(@)]
              IN  IF r.clone = None THEN taken
                  ELSE cloned(taken, r.clone,
                              copied(Head(queue[s]), "EGRESS_CLONE", r.keeps))
  /\ UNCHANGED <<limit, destination_list, tag_map, m_pktID, sessions>>

EgressDrop(s, r) ==
  /\ EgressTakes(s, r)
  /\ r.egress_spec = drop_port
  /\ UNCHANGED <<phase, input_buffer, output_buffer>>

\* A recirculated packet that finds its queue full is dropped.
Recirculate(s, r) ==
  /\ EgressTakes(s, r)
  /\ r.egress_spec # drop_port
  /\ r.recirculate
  /\ input_buffer' = input!push_front(input_buffer, "RECIRCULATE",
                                      copied(Head(queue[s]), "RECIRC", r.keeps))
  /\ UNCHANGED <<phase, output_buffer>>

\* The event waits for room in the output buffer.
Output(s, r) ==
  /\ EgressTakes(s, r)
  /\ r.egress_spec # drop_port
  /\ ~r.recirculate
  /\ phase' = IF Len(output_buffer) >= OutputCapacity THEN "outputting" ELSE phase
  /\ output_buffer' = IF Len(output_buffer) >= OutputCapacity
                        THEN output_buffer ELSE Append(output_buffer, Head(queue[s]))
  /\ UNCHANGED input_buffer

EgressServes(s) ==
  \E r \in EgressOutcomes : EgressDrop(s, r) \/ Recirculate(s, r) \/ Output(s, r)

EgressStep == EgressIdle \/ \E s \in Slots : EgressServes(s)

-----------------------------------------------------------------------------
(* RunTransmitTimerEvent.                                                  *)

TransmitIdle ==
  /\ Runs("transmit")
  /\ output_buffer = <<>>
  /\ UNCHANGED <<phase, input_buffer, queue, limit, output_buffer,
                 destination_list, tag_map, m_pktID, sessions>>

\* The arguments of SendNs3Packet for the oldest packet of the output buffer:
\* the delay tag of the packet its metadata names goes with it, and it is sent
\* to the address at the index its metadata holds.
Sent ==
  LET packet == Head(output_buffer)
  IN  [packet |-> packet,
       tags |-> tag_map \cap {packet.ns3i.pkts_id},
       destination |-> destination_list[packet.ns3i.destination + 1]]

Transmit ==
  /\ Runs("transmit")
  /\ output_buffer # <<>>
  /\ tag_map' = tag_map \ Sent.tags
  /\ output_buffer' = Tail(output_buffer)
  /\ UNCHANGED <<phase, input_buffer, queue, limit, destination_list, m_pktID, sessions>>

TransmitStep == TransmitIdle \/ Transmit

-----------------------------------------------------------------------------
(* The control plane and the end of the simulation.                        *)

\* set_egress_priority_queue_depth, set_egress_queue_depth and
\* set_all_egress_queue_depths.
SetEgressDepth ==
  /\ phase = "running"
  /\ \E c \in Depths :
       \/ \E s \in Slots : egress_buffers!SetLimit({s}, c)
       \/ \E port \in Ports : egress_buffers!SetLimit({port} \X Priorities, c)
       \/ egress_buffers!SetLimit(Slots, c)
  /\ UNCHANGED <<phase, left, input_buffer, output_buffer, destination_list,
                 tag_map, m_pktID, sessions>>

MirroringAddSession(id, config) ==
  /\ phase = "running"
  /\ id \in MirrorIds
  /\ sessions' = [s \in DOMAIN sessions \cup {id} |->
                    IF s = id THEN config ELSE sessions[s]]
  /\ UNCHANGED <<phase, left, input_buffer, queue, limit, output_buffer,
                 destination_list, tag_map, m_pktID>>

MirroringDeleteSession(id) ==
  /\ phase = "running"
  /\ id \in MirrorIds
  /\ sessions' = [s \in DOMAIN sessions \ {id} |-> sessions[s]]
  /\ UNCHANGED <<phase, left, input_buffer, queue, limit, output_buffer,
                 destination_list, tag_map, m_pktID>>

\* ~P4Model leaves a sentinel in each of the three buffers, and waits or
\* tries again as long as one of them is full.
Destroy ==
  /\ phase = "running"
  /\ phase' = IF input!Blocks(input_buffer, "SENTINEL") THEN "stopping ingress"
              ELSE IF ~egress_buffers!Fits(<<0, 0>>) THEN "stopping egress"
              ELSE IF Len(output_buffer) >= OutputCapacity THEN "stopping output"
              ELSE "destroyed"
  /\ UNCHANGED <<left, input_buffer, queue, limit, output_buffer,
                 destination_list, tag_map, m_pktID, sessions>>

-----------------------------------------------------------------------------
Init ==
  /\ phase = "running"
  /\ left = [e \in Events |-> Reference[e]]
  /\ input_buffer = input!Empty
  /\ egress_buffers!Init
  /\ output_buffer = <<>>
  /\ destination_list = <<>>
  /\ tag_map = {}
  /\ m_pktID = 0
  /\ sessions = [id \in {} |-> None]

Simulation ==
  \/ Tick
  \/ \E address \in Destinations, tagged \in Tagged : ReceivePacket(address, tagged)
  \/ IngressStep \/ EgressStep \/ TransmitStep

ControlPlane ==
  \/ SetEgressDepth
  \/ \E id \in MirrorIds, config \in MirrorConfigs : MirroringAddSession(id, config)
  \/ \E id \in MirrorIds : MirroringDeleteSession(id)

Next == Simulation \/ ControlPlane \/ Destroy

Spec == Init /\ [][Next]_vars

\* The simulator runs every event that is due and lets time pass as long as
\* events are scheduled, and the egress buffers serve every element that is
\* due (DueIsServed of NSQueueingLogicPriRL).
Fairness ==
  /\ WF_vars(Tick)
  /\ WF_vars(IngressStep)
  /\ WF_vars(EgressStep)
  /\ WF_vars(TransmitStep)
  /\ \A s \in Slots : SF_vars(EgressServes(s))

-----------------------------------------------------------------------------
\* Every variable has its type.
TypeOK ==
  /\ phase \in {"running", "receiving", "outputting", "stopping ingress",
               "stopping egress", "stopping output", "destroyed"}
  /\ left \in [Events -> Nat]
  /\ input_buffer \in [hi : Seq(Packet), lo : Seq(Packet)]
  /\ queue \in [Slots -> Seq(Packet)]
  /\ limit \in [Slots -> Nat]
  /\ output_buffer \in Seq(Packet)
  /\ destination_list \in Seq(Destinations)
  /\ tag_map \subseteq 0 .. m_pktID - 1
  /\ m_pktID \in Nat
  /\ DOMAIN sessions \subseteq MirrorIds
  /\ sessions \in [DOMAIN sessions -> MirrorConfigs]

\* The blocking push at the end of egress_thread never blocks, however small
\* the output buffer is: the transmit event, which has half the period of the
\* egress event, always empties it in time.
OutputNeverBlocks == phase # "outputting" /\ Len(output_buffer) <= 1

\* A resubmitted packet is never lost, although the push of a resubmitted
\* packet gives up when its queue is full: the packet came out of that queue,
\* or the queue was empty.
ResubmitKeepsPacket ==
  [][\A r \in IngressOutcomes :
       Resubmit(r) => Len(input_buffer'.hi) + Len(input_buffer'.lo) =
                      Len(input_buffer.hi) + Len(input_buffer.lo)]_vars

\* The buffers a packet for the port and priority of slot s crosses, the end
\* of the way first.
Way(s) == output_buffer \o queue[s] \o input_buffer.lo

\* Place i of that way holds a packet that never was a copy; the output buffer
\* holds packets of other slots as well.
FirstPass(s, i) ==
  /\ Way(s)[i].passes = 0
  /\ i <= Len(output_buffer) =>
       s = <<Way(s)[i].egress_port, NbPriorities - 1 - Way(s)[i].priority>>

\* Packet p arrived before q, or both are replicas of one packet.
Precedes(p, q) ==
  \/ p.packet_id < q.packet_id
  \/ /\ p.packet_id = q.packet_id
     /\ p.instance_type = "REPLICATION" /\ q.instance_type = "REPLICATION"

\* Packets of one egress port and priority never overtake one another: they
\* cross the three buffers in the order they arrived in, whatever is cloned,
\* replicated, resubmitted and recirculated around them, and only multicast
\* puts a packet in a queue twice.
InOrder ==
  \A s \in Slots : \A i, j \in DOMAIN Way(s) :
    i < j /\ FirstPass(s, i) /\ FirstPass(s, j) => Precedes(Way(s)[i], Way(s)[j])

\* ReceivePacket stores the destination in the packet because "after the 3
\* buffers and Ingress Egress loops, or resubmit/ recirculaiton etc, maybe
\* bm::packet will get a different order": whatever way a packet took, it is
\* sent to the address it was received for.
DestinationPreserved == [][Transmit => Sent.destination = Sent.packet.to]_vars

\* A delay tag leaves with the packet it came with, and with one packet only:
\* once the tag is gone no copy still in the switch can take it again.
TagsBelong ==
  [][/\ Transmit => Sent.tags \subseteq {Sent.packet.packet_id}
     /\ tag_map' \ tag_map \subseteq {m_pktID}]_vars

\* Whatever waits for the ingress, for a port that egress_thread looks at, or
\* for the transmit event is moved on: if the simulation goes on for ever the
\* switch is empty in the end.
Drains ==
  [](phase = "running") =>
    <>[](/\ input!IsEmpty(input_buffer)
         /\ \A s \in Slots : s[1] \in PolledPorts => queue[s] = <<>>
         /\ output_buffer = <<>>)

\* The three events never keep the clock from advancing.
TimePasses == [](phase = "running") => []<><<Tick>>_vars

\* "Enqueueing normal packets is blocking (back pressure is applied to the
\* interface)": a caller that waits for room is let go.
BackPressureReleases == phase = "receiving" ~> phase = "running"

\* ~P4Model on its loop over the egress buffers: "It should not be an issue
\* because at this stage the ingress thread has been sent a signal to stop".
DestructorReturns == phase # "stopping egress"

\* The constructor's comments: "normal capacity" is what the arrivals get and
\* "resubmit/recirc capacity" what resubmitted and recirculated packets get.
CapacitiesAsNamed ==
  /\ Len(input_buffer.lo) <= NormalCapacity
  /\ Len(input_buffer.hi) <= ResubmitCapacity
=============================================================================
