--------------------------- MODULE P4ModelProofs ---------------------------
(***************************************************************************)
(* The output buffer of P4Model holds one packet at most, a packet that is *)
(* resubmitted always finds room, and what becomes of the packets in the   *)
(* buffers, for every P4 program, all capacities and all groups and        *)
(* mirroring sessions.                                                     *)
(***************************************************************************)
EXTENDS P4Model, SequenceTheorems, FiniteSetTheorems, TLAPS

\* The periods of the events are numbers of ticks.
LEMMA PeriodIsNat == \A e \in Events : Period(e) \in Nat /\ Reference[e] \in Nat
  <1>1. IngressReference \in Nat /\ EgressReference \in Nat /\ TransmitReference \in Nat
    BY P4ModelAssumption DEF IngressReference, EgressReference, TransmitReference
  <1>2. Events \subseteq {"ingress", "egress", "transmit"}
    BY DEF Events
  <1> QED
    BY <1>1, <1>2, P4ModelAssumption DEF Period, Reference

\* The transmit event has a shorter period than the egress event: half of it,
\* where no event at all is scheduled for a period of zero.
LEMMA TransmitIsFaster ==
  ASSUME "egress" \in Events
  PROVE  Period("transmit") < Period("egress")
  <1>1. BottleNeck \div 2 < BottleNeck
    BY P4ModelAssumption DEF Events, EgressReference
  <1> QED
    BY <1>1 DEF Period, Reference, EgressReference, TransmitReference

\* The egress and the transmit event are scheduled together.
LEMMA ScheduledTogether == "egress" \in Events <=> "transmit" \in Events
  BY DEF Events

\* The inductive invariant: as long as a packet waits in the output buffer
\* the transmit event comes before the next egress event.
OutputInv ==
  /\ left \in [Events -> Nat]
  /\ "transmit" \in Events => left["transmit"] <= Period("transmit")
  /\ phase # "outputting"
  /\ output_buffer = <<>> \/ output_buffer = <<output_buffer[1]>>
  /\ output_buffer # <<>> =>
       "transmit" \in Events /\ left["transmit"] < left["egress"]

\* What the steps that touch neither the events nor the output buffer keep.
LEMMA OutputInvUnchanged ==
  ASSUME OutputInv, UNCHANGED <<left, output_buffer>>, phase' # "outputting"
  PROVE  OutputInv'
  BY DEF OutputInv, Period

\* Init establishes the invariant.
LEMMA OutputInvInit == Init => OutputInv
  <1> SUFFICES ASSUME Init PROVE OutputInv
    OBVIOUS
  <1>1. left \in [Events -> Nat]
    BY PeriodIsNat DEF Init
  <1>2. "transmit" \in Events => left["transmit"] <= Period("transmit")
    BY PeriodIsNat DEF Init, Period
  <1> QED
    BY <1>1, <1>2 DEF Init, OutputInv

\* An event that is run gets its period again; the others keep their time.
LEMMA RunsAgain ==
  ASSUME OutputInv, NEW e, Runs(e)
  PROVE  /\ e \in Events
         /\ left[e] = 0
         /\ left' \in [Events -> Nat]
         /\ left'[e] = Period(e)
         /\ \A f \in Events \ {e} : left'[f] = left[f]
  BY PeriodIsNat DEF Runs, OutputInv

\* The egress event never finds a packet in the output buffer.
LEMMA EgressFindsEmpty ==
  ASSUME OutputInv, Runs("egress")
  PROVE  output_buffer = <<>>
  BY RunsAgain, ScheduledTogether DEF OutputInv

\* Every step keeps the invariant.
LEMMA OutputInvNext == OutputInv /\ [Next]_vars => OutputInv'
  <1> SUFFICES ASSUME OutputInv, [Next]_vars PROVE OutputInv'
    OBVIOUS
  <1> USE DEF OutputInv
  <1>1. CASE Tick
    <2>1. left' \in [Events -> Nat] /\ \A e \in Events : left'[e] = left[e] - 1
      BY <1>1 DEF Tick
    <2>2. phase' = phase /\ output_buffer' = output_buffer
      BY <1>1 DEF Tick
    <2>3. "transmit" \in Events => left'["transmit"] <= Period("transmit")'
      BY <2>1, PeriodIsNat DEF Period
    <2> QED
      BY <2>1, <2>2, <2>3, ScheduledTogether
  <1>2. ASSUME NEW address, NEW tagged, ReceivePacket(address, tagged) PROVE OutputInv'
    BY <1>2, OutputInvUnchanged DEF ReceivePacket
  <1>3. CASE IngressStep
    <2>1. Runs("ingress") /\ UNCHANGED <<phase, output_buffer>>
      BY <1>3 DEF IngressStep, IngressIdle, IngressEvent, Resubmit, Multicast,
                  IngressDrop, Forward, IngressTakes
    <2>2. /\ left' \in [Events -> Nat]
          /\ "transmit" \in Events => left'["transmit"] = left["transmit"]
          /\ "egress" \in Events => left'["egress"] = left["egress"]
      BY <2>1, RunsAgain
    <2> QED
      BY <2>1, <2>2, ScheduledTogether DEF Period
  <1>4. CASE EgressStep
    <2>1. Runs("egress")
      BY <1>4 DEF EgressStep, EgressIdle, EgressServes, EgressTakes, EgressDrop,
                  Recirculate, Output
    <2>2. output_buffer = <<>>
      BY <2>1, EgressFindsEmpty
    <2>3. /\ left' \in [Events -> Nat]
          /\ "transmit" \in Events
          /\ left'["transmit"] <= Period("transmit")'
          /\ left'["transmit"] < left'["egress"]
      <3>1. "egress" \in Events /\ "transmit" \in Events
        BY <2>1, RunsAgain, ScheduledTogether
      <3>2. left' \in [Events -> Nat] /\ left'["egress"] = Period("egress")
        BY <2>1, RunsAgain
      <3>3. left'["transmit"] = left["transmit"]
        BY <2>1, <3>1, RunsAgain
      <3> QED
        BY <3>1, <3>2, <3>3, TransmitIsFaster, PeriodIsNat DEF Period
    <2>4. /\ phase' # "outputting"
          /\ output_buffer' = <<>> \/ output_buffer' = <<output_buffer'[1]>>
      <3>1. CASE UNCHANGED <<phase, output_buffer>>
        BY <3>1
      <3>2. ASSUME NEW s \in Slots, NEW r \in EgressOutcomes, Output(s, r)
            PROVE  phase' = phase /\ output_buffer' = <<Head(queue[s])>>
        <4>1. Len(output_buffer) < OutputCapacity
          BY <2>2, P4ModelAssumption
        <4> QED
          BY <2>2, <3>2, <4>1, P4ModelAssumption DEF Output
      <3> QED
        BY <1>4, <3>1, <3>2 DEF EgressStep, EgressIdle, EgressServes, EgressDrop, Recirculate
    <2> QED
      BY <2>3, <2>4
  <1>5. CASE TransmitStep
    <2>1. Runs("transmit") /\ phase' = phase
      BY <1>5 DEF TransmitStep, TransmitIdle, Transmit
    <2>2. output_buffer' = <<>>
      BY <1>5 DEF TransmitStep, TransmitIdle, Transmit
    <2> QED
      BY <2>1, <2>2, RunsAgain, PeriodIsNat DEF Period
  <1>6. CASE ControlPlane
    BY <1>6, OutputInvUnchanged
    DEF ControlPlane, SetEgressDepth, MirroringAddSession, MirroringDeleteSession
  <1>7. CASE Destroy
    <2>1. UNCHANGED <<left, output_buffer>>
      BY <1>7 DEF Destroy
    <2>2. phase' # "outputting"
      BY <1>7 DEF Destroy
    <2> QED
      BY <2>1, <2>2, OutputInvUnchanged
  <1>8. CASE UNCHANGED vars
    BY <1>8, OutputInvUnchanged DEF vars
  <1> QED
    BY <1>1, <1>2, <1>3, <1>4, <1>5, <1>6, <1>7, <1>8 DEF Next, Simulation

\* OutputNeverBlocks for every configuration: the blocking push at the end of
\* egress_thread always finds an empty output buffer.
THEOREM OutputBufferNeverBlocks == Spec => []OutputNeverBlocks
  <1>1. OutputInv => OutputNeverBlocks
    <2> SUFFICES ASSUME OutputInv PROVE OutputNeverBlocks
      OBVIOUS
    <2>1. phase # "outputting"
      BY DEF OutputInv
    <2>2. CASE output_buffer = <<>>
      BY <2>1, <2>2 DEF OutputNeverBlocks
    <2>3. CASE output_buffer = <<output_buffer[1]>>
      <3>1. ASSUME NEW x PROVE Len(<<x>>) <= 1
        OBVIOUS
      <3>2. Len(output_buffer) <= 1
        BY <2>3, <3>1, Zenon
      <3> QED
        BY <2>1, <3>2 DEF OutputNeverBlocks
    <2> QED
      BY <2>2, <2>3 DEF OutputInv
  <1> QED
    BY <1>1, OutputInvInit, OutputInvNext, PTL DEF Spec

-----------------------------------------------------------------------------
\* The input buffer: two sequences, of which the one of resubmitted packets
\* does not exceed its capacity.
IsBuffer(buffer) ==
  /\ buffer = [hi |-> buffer.hi, lo |-> buffer.lo]
  /\ \E S : buffer.hi \in Seq(S) /\ buffer.lo \in Seq(S)
  /\ Len(buffer.hi) <= NormalCapacity

\* push_front keeps a buffer one; where there is room its queue is one longer.
LEMMA PushFront ==
  ASSUME NEW buffer, IsBuffer(buffer), NEW type, NEW item
  PROVE  /\ IsBuffer(input!push_front(buffer, type, item))
         /\ type = "RESUBMIT" /\ Len(buffer.hi) < NormalCapacity =>
              /\ Len(input!push_front(buffer, type, item).hi) = Len(buffer.hi) + 1
              /\ input!push_front(buffer, type, item).lo = buffer.lo
  <1> DEFINE pushed == input!push_front(buffer, type, item)
  <1>0. NormalCapacity \in Nat
    BY P4ModelAssumption
  <1>1. PICK S : buffer.hi \in Seq(S) /\ buffer.lo \in Seq(S)
    BY DEF IsBuffer
  <1> DEFINE T == S \cup {item}
  <1>2. buffer.hi \in Seq(T) /\ buffer.lo \in Seq(T) /\ item \in T
    BY <1>1, SeqMonotonic
  <1> HIDE DEF T
  <1>3. /\ Len(buffer.hi) \in Nat
        /\ Append(buffer.hi, item) \in Seq(T) /\ Len(Append(buffer.hi, item)) = Len(buffer.hi) + 1
        /\ Append(buffer.lo, item) \in Seq(T)
    BY <1>2, LenProperties, AppendProperties
  <1>4. CASE input!IsFull(buffer, type)
    <2>1. pushed = buffer
      BY <1>4 DEF input!push_front
    <2>2. type = "RESUBMIT" => Len(buffer.hi) = NormalCapacity
      BY <1>4 DEF input!IsFull, input!queue_of, input!capacity_of
    <2> QED
      BY <1>0, <1>3, <2>1, <2>2
  <1>5. CASE ~input!IsFull(buffer, type) /\ type = "NORMAL"
    <2>1. pushed = [hi |-> buffer.hi, lo |-> Append(buffer.lo, item)]
      BY <1>5 DEF input!push_front, input!queue_of, IsBuffer
    <2>2. pushed.hi = buffer.hi /\ pushed.lo = Append(buffer.lo, item)
      BY <2>1
    <2>3. IsBuffer(pushed)
      BY <1>2, <1>3, <2>1, <2>2 DEF IsBuffer
    <2> QED
      BY <1>5, <2>3
  <1>6. CASE ~input!IsFull(buffer, type) /\ type # "NORMAL"
    <2>1. pushed = [hi |-> Append(buffer.hi, item), lo |-> buffer.lo]
      BY <1>6 DEF input!push_front, input!queue_of, IsBuffer
    <2>2. pushed.hi = Append(buffer.hi, item) /\ pushed.lo = buffer.lo
      BY <2>1
    <2>3. Len(buffer.hi) # NormalCapacity /\ Len(buffer.hi) <= NormalCapacity
      BY <1>6 DEF input!IsFull, input!queue_of, input!capacity_of, IsBuffer
    <2>4. Len(pushed.hi) <= NormalCapacity
      BY <1>0, <1>3, <2>2, <2>3
    <2>5. IsBuffer(pushed)
      BY <1>2, <1>3, <2>1, <2>2, <2>4 DEF IsBuffer
    <2> QED
      BY <1>3, <2>2, <2>5
  <1> QED
    BY <1>4, <1>5, <1>6

\* pop_back keeps a buffer one, and leaves room for the packet it took.
LEMMA PopBack ==
  ASSUME NEW buffer, IsBuffer(buffer), ~input!IsEmpty(buffer)
  PROVE  LET popped == input!pop_back(buffer)
         IN  /\ IsBuffer(popped)
             /\ Len(popped.hi) \in Nat /\ Len(popped.lo) \in Nat
             /\ Len(buffer.hi) + Len(buffer.lo) = Len(popped.hi) + Len(popped.lo) + 1
             /\ Len(popped.hi) < NormalCapacity
  <1> DEFINE popped == input!pop_back(buffer)
  <1>0. NormalCapacity \in Nat \ {0}
    BY P4ModelAssumption
  <1>1. PICK S : buffer.hi \in Seq(S) /\ buffer.lo \in Seq(S)
    BY DEF IsBuffer
  <1>2. /\ Len(buffer.hi) \in Nat /\ Len(buffer.lo) \in Nat
        /\ Len(buffer.hi) <= NormalCapacity
    BY <1>1, LenProperties DEF IsBuffer
  <1>3. CASE buffer.hi # <<>>
    <2>0. popped = [buffer EXCEPT !["hi"] = Tail(buffer["hi"])]
      <3>1. input!served(buffer) = "hi"
        BY <1>3 DEF input!served
      <3> QED
        BY <3>1 DEF input!pop_back
    <2> HIDE DEF popped
    <2>1. popped = [hi |-> Tail(buffer.hi), lo |-> buffer.lo]
      BY <2>0 DEF IsBuffer
    <2>2. popped.hi = Tail(buffer.hi) /\ popped.lo = buffer.lo
      BY <2>1
    <2>3. Tail(buffer.hi) \in Seq(S) /\ Len(Tail(buffer.hi)) = Len(buffer.hi) - 1 /\ Len(buffer.hi) # 0
      BY <1>1, <1>3, HeadTailProperties, EmptySeq
    <2>4. Len(popped.hi) < NormalCapacity /\ Len(popped.hi) \in Nat
      BY <1>0, <1>2, <2>2, <2>3
    <2>5. IsBuffer(popped)
      BY <1>0, <1>1, <2>1, <2>2, <2>3, <2>4 DEF IsBuffer
    <2>6. Len(popped.hi) \in Nat /\ Len(popped.lo) \in Nat
      BY <1>2, <2>2, <2>4
    <2>7. Len(buffer.hi) + Len(buffer.lo) = Len(popped.hi) + Len(popped.lo) + 1
      <3> DEFINE hi == Len(buffer.hi)
                 lo == Len(buffer.lo)
                 hiLeft == Len(popped.hi)
                 loLeft == Len(popped.lo)
      <3>1. hi = hiLeft + 1 /\ lo = loLeft
        BY <1>2, <2>2, <2>3
      <3>2. hi \in Nat /\ lo \in Nat /\ hiLeft \in Nat /\ loLeft \in Nat
        BY <1>2, <2>6
      <3> SUFFICES hi + lo = hiLeft + loLeft + 1
        OBVIOUS
      <3> HIDE DEF hi, lo, hiLeft, loLeft
      <3> QED
        BY <3>1, <3>2
    <2> QED
      BY <2>4, <2>5, <2>6, <2>7 DEF popped
  <1>4. CASE buffer.hi = <<>>
    <2>0. popped = [buffer EXCEPT !["lo"] = Tail(buffer["lo"])]
      <3>1. input!served(buffer) = "lo"
        BY <1>4 DEF input!served
      <3> QED
        BY <3>1 DEF input!pop_back
    <2> HIDE DEF popped
    <2>1. popped = [hi |-> buffer.hi, lo |-> Tail(buffer.lo)]
      BY <2>0 DEF IsBuffer
    <2>2. popped.hi = buffer.hi /\ popped.lo = Tail(buffer.lo)
      BY <2>1
    <2>3. buffer.lo # <<>>
      BY <1>4 DEF input!IsEmpty
    <2>4. Tail(buffer.lo) \in Seq(S) /\ Len(Tail(buffer.lo)) = Len(buffer.lo) - 1 /\ Len(buffer.lo) # 0
      BY <1>1, <2>3, HeadTailProperties, EmptySeq
    <2>5. Len(buffer.hi) = 0
      BY <1>4, EmptySeq
    <2>6. Len(popped.hi) < NormalCapacity
      BY <1>0, <2>2, <2>5
    <2>7. IsBuffer(popped)
      BY <1>0, <1>1, <2>1, <2>2, <2>4, <2>6, <1>2 DEF IsBuffer
    <2>8. Len(popped.hi) \in Nat /\ Len(popped.lo) \in Nat
      BY <1>2, <2>2, <2>4
    <2>9. Len(buffer.hi) + Len(buffer.lo) = Len(popped.hi) + Len(popped.lo) + 1
      <3> DEFINE hi == Len(buffer.hi)
                 lo == Len(buffer.lo)
                 hiLeft == Len(popped.hi)
                 loLeft == Len(popped.lo)
      <3>1. hi = hiLeft /\ lo = loLeft + 1
        BY <1>2, <2>2, <2>4
      <3>2. hi \in Nat /\ lo \in Nat /\ hiLeft \in Nat /\ loLeft \in Nat
        BY <1>2, <2>8
      <3> SUFFICES hi + lo = hiLeft + loLeft + 1
        OBVIOUS
      <3> HIDE DEF hi, lo, hiLeft, loLeft
      <3> QED
        BY <3>1, <3>2
    <2> QED
      BY <2>6, <2>7, <2>8, <2>9 DEF popped
  <1> QED
    BY <1>3, <1>4

\* Every step keeps the input buffer one.
LEMMA BufferNext == IsBuffer(input_buffer) /\ [Next]_vars => IsBuffer(input_buffer)'
  <1> SUFFICES ASSUME IsBuffer(input_buffer), [Next]_vars PROVE IsBuffer(input_buffer')
    BY DEF IsBuffer
  <1>1. ASSUME input_buffer' = input_buffer PROVE IsBuffer(input_buffer')
    BY <1>1
  <1>2. ASSUME NEW address, NEW tagged, ReceivePacket(address, tagged) PROVE IsBuffer(input_buffer')
    BY <1>2, PushFront DEF ReceivePacket
  <1>3. CASE IngressStep
    <2>1. CASE IngressIdle
      BY <2>1, <1>1 DEF IngressIdle
    <2>2. ASSUME NEW r \in IngressOutcomes, IngressEvent(r) PROVE IsBuffer(input_buffer')
      <3>1. ~input!IsEmpty(input_buffer)
        BY <2>2 DEF IngressEvent, Resubmit, Multicast, IngressDrop, Forward, IngressTakes
      <3>2. IsBuffer(input!pop_back(input_buffer))
        BY <3>1, PopBack
      <3>3. CASE Resubmit(r)
        BY <3>2, <3>3, PushFront DEF Resubmit
      <3>4. CASE Multicast(r) \/ IngressDrop(r) \/ Forward(r)
        BY <3>2, <3>4 DEF Multicast, IngressDrop, Forward
      <3> QED
        BY <2>2, <3>3, <3>4 DEF IngressEvent
    <2> QED
      BY <1>3, <2>1, <2>2 DEF IngressStep
  <1>4. CASE EgressStep
    <2>1. CASE EgressIdle
      BY <2>1, <1>1 DEF EgressIdle
    <2>2. ASSUME NEW s \in Slots, NEW r \in EgressOutcomes, EgressDrop(s, r) \/ Output(s, r)
          PROVE  IsBuffer(input_buffer')
      BY <2>2, <1>1 DEF EgressDrop, Output
    <2>3. ASSUME NEW s \in Slots, NEW r \in EgressOutcomes, Recirculate(s, r)
          PROVE  IsBuffer(input_buffer')
      BY <2>3, PushFront DEF Recirculate
    <2> QED
      BY <1>4, <2>1, <2>2, <2>3 DEF EgressStep, EgressServes
  <1>5. CASE Tick \/ TransmitStep \/ ControlPlane \/ Destroy \/ UNCHANGED vars
    <2>1. input_buffer' = input_buffer
      BY <1>5 DEF Tick, TransmitStep, TransmitIdle, Transmit, ControlPlane, SetEgressDepth,
                  MirroringAddSession, MirroringDeleteSession, Destroy, vars
    <2> QED
      BY <2>1, <1>1
  <1> QED
    BY <1>2, <1>3, <1>4, <1>5 DEF Next, Simulation

\* ResubmitKeepsPacket for every capacity, program and moment: the packet that
\* is resubmitted finds room, since it was taken from that queue, or from the
\* other one because that queue was empty.
THEOREM ResubmitsKeepPackets == Spec => ResubmitKeepsPacket
  <1>1. Init => IsBuffer(input_buffer)
    <2> SUFFICES ASSUME Init PROVE IsBuffer(input_buffer)
      OBVIOUS
    <2>1. input_buffer = [hi |-> <<>>, lo |-> <<>>]
      BY DEF Init, input!Empty
    <2>2. <<>> \in Seq({}) /\ Len(<<>>) = 0
      BY EmptySeq
    <2> QED
      BY <2>1, <2>2, P4ModelAssumption DEF IsBuffer
  <1>2. ASSUME IsBuffer(input_buffer), NEW r \in IngressOutcomes, Resubmit(r)
        PROVE  Len(input_buffer'.hi) + Len(input_buffer'.lo) = Len(input_buffer.hi) + Len(input_buffer.lo)
    <2> DEFINE popped == input!pop_back(input_buffer)
               item == copied(Processed(r), "RESUBMIT", r.keeps)
    <2>1. ~input!IsEmpty(input_buffer) /\ input_buffer' = input!push_front(popped, "RESUBMIT", item)
      BY <1>2 DEF Resubmit, IngressTakes
    <2>2. /\ IsBuffer(popped)
          /\ Len(popped.hi) \in Nat /\ Len(popped.lo) \in Nat
          /\ Len(input_buffer.hi) + Len(input_buffer.lo) = Len(popped.hi) + Len(popped.lo) + 1
          /\ Len(popped.hi) < NormalCapacity
      BY <1>2, <2>1, PopBack
    <2> HIDE DEF popped, item
    <2>3. Len(input_buffer'.hi) = Len(popped.hi) + 1 /\ input_buffer'.lo = popped.lo
      BY <2>1, <2>2, PushFront
    <2>4. Len(input_buffer'.lo) = Len(popped.lo) /\ Len(input_buffer'.hi) \in Nat
      BY <2>2, <2>3
    <2>5. Len(input_buffer'.hi) + Len(input_buffer'.lo) = Len(popped.hi) + Len(popped.lo) + 1
      <3> DEFINE hi == Len(input_buffer'.hi)
                 lo == Len(input_buffer'.lo)
                 hiLeft == Len(popped.hi)
                 loLeft == Len(popped.lo)
      <3>1. hi = hiLeft + 1 /\ lo = loLeft /\ hiLeft \in Nat /\ loLeft \in Nat
        BY <2>2, <2>3, <2>4
      <3> SUFFICES hi + lo = hiLeft + loLeft + 1
        OBVIOUS
      <3> HIDE DEF hi, lo, hiLeft, loLeft
      <3> QED
        BY <3>1
    <2> QED
      BY <2>2, <2>5
  <1> DEFINE Kept == \A r \in IngressOutcomes :
               Resubmit(r) => Len(input_buffer'.hi) + Len(input_buffer'.lo) =
                              Len(input_buffer.hi) + Len(input_buffer.lo)
  <1>3. IsBuffer(input_buffer) => Kept
    BY <1>2
  <1> QED
    BY <1>1, <1>3, BufferNext, PTL DEF Spec, ResubmitKeepsPacket

-----------------------------------------------------------------------------
(* Operations on one packet.                                               *)

\* A packet as it waits in slot s.
To(packet, s) == [packet EXCEPT !.egress_port = s[1]]

LEMMA SlotIsPair == \A s \in Slots : s = <<s[1], s[2]>> /\ s[1] \in Ports /\ s[2] \in Priorities
  BY DEF Slots, egress_buffers!Slots

\* A packet for a slot only gets another port.
LEMMA ToPacket ==
  ASSUME NEW p \in Packet, NEW s \in Slots
  PROVE  /\ To(p, s) \in Packet
         /\ To(p, s).egress_port = s[1]
         /\ To(p, s).packet_id = p.packet_id /\ To(p, s).to = p.to
         /\ To(p, s).ns3i = p.ns3i /\ To(p, s).priority = p.priority
         /\ To(p, s).instance_type = p.instance_type /\ To(p, s).passes = p.passes
  BY SlotIsPair DEF To, Packet

\* A copy is a packet, of the same origin and with one pass more.
LEMMA CopiedPacket ==
  ASSUME NEW p \in Packet, p.passes < MaxPasses, NEW type \in InstanceTypes,
         NEW keeps \in BOOLEAN
  PROVE  /\ copied(p, type, keeps) \in Packet
         /\ copied(p, type, keeps).packet_id = p.packet_id
         /\ copied(p, type, keeps).to = p.to
         /\ keeps => copied(p, type, keeps).ns3i = p.ns3i
         /\ copied(p, type, keeps).passes = p.passes + 1
  <1>1. NoNs3Info \in Ns3Info
    BY P4ProgramAssumption DEF NoNs3Info, Ns3Info
  <1>2. p.passes + 1 \in 0 .. MaxPasses /\ p.passes \in Nat
    BY P4ProgramAssumption DEF Packet
  <1> QED
    BY <1>1, <1>2 DEF copied, Packet

\* A packet whose priority has been written is one.
LEMMA WrittenPacket ==
  ASSUME NEW p \in Packet, NEW priority \in Nat
  PROVE  LET written == [p EXCEPT !.priority = priority]
         IN  /\ written \in Packet
             /\ written.packet_id = p.packet_id /\ written.to = p.to
             /\ written.ns3i = p.ns3i /\ written.passes = p.passes
  BY DEF Packet

-----------------------------------------------------------------------------
(* Queues that have grown at their ends.                                   *)

\* Sequence new is old with a number of equal items behind it.
GrownAt(old, new, item) ==
  /\ new \in Seq(Packet)
  /\ Len(old) <= Len(new)
  /\ \A i \in 1 .. Len(new) : new[i] = IF i <= Len(old) THEN old[i] ELSE item

\* The queues new are old with copies of the packet at the ends of the queues
\* of its priority.
Grown(old, new, packet) ==
  /\ new \in [Slots -> Seq(Packet)]
  /\ \A s \in Slots :
       /\ GrownAt(old[s], new[s], To(packet, s))
       /\ Len(new[s]) # Len(old[s]) => packet.priority = NbPriorities - 1 - s[2]

LEMMA GrownReflexive ==
  ASSUME NEW queues \in [Slots -> Seq(Packet)], NEW p
  PROVE  Grown(queues, queues, p)
  <1>1. ASSUME NEW s \in Slots PROVE GrownAt(queues[s], queues[s], To(p, s))
    <2>1. queues[s] \in Seq(Packet)
      OBVIOUS
    <2> QED
      BY <2>1, LenProperties DEF GrownAt
  <1> QED
    BY <1>1 DEF Grown

LEMMA GrownTransitive ==
  ASSUME NEW a \in [Slots -> Seq(Packet)], NEW b, NEW c, NEW p,
         Grown(a, b, p), Grown(b, c, p)
  PROVE  Grown(a, c, p)
  <1> SUFFICES ASSUME NEW s \in Slots
               PROVE  /\ GrownAt(a[s], c[s], To(p, s))
                      /\ Len(c[s]) # Len(a[s]) => p.priority = NbPriorities - 1 - s[2]
    BY DEF Grown
  <1>1. GrownAt(a[s], b[s], To(p, s)) /\ GrownAt(b[s], c[s], To(p, s))
    BY DEF Grown
  <1>2. Len(a[s]) \in Nat /\ Len(b[s]) \in Nat /\ Len(c[s]) \in Nat
    <2>1. a[s] \in Seq(Packet) /\ b[s] \in Seq(Packet) /\ c[s] \in Seq(Packet)
      BY DEF Grown
    <2> QED
      BY <2>1, LenProperties
  <1>3. GrownAt(a[s], c[s], To(p, s))
    BY <1>1, <1>2 DEF GrownAt
  <1>4. Len(c[s]) # Len(a[s]) => p.priority = NbPriorities - 1 - s[2]
    BY <1>1, <1>2 DEF GrownAt, Grown
  <1> QED
    BY <1>3, <1>4

\* enqueue puts one copy at the end of one queue at most.
LEMMA EnqueueGrows ==
  ASSUME NEW queues \in [Slots -> Seq(Packet)], NEW port \in Ports, NEW p \in Packet
  PROVE  /\ Grown(queues, enqueue(queues, port, p), p)
         /\ \A s \in Slots : Len(enqueue(queues, port, p)[s]) <= Len(queues[s]) + 1
  <1> DEFINE slot == <<port, NbPriorities - 1 - p.priority>>
             new == enqueue(queues, port, p)
  <1>0. \A s \in Slots : queues[s] \in Seq(Packet) /\ Len(queues[s]) \in Nat
    BY LenProperties
  <1>1. CASE new = queues
    BY <1>0, <1>1, GrownReflexive
  <1>2. CASE new # queues
    <2>1. /\ ~(p.priority >= NbPriorities)
          /\ new = [queues EXCEPT ![slot] = Append(queues[slot], [p EXCEPT !.egress_port = port])]
      BY <1>2 DEF enqueue, egress_buffers!Offered
    <2>2. slot \in Slots /\ slot[1] = port /\ slot[2] = NbPriorities - 1 - p.priority
      BY <2>1, P4ProgramAssumption DEF Slots, egress_buffers!Slots, Priorities, Packet
    <2>3. [p EXCEPT !.egress_port = port] = To(p, slot) /\ To(p, slot) \in Packet
      BY <2>2, ToPacket DEF To
    <2> HIDE DEF new, slot
    <2>4. /\ new \in [Slots -> Seq(Packet)]
          /\ new[slot] = Append(queues[slot], To(p, slot))
          /\ \A s \in Slots \ {slot} : new[s] = queues[s]
      BY <2>1, <2>2, <2>3, <1>0, AppendProperties
    <2>5. GrownAt(queues[slot], new[slot], To(p, slot)) /\ Len(new[slot]) = Len(queues[slot]) + 1
      BY <2>2, <2>3, <2>4, <1>0, AppendProperties DEF GrownAt
    <2>6. ASSUME NEW s \in Slots \ {slot}
          PROVE  GrownAt(queues[s], new[s], To(p, s)) /\ Len(new[s]) = Len(queues[s])
      <3>1. GrownAt(queues[s], queues[s], To(p, s))
        BY GrownReflexive DEF Grown
      <3> QED
        BY <3>1, <2>4
    <2>7. p.priority = NbPriorities - 1 - slot[2]
      BY <2>2, P4ProgramAssumption DEF Packet
    <2>8. Grown(queues, new, p)
      BY <2>4, <2>5, <2>6, <2>7 DEF Grown
    <2>9. \A s \in Slots : Len(new[s]) <= Len(queues[s]) + 1
      BY <2>5, <2>6, <1>0
    <2> QED
      BY <2>8, <2>9 DEF new
  <1> QED
    BY <1>1, <1>2

\* What a queue gets when a number of equal items is offered to it.
LEMMA FilledGrows ==
  ASSUME limit \in [Slots -> Nat], NEW queues \in [Slots -> Seq(Packet)],
         NEW s \in Slots, NEW item \in Packet, NEW n \in Nat
  PROVE  GrownAt(queues[s], egress_buffers!Filled(queues, s, item, n), item)
  <1> DEFINE room == IF Len(queues[s]) < limit[s] THEN limit[s] - Len(queues[s]) ELSE 0
             taken == IF n <= room THEN n ELSE room
             tail == [i \in 1 .. taken |-> item]
             new == queues[s] \o tail
  <1>1. queues[s] \in Seq(Packet) /\ Len(queues[s]) \in Nat /\ limit[s] \in Nat
    BY LenProperties
  <1>2. taken \in Nat
    BY <1>1
  <1> HIDE DEF taken
  <1>3. tail \in Seq(Packet) /\ Len(tail) = taken /\ \A i \in 1 .. taken : tail[i] = item
    <2>1. tail \in [1 .. taken -> Packet]
      OBVIOUS
    <2>2. tail \in Seq(Packet)
      BY <1>2, <2>1
    <2> QED
      BY <1>2, <2>1, <2>2, LenProperties
  <1> HIDE DEF tail
  <1>4. /\ new \in Seq(Packet)
        /\ Len(new) = Len(queues[s]) + taken
        /\ \A i \in 1 .. Len(queues[s]) + taken :
             new[i] = IF i <= Len(queues[s]) THEN queues[s][i] ELSE tail[i - Len(queues[s])]
    BY <1>1, <1>3, ConcatProperties
  <1> HIDE DEF new
  <1>5. GrownAt(queues[s], new, item)
    BY <1>1, <1>2, <1>3, <1>4 DEF GrownAt
  <1> QED
    BY <1>5 DEF new, tail, taken, egress_buffers!Filled

LEMMA MulticastGrows ==
  ASSUME limit \in [Slots -> Nat], NEW queues \in [Slots -> Seq(Packet)],
         NEW p \in Packet, NEW g \in DOMAIN Groups
  PROVE  Grown(queues, multicast(queues, p, g), p)
  <1> DEFINE new == multicast(queues, p, g)
             filled(s) == egress_buffers!Filled(queues, s, To(p, s), Groups[g][s[1]])
  <1>1. \A s \in Slots : To(p, s) \in Packet /\ Groups[g][s[1]] \in Nat
    BY P4ProgramAssumption, SlotIsPair, ToPacket
  <1>2. \A s \in Slots : GrownAt(queues[s], filled(s), To(p, s))
    BY <1>1, FilledGrows
  <1>3. /\ new = [s \in Slots |-> new[s]]
        /\ \A s \in Slots :
             new[s] = IF p.priority = NbPriorities - 1 - s[2] THEN filled(s) ELSE queues[s]
    BY DEF multicast, To
  <1> HIDE DEF new, filled
  <1>4. \A s \in Slots : GrownAt(queues[s], queues[s], To(p, s))
    BY GrownReflexive DEF Grown
  <1>5. \A s \in Slots : GrownAt(queues[s], new[s], To(p, s)) /\ new[s] \in Seq(Packet)
    BY <1>2, <1>3, <1>4 DEF GrownAt
  <1>6. new \in [Slots -> Seq(Packet)]
    BY <1>3, <1>5
  <1>7. Grown(queues, new, p)
    BY <1>3, <1>5, <1>6 DEF Grown
  <1> QED
    BY <1>7 DEF new

\* A clone goes to a group, to a port, to both or to nobody.
LEMMA ClonedGrows ==
  ASSUME limit \in [Slots -> Nat], sessions \in [DOMAIN sessions -> MirrorConfigs],
         NEW queues \in [Slots -> Seq(Packet)], NEW p \in Packet, NEW session
  PROVE  Grown(queues, cloned(queues, session, p), p)
  <1>1. CASE session \notin DOMAIN sessions
    BY <1>1, GrownReflexive DEF cloned
  <1>2. CASE session \in DOMAIN sessions
    <2> DEFINE config == sessions[session]
               grouped == IF config.mgid_valid THEN multicast(queues, p, config.mgid) ELSE queues
               ported == IF config.egress_port_valid
                           THEN enqueue(grouped, config.egress_port, p) ELSE grouped
    <2>1. config.mgid \in DOMAIN Groups /\ config.egress_port \in Ports
      BY <1>2, P4ProgramAssumption
    <2>2. Grown(queues, grouped, p)
      BY <2>1, MulticastGrows, GrownReflexive
    <2>3. grouped \in [Slots -> Seq(Packet)]
      BY <2>2 DEF Grown
    <2> HIDE DEF grouped
    <2>4. Grown(grouped, ported, p)
      BY <2>1, <2>3, EnqueueGrows, GrownReflexive
    <2>5. cloned(queues, session, p) = ported
      BY <1>2 DEF cloned, grouped
    <2> HIDE DEF ported
    <2> QED
      BY <2>2, <2>4, <2>5, GrownTransitive
  <1> QED
    BY <1>1, <1>2

-----------------------------------------------------------------------------
(* The input buffer.                                                       *)

Buffer == [hi : Seq(Packet), lo : Seq(Packet)]

\* push_front puts the packet at the end of its queue or does nothing.
LEMMA PushFrontPacket ==
  ASSUME NEW buffer \in Buffer, NEW p \in Packet, NEW type
  PROVE  LET pushed == input!push_front(buffer, type, p)
         IN  /\ pushed \in Buffer
             /\ type = "NORMAL" => /\ pushed.hi = buffer.hi
                                  /\ pushed.lo \in {buffer.lo, Append(buffer.lo, p)}
             /\ type # "NORMAL" => /\ pushed.lo = buffer.lo
                                  /\ pushed.hi \in {buffer.hi, Append(buffer.hi, p)}
  <1> DEFINE pushed == input!push_front(buffer, type, p)
  <1>0. Append(buffer.hi, p) \in Seq(Packet) /\ Append(buffer.lo, p) \in Seq(Packet)
    BY AppendProperties DEF Buffer
  <1>1. CASE input!IsFull(buffer, type)
    BY <1>1 DEF input!push_front
  <1>2. CASE ~input!IsFull(buffer, type) /\ type = "NORMAL"
    <2>1. pushed = [buffer EXCEPT !["lo"] = Append(buffer["lo"], p)]
      BY <1>2 DEF input!push_front, input!queue_of
    <2>2. pushed = [hi |-> buffer.hi, lo |-> Append(buffer.lo, p)]
      BY <2>1 DEF Buffer
    <2>3. pushed.lo = Append(buffer.lo, p) /\ pushed.hi = buffer.hi
      BY <2>2
    <2>4. pushed \in Buffer
      BY <1>0, <2>2 DEF Buffer
    <2> QED
      BY <1>2, <2>3, <2>4
  <1>3. CASE ~input!IsFull(buffer, type) /\ type # "NORMAL"
    <2>1. pushed = [buffer EXCEPT !["hi"] = Append(buffer["hi"], p)]
      BY <1>3 DEF input!push_front, input!queue_of
    <2>2. pushed = [hi |-> Append(buffer.hi, p), lo |-> buffer.lo]
      BY <2>1 DEF Buffer
    <2>3. pushed.hi = Append(buffer.hi, p) /\ pushed.lo = buffer.lo
      BY <2>2
    <2>4. pushed \in Buffer
      BY <1>0, <2>2 DEF Buffer
    <2> QED
      BY <1>3, <2>3, <2>4
  <1> QED
    BY <1>1, <1>2, <1>3

\* pop_back takes the first packet of the resubmitted ones, or of the arrivals
\* when there is none.
LEMMA PopBackPacket ==
  ASSUME NEW buffer \in Buffer, ~input!IsEmpty(buffer)
  PROVE  LET popped == input!pop_back(buffer)
         IN  /\ popped \in Buffer
             /\ input!back(buffer) \in Packet
             /\ \/ /\ buffer.hi # <<>>
                   /\ input!back(buffer) = Head(buffer.hi)
                   /\ popped.hi = Tail(buffer.hi) /\ popped.lo = buffer.lo
                \/ /\ buffer.lo # <<>>
                   /\ input!back(buffer) = Head(buffer.lo)
                   /\ popped.lo = Tail(buffer.lo) /\ popped.hi = buffer.hi
  <1> DEFINE popped == input!pop_back(buffer)
  <1>0. buffer.hi \in Seq(Packet) /\ buffer.lo \in Seq(Packet)
    BY DEF Buffer
  <1>1. CASE buffer.hi # <<>>
    <2>1. input!served(buffer) = "hi"
      BY <1>1 DEF input!served
    <2>2. popped = [buffer EXCEPT !["hi"] = Tail(buffer["hi"])]
      BY <2>1 DEF input!pop_back
    <2>3. popped = [hi |-> Tail(buffer.hi), lo |-> buffer.lo]
      BY <2>2 DEF Buffer
    <2>4. input!back(buffer) = Head(buffer.hi)
      BY <2>1 DEF input!back
    <2>5. Head(buffer.hi) \in Packet /\ Tail(buffer.hi) \in Seq(Packet)
      BY <1>0, <1>1, HeadTailProperties
    <2> QED
      BY <1>0, <1>1, <2>3, <2>4, <2>5 DEF Buffer
  <1>2. CASE buffer.hi = <<>>
    <2>1. input!served(buffer) = "lo"
      BY <1>2 DEF input!served
    <2>2. popped = [buffer EXCEPT !["lo"] = Tail(buffer["lo"])]
      BY <2>1 DEF input!pop_back
    <2>3. popped = [hi |-> buffer.hi, lo |-> Tail(buffer.lo)]
      BY <2>2 DEF Buffer
    <2>4. input!back(buffer) = Head(buffer.lo)
      BY <2>1 DEF input!back
    <2>5. buffer.lo # <<>>
      BY <1>2 DEF input!IsEmpty
    <2>6. Head(buffer.lo) \in Packet /\ Tail(buffer.lo) \in Seq(Packet)
      BY <1>0, <2>5, HeadTailProperties
    <2> QED
      BY <1>0, <2>3, <2>4, <2>5, <2>6 DEF Buffer
  <1> QED
    BY <1>1, <1>2

-----------------------------------------------------------------------------
(* Arrivals.                                                               *)

\* An address that arrives is found in the list, which only grows.
LEMMA DestinationIsListed ==
  ASSUME destination_list \in Seq(Destinations), NEW a \in Destinations
  PROVE  LET list == WithDestination(a)
         IN  /\ list \in Seq(Destinations)
             /\ Len(destination_list) <= Len(list)
             /\ \A i \in 1 .. Len(destination_list) : list[i] = destination_list[i]
             /\ IndexOf(a, list) \in 1 .. Len(list)
             /\ list[IndexOf(a, list)] = a
  <1> DEFINE list == WithDestination(a)
  <1>1. Len(destination_list) \in Nat /\ DOMAIN destination_list = 1 .. Len(destination_list)
    BY LenProperties
  <1>2. /\ list \in Seq(Destinations)
        /\ Len(destination_list) <= Len(list)
        /\ \A i \in 1 .. Len(destination_list) : list[i] = destination_list[i]
        /\ \E i \in DOMAIN list : list[i] = a
    <2>1. CASE \E i \in DOMAIN destination_list : destination_list[i] = a
      BY <1>1, <2>1 DEF WithDestination
    <2>2. CASE ~\E i \in DOMAIN destination_list : destination_list[i] = a
      <3>1. list = Append(destination_list, a)
        BY <2>2 DEF WithDestination
      <3> HIDE DEF list
      <3>2. /\ list \in Seq(Destinations) /\ Len(list) = Len(destination_list) + 1
            /\ \A i \in 1 .. Len(destination_list) : list[i] = destination_list[i]
            /\ list[Len(destination_list) + 1] = a
        BY <3>1, AppendProperties
      <3>3. DOMAIN list = 1 .. Len(list)
        BY <3>2, LenProperties
      <3> QED
        BY <1>1, <3>2, <3>3
    <2> QED
      BY <2>1, <2>2
  <1> HIDE DEF list
  <1>3. IndexOf(a, list) \in DOMAIN list /\ list[IndexOf(a, list)] = a
    BY <1>2 DEF IndexOf
  <1>4. DOMAIN list = 1 .. Len(list)
    BY <1>2, LenProperties
  <1> QED
    BY <1>2, <1>3, <1>4 DEF list

LEMMA ArrivedPacket ==
  ASSUME TypeOK, NEW a \in Destinations
  PROVE  /\ Arrived(a) \in Packet
         /\ Arrived(a).packet_id = m_pktID /\ Arrived(a).to = a
         /\ Arrived(a).ns3i.pkts_id = m_pktID
         /\ Arrived(a).ns3i.destination = DestinationIndex(a)
         /\ Arrived(a).passes = 0
  <1>1. IndexOf(a, WithDestination(a)) \in 1 .. Len(WithDestination(a)) /\ Len(WithDestination(a)) \in Nat
    <2>1. WithDestination(a) \in Seq(Destinations)
          /\ IndexOf(a, WithDestination(a)) \in 1 .. Len(WithDestination(a))
      BY DestinationIsListed DEF TypeOK
    <2> QED
      BY <2>1, LenProperties
  <1>2. IndexOf(a, WithDestination(a)) - 1 \in Nat
    BY <1>1
  <1>3. DestinationIndex(a) \in 0 .. DestinationSize - 1
    BY <1>2, P4ProgramAssumption DEF DestinationIndex
  <1>4. m_pktID \in Nat /\ 0 \in 0 .. MaxPasses
    <2>1. MaxPasses \in Nat
      BY P4ProgramAssumption
    <2>2. m_pktID \in Nat
      BY DEF TypeOK
    <2> QED
      BY <2>1, <2>2
  <1> DEFINE ns3i == [pkts_id |-> m_pktID, destination |-> DestinationIndex(a)]
  <1>5. ns3i \in Ns3Info /\ ns3i.pkts_id = m_pktID /\ ns3i.destination = DestinationIndex(a)
    BY <1>3, <1>4 DEF Ns3Info
  <1>6. Arrived(a) =
          [packet_id |-> m_pktID, to |-> a, ns3i |-> ns3i, priority |-> 0,
           instance_type |-> "NORMAL", egress_port |-> None, passes |-> 0]
    BY DEF Arrived
  <1> HIDE DEF ns3i
  <1>7. Arrived(a) \in Packet
    BY <1>4, <1>5, <1>6 DEF Packet, InstanceTypes
  <1> QED
    BY <1>5, <1>6, <1>7

-----------------------------------------------------------------------------
(* What the events do to the packet they take.                             *)

\* Packet c has the origin of p, and the ns-3 metadata of p if fields are kept.
Heir(c, p, keeps) ==
  /\ c \in Packet
  /\ c.packet_id = p.packet_id /\ c.to = p.to
  /\ keeps => c.ns3i = p.ns3i

Copy(c, p, keeps) == Heir(c, p, keeps) /\ c.passes > 0

\* The queues new are old and what copies of p there may be.
Spawned(old, new, p, keeps) ==
  /\ new \in [Slots -> Seq(Packet)]
  /\ new = old \/ \E c : Copy(c, p, keeps) /\ Grown(old, new, c)

\* The queues new are old and p itself, in several queues or several times
\* only if it is replicated.
Passed(old, new, p) ==
  \E q : /\ Heir(q, p, TRUE) /\ q.passes = p.passes
        /\ Grown(old, new, q)
        /\ \/ q.instance_type = "REPLICATION"
           \/ \A s \in Slots : Len(new[s]) <= Len(old[s]) + 1

\* A copy of p may be pushed in front of the ingress once more.
Returned(old, new, p, keeps, type) ==
  new = old \/ \E c : Copy(c, p, keeps) /\ new = input!push_front(old, type, c)

\* The field lists of the outcome keep the ns-3 metadata in the copies it makes.
IngressKeeps(r) == r.clone # None \/ r.resubmit => r.keeps
EgressKeeps(r) == r.clone # None \/ r.recirculate => r.keeps

LEMMA CloneSpawns ==
  ASSUME TypeOK, NEW queues \in [Slots -> Seq(Packet)], NEW p \in Packet,
         NEW session, NEW type \in InstanceTypes, NEW keeps \in BOOLEAN,
         p.passes < MaxPasses
  PROVE  Spawned(queues, cloned(queues, session, copied(p, type, keeps)), p, keeps)
  <1> DEFINE c == copied(p, type, keeps)
  <1>1. Copy(c, p, keeps)
    <2>1. p.passes + 1 > 0
      BY DEF Packet
    <2> QED
      BY <2>1, CopiedPacket DEF Copy, Heir
  <1>2. c \in Packet
    BY <1>1 DEF Copy, Heir
  <1> HIDE DEF c
  <1>3. limit \in [Slots -> Nat] /\ sessions \in [DOMAIN sessions -> MirrorConfigs]
    BY DEF TypeOK
  <1>4. Grown(queues, cloned(queues, session, c), c)
    BY <1>2, <1>3, ClonedGrows
  <1>5. Spawned(queues, cloned(queues, session, c), p, keeps)
    BY <1>1, <1>4 DEF Spawned, Grown
  <1> QED
    BY <1>5 DEF c

LEMMA IngressTakesPacket ==
  ASSUME TypeOK, NEW r \in IngressOutcomes, IngressEvent(r)
  PROVE  LET p == input!back(input_buffer)
         IN  /\ ~input!IsEmpty(input_buffer)
             /\ p \in Packet
             /\ Returned(input!pop_back(input_buffer), input_buffer', p, IngressKeeps(r), "RESUBMIT")
             /\ \E queues : /\ Spawned(queue, queues, p, IngressKeeps(r))
                            /\ queue' = queues \/ Passed(queues, queue', p)
             /\ UNCHANGED <<phase, limit, output_buffer, destination_list, tag_map,
                            m_pktID, sessions>>
  <1> DEFINE p == input!back(input_buffer)
             processed == [p EXCEPT !.priority = r.priority]
             queues == AfterIngressClone(r)
             replica == [processed EXCEPT !.instance_type = "REPLICATION"]
             normal == [processed EXCEPT !.instance_type = "NORMAL"]
  <1>1. /\ IngressTakes(r) /\ ~input!IsEmpty(input_buffer)
        /\ r.clone # None \/ r.resubmit => p.passes < MaxPasses
        /\ UNCHANGED <<phase, limit, output_buffer, destination_list, tag_map, m_pktID, sessions>>
    BY DEF IngressEvent, Resubmit, Multicast, IngressDrop, Forward, IngressTakes
  <1>2. /\ r.priority \in Nat /\ r.keeps \in BOOLEAN /\ r.mgid \in DOMAIN Groups
        /\ r.egress_spec # drop_port => r.egress_spec \in Ports
    BY P4ProgramAssumption
  <1>0. r.clone # None \/ r.resubmit => IngressKeeps(r) = r.keeps
    BY <1>2 DEF IngressKeeps
  <1>3. p \in Packet
    BY <1>1, PopBackPacket DEF TypeOK, Buffer
  <1>4. /\ processed \in Packet /\ Heir(processed, p, TRUE) /\ processed.passes = p.passes
        /\ Heir(replica, p, TRUE) /\ replica.passes = p.passes
        /\ replica.instance_type = "REPLICATION"
        /\ Heir(normal, p, TRUE) /\ normal.passes = p.passes
    <2>1. "REPLICATION" \in InstanceTypes /\ "NORMAL" \in InstanceTypes
      BY DEF InstanceTypes
    <2> HIDE DEF p
    <2>2. /\ processed \in Packet
          /\ processed.packet_id = p.packet_id /\ processed.to = p.to
          /\ processed.ns3i = p.ns3i /\ processed.passes = p.passes
      BY <1>2, <1>3, <2>1, WrittenPacket
    <2> HIDE DEF processed
    <2>3. ASSUME NEW type \in InstanceTypes
          PROVE  LET q == [processed EXCEPT !.instance_type = type]
                 IN  /\ q \in Packet
                     /\ q.packet_id = p.packet_id /\ q.to = p.to
                     /\ q.ns3i = p.ns3i /\ q.passes = p.passes
                     /\ q.instance_type = type
      BY <2>2 DEF Packet
    <2>4. /\ replica \in Packet
          /\ replica.packet_id = p.packet_id /\ replica.to = p.to
          /\ replica.ns3i = p.ns3i /\ replica.passes = p.passes
          /\ replica.instance_type = "REPLICATION"
      BY <2>1, <2>3
    <2>5. /\ normal \in Packet
          /\ normal.packet_id = p.packet_id /\ normal.to = p.to
          /\ normal.ns3i = p.ns3i /\ normal.passes = p.passes
      BY <2>1, <2>3
    <2> HIDE DEF replica, normal
    <2> QED
      BY <2>2, <2>4, <2>5 DEF Heir
  <1>5. /\ Processed(r) = processed
        /\ r.clone # None => queues = cloned(queue, r.clone, copied(processed, "INGRESS_CLONE", r.keeps))
        /\ r.clone = None => queues = queue
    BY DEF Processed, AfterIngressClone
  <1>6. replica \in Packet /\ normal \in Packet
    BY <1>4 DEF Heir
  <1>7. /\ Resubmit(r) => /\ queue' = queues
                         /\ input_buffer' = input!push_front(input!pop_back(input_buffer), "RESUBMIT",
                                                             copied(processed, "RESUBMIT", r.keeps))
        /\ Multicast(r) => /\ queue' = multicast(queues, replica, r.mgid)
                          /\ input_buffer' = input!pop_back(input_buffer)
        /\ IngressDrop(r) => queue' = queues /\ input_buffer' = input!pop_back(input_buffer)
        /\ Forward(r) => /\ queue' = enqueue(queues, r.egress_spec, normal)
                        /\ input_buffer' = input!pop_back(input_buffer)
                        /\ r.egress_spec \in Ports
    BY <1>2, <1>5 DEF Resubmit, Multicast, IngressDrop, Forward
  <1> HIDE DEF p, processed, queues, replica, normal
  <1>8. "INGRESS_CLONE" \in InstanceTypes /\ "RESUBMIT" \in InstanceTypes
    BY DEF InstanceTypes
  <1>9. Spawned(queue, queues, p, IngressKeeps(r))
    <2>1. queue \in [Slots -> Seq(Packet)]
      BY DEF TypeOK
    <2>2. CASE r.clone = None
      BY <2>1, <2>2, <1>5 DEF Spawned
    <2>3. CASE r.clone # None
      <3>1. Spawned(queue, queues, processed, r.keeps)
        BY <1>1, <1>2, <1>4, <1>5, <1>8, <2>1, <2>3, CloneSpawns
      <3>2. Spawned(queue, queues, p, r.keeps)
        BY <1>4, <3>1 DEF Spawned, Copy, Heir
      <3> QED
        BY <1>0, <2>3, <3>2
    <2> QED
      BY <2>2, <2>3
  <1>10. queues \in [Slots -> Seq(Packet)]
    BY <1>9 DEF Spawned
  <1>11. limit \in [Slots -> Nat]
    BY DEF TypeOK
  <1>12. queue' = queues \/ Passed(queues, queue', p)
    <2>1. CASE Resubmit(r) \/ IngressDrop(r)
      BY <2>1, <1>7
    <2>2. CASE Multicast(r)
      <3>1. Grown(queues, queue', replica)
        BY <1>2, <1>6, <1>7, <1>10, <1>11, <2>2, MulticastGrows
      <3> QED
        BY <1>4, <3>1 DEF Passed
    <2>3. CASE Forward(r)
      <3>1. Grown(queues, queue', normal) /\ \A s \in Slots : Len(queue'[s]) <= Len(queues[s]) + 1
        BY <1>6, <1>7, <1>10, <2>3, EnqueueGrows
      <3> QED
        BY <1>4, <3>1 DEF Passed
    <2> QED
      BY <2>1, <2>2, <2>3 DEF IngressEvent
  <1>13. Returned(input!pop_back(input_buffer), input_buffer', p, IngressKeeps(r), "RESUBMIT")
    <2>1. CASE Resubmit(r)
      <3>1. r.resubmit /\ p.passes < MaxPasses
        BY <1>1, <2>1 DEF Resubmit
      <3>2. Copy(copied(processed, "RESUBMIT", r.keeps), p, r.keeps)
        <4>1. processed.passes < MaxPasses /\ processed.passes + 1 > 0
          BY <1>4, <3>1 DEF Packet
        <4> QED
          BY <1>2, <1>4, <1>8, <4>1, CopiedPacket DEF Copy, Heir
      <3> QED
        BY <1>0, <1>7, <2>1, <3>1, <3>2 DEF Returned
    <2>2. CASE Multicast(r) \/ IngressDrop(r) \/ Forward(r)
      BY <1>7, <2>2 DEF Returned
    <2> QED
      BY <2>1, <2>2 DEF IngressEvent
  <1> QED
    BY <1>1, <1>3, <1>9, <1>12, <1>13 DEF p

LEMMA EgressTakesPacket ==
  ASSUME TypeOK, NEW s \in Slots, NEW r \in EgressOutcomes,
         EgressDrop(s, r) \/ Recirculate(s, r) \/ Output(s, r)
  PROVE  LET p == Head(queue[s])
         IN  /\ queue[s] # <<>>
             /\ p \in Packet
             /\ Spawned([queue EXCEPT ![s] = Tail(@)], queue', p, EgressKeeps(r))
             /\ Returned(input_buffer, input_buffer', p, EgressKeeps(r), "RECIRCULATE")
             /\ output_buffer' \in {output_buffer, Append(output_buffer, p)}
             /\ phase' \in {phase, "outputting"}
             /\ UNCHANGED <<limit, destination_list, tag_map, m_pktID, sessions>>
  <1> DEFINE p == Head(queue[s])
             taken == [queue EXCEPT ![s] = Tail(@)]
  <1>1. EgressTakes(s, r) /\ queue[s] # <<>>
        /\ (r.clone # None \/ r.recirculate => p.passes < MaxPasses)
    BY DEF EgressDrop, Recirculate, Output, EgressTakes
  <1>2. r.keeps \in BOOLEAN
    BY P4ProgramAssumption
  <1>0. r.clone # None \/ r.recirculate => EgressKeeps(r) = r.keeps
    BY <1>2 DEF EgressKeeps
  <1>3. queue[s] \in Seq(Packet) /\ queue \in [Slots -> Seq(Packet)]
    BY DEF TypeOK
  <1>4. p \in Packet /\ Tail(queue[s]) \in Seq(Packet)
    BY <1>1, <1>3, HeadTailProperties
  <1>5. taken \in [Slots -> Seq(Packet)]
    BY <1>3, <1>4
  <1>6. /\ r.clone # None => queue' = cloned(taken, r.clone, copied(p, "EGRESS_CLONE", r.keeps))
        /\ r.clone = None => queue' = taken
        /\ UNCHANGED <<limit, destination_list, tag_map, m_pktID, sessions>>
    BY <1>1 DEF EgressTakes
  <1>7. /\ Recirculate(s, r) =>
             /\ r.recirculate /\ p.passes < MaxPasses
             /\ input_buffer' = input!push_front(input_buffer, "RECIRCULATE", copied(p, "RECIRC", r.keeps))
        /\ ~Recirculate(s, r) => UNCHANGED input_buffer
        /\ output_buffer' \in {output_buffer, Append(output_buffer, p)}
        /\ phase' \in {phase, "outputting"}
    BY <1>1 DEF EgressDrop, Recirculate, Output
  <1> HIDE DEF p, taken
  <1>8. "EGRESS_CLONE" \in InstanceTypes /\ "RECIRC" \in InstanceTypes
    BY DEF InstanceTypes
  <1>9. Spawned(taken, queue', p, EgressKeeps(r))
    <2>1. CASE r.clone = None
      BY <1>5, <1>6, <2>1 DEF Spawned
    <2>2. CASE r.clone # None
      <3>1. Spawned(taken, queue', p, r.keeps)
        BY <1>1, <1>2, <1>4, <1>5, <1>6, <1>8, <2>2, CloneSpawns
      <3> QED
        BY <1>0, <2>2, <3>1
    <2> QED
      BY <2>1, <2>2
  <1>10. Returned(input_buffer, input_buffer', p, EgressKeeps(r), "RECIRCULATE")
    <2>1. CASE Recirculate(s, r)
      <3>1. Copy(copied(p, "RECIRC", r.keeps), p, r.keeps)
        <4>1. p.passes + 1 > 0
          BY <1>4 DEF Packet
        <4> QED
          BY <1>2, <1>4, <1>7, <1>8, <2>1, <4>1, CopiedPacket DEF Copy, Heir
      <3> QED
        BY <1>0, <1>7, <2>1, <3>1 DEF Returned
    <2>2. CASE ~Recirculate(s, r)
      BY <1>7, <2>2 DEF Returned
    <2> QED
      BY <2>1, <2>2
  <1> QED
    BY <1>1, <1>4, <1>6, <1>7, <1>9, <1>10 DEF p, taken

-----------------------------------------------------------------------------
(* Types.                                                                  *)

\* Every step either moves a packet in one of four ways, or leaves the
\* packets and what is known of them alone.
PacketsStay ==
  UNCHANGED <<input_buffer, queue, output_buffer, destination_list, tag_map, m_pktID>>

LEMMA EveryStep ==
  ASSUME [Next]_vars
  PROVE  \/ \E a \in Destinations, tagged \in Tagged : ReceivePacket(a, tagged)
         \/ \E r \in IngressOutcomes : IngressEvent(r)
         \/ \E s \in Slots, r \in EgressOutcomes :
              EgressDrop(s, r) \/ Recirculate(s, r) \/ Output(s, r)
         \/ Transmit
         \/ PacketsStay
  <1>1. Tick \/ IngressIdle \/ EgressIdle \/ TransmitIdle \/ Destroy \/ UNCHANGED vars => PacketsStay
    BY DEF Tick, IngressIdle, EgressIdle, TransmitIdle, Destroy, vars, PacketsStay
  <1>2. ControlPlane => PacketsStay
    <2>1. SetEgressDepth => PacketsStay
      BY DEF SetEgressDepth, egress_buffers!SetLimit, PacketsStay
    <2>2. \A id, config : MirroringAddSession(id, config) => PacketsStay
      BY DEF MirroringAddSession, PacketsStay
    <2>3. \A id : MirroringDeleteSession(id) => PacketsStay
      BY DEF MirroringDeleteSession, PacketsStay
    <2> QED
      BY <2>1, <2>2, <2>3 DEF ControlPlane
  <1> QED
    BY <1>1, <1>2 DEF Next, Simulation, IngressStep, EgressStep, EgressServes, TransmitStep

LEMMA TypeInit == Init => TypeOK
  <1> SUFFICES ASSUME Init PROVE TypeOK
    OBVIOUS
  <1>1. left \in [Events -> Nat]
    BY PeriodIsNat DEF Init
  <1>2. <<>> \in Seq(Packet) /\ <<>> \in Seq(Destinations)
    BY EmptySeq
  <1>3. input_buffer \in [hi : Seq(Packet), lo : Seq(Packet)]
    BY <1>2 DEF Init, input!Empty
  <1>4. queue \in [Slots -> Seq(Packet)] /\ limit \in [Slots -> Nat]
    BY <1>2, P4ProgramAssumption DEF Init, egress_buffers!Init, Slots
  <1>5. sessions = [id \in {} |-> None]
    BY DEF Init
  <1>6. DOMAIN sessions \subseteq MirrorIds /\ sessions \in [DOMAIN sessions -> MirrorConfigs]
    BY <1>5
  <1> QED
    BY <1>1, <1>2, <1>3, <1>4, <1>6 DEF Init, TypeOK

\* An event that is run leaves natural numbers of ticks.
LEMMA TicksStay ==
  ASSUME TypeOK, [Next]_vars
  PROVE  left' \in [Events -> Nat]
  <1>1. left \in [Events -> Nat]
    BY DEF TypeOK
  <1>2. ASSUME NEW e, Runs(e) PROVE left' \in [Events -> Nat]
    BY <1>1, <1>2, PeriodIsNat DEF Runs
  <1>3. CASE Tick
    BY <1>1, <1>3 DEF Tick
  <1>4. IngressStep => Runs("ingress")
    BY DEF IngressStep, IngressIdle, IngressEvent, Resubmit, Multicast, IngressDrop, Forward,
           IngressTakes
  <1>5. EgressStep => Runs("egress")
    BY DEF EgressStep, EgressIdle, EgressServes, EgressDrop, Recirculate, Output, EgressTakes
  <1>6. TransmitStep => Runs("transmit")
    BY DEF TransmitStep, TransmitIdle, Transmit
  <1>7. ASSUME left' = left PROVE left' \in [Events -> Nat]
    BY <1>1, <1>7
  <1>8. CASE ControlPlane \/ Destroy \/ UNCHANGED vars
    BY <1>7, <1>8 DEF ControlPlane, SetEgressDepth, MirroringAddSession, MirroringDeleteSession,
                      Destroy, vars
  <1>9. ASSUME NEW a, NEW tagged, ReceivePacket(a, tagged) PROVE left' = left
    BY <1>9 DEF ReceivePacket
  <1> QED
    BY <1>2, <1>3, <1>4, <1>5, <1>6, <1>7, <1>8, <1>9 DEF Next, Simulation

\* The queue lengths that are allowed, and the mirroring sessions, keep their
\* types.
LEMMA ControlStays ==
  ASSUME TypeOK, [Next]_vars
  PROVE  /\ limit' \in [Slots -> Nat]
         /\ DOMAIN sessions' \subseteq MirrorIds
         /\ sessions' \in [DOMAIN sessions' -> MirrorConfigs]
  <1>1. /\ limit \in [Slots -> Nat]
        /\ DOMAIN sessions \subseteq MirrorIds
        /\ sessions \in [DOMAIN sessions -> MirrorConfigs]
    BY DEF TypeOK
  <1>2. CASE UNCHANGED <<limit, sessions>>
    BY <1>1, <1>2
  <1>3. CASE SetEgressDepth
    <2>1. sessions' = sessions
      BY <1>3 DEF SetEgressDepth
    <2>2. PICK c \in Depths : \E S : egress_buffers!SetLimit(S, c)
      BY <1>3 DEF SetEgressDepth
    <2>3. limit' \in [Slots -> Nat]
      BY <1>1, <2>2, P4ProgramAssumption DEF egress_buffers!SetLimit, Slots
    <2> QED
      BY <1>1, <2>1, <2>3
  <1>4. ASSUME NEW id \in MirrorIds, NEW config \in MirrorConfigs, MirroringAddSession(id, config)
        PROVE  /\ limit' = limit /\ DOMAIN sessions' \subseteq MirrorIds
               /\ sessions' \in [DOMAIN sessions' -> MirrorConfigs]
    BY <1>1, <1>4 DEF MirroringAddSession
  <1>5. ASSUME NEW id \in MirrorIds, MirroringDeleteSession(id)
        PROVE  /\ limit' = limit /\ DOMAIN sessions' \subseteq MirrorIds
               /\ sessions' \in [DOMAIN sessions' -> MirrorConfigs]
    BY <1>1, <1>5 DEF MirroringDeleteSession
  <1>6. Simulation \/ Destroy \/ UNCHANGED vars => UNCHANGED <<limit, sessions>>
    BY DEF Simulation, Tick, ReceivePacket, IngressStep, IngressIdle, IngressEvent, Resubmit,
           Multicast, IngressDrop, Forward, IngressTakes, EgressStep, EgressIdle, EgressServes,
           EgressDrop, Recirculate, Output, EgressTakes, TransmitStep, TransmitIdle, Transmit,
           Destroy, vars
  <1> QED
    BY <1>1, <1>2, <1>3, <1>4, <1>5, <1>6 DEF Next, ControlPlane

LEMMA ReturnedBuffer ==
  ASSUME NEW old \in Buffer, NEW new, NEW p, NEW keeps, NEW type,
         Returned(old, new, p, keeps, type), type # "NORMAL"
  PROVE  /\ new \in Buffer
         /\ new.lo = old.lo
         /\ new.hi = old.hi \/ \E c : Copy(c, p, keeps) /\ new.hi = Append(old.hi, c)
  <1>1. CASE new = old
    BY <1>1
  <1>2. CASE new # old
    <2>1. PICK c : Copy(c, p, keeps) /\ new = input!push_front(old, type, c)
      BY <1>2 DEF Returned
    <2>2. c \in Packet
      BY <2>1 DEF Copy, Heir
    <2> QED
      BY <2>1, <2>2, PushFrontPacket
  <1> QED
    BY <1>1, <1>2

\* The buffers keep holding packets.
LEMMA BuffersStay ==
  ASSUME TypeOK, [Next]_vars
  PROVE  /\ input_buffer' \in Buffer
         /\ queue' \in [Slots -> Seq(Packet)]
         /\ output_buffer' \in Seq(Packet)
         /\ destination_list' \in Seq(Destinations)
         /\ tag_map' \subseteq 0 .. m_pktID' - 1
         /\ m_pktID' \in Nat
  <1>1. /\ input_buffer \in Buffer
        /\ queue \in [Slots -> Seq(Packet)]
        /\ output_buffer \in Seq(Packet)
        /\ destination_list \in Seq(Destinations)
    BY DEF TypeOK, Buffer
  <1>2. tag_map \subseteq 0 .. m_pktID - 1 /\ m_pktID \in Nat
    BY DEF TypeOK
  <1>3. ASSUME NEW a \in Destinations, NEW tagged \in Tagged, ReceivePacket(a, tagged)
        PROVE  /\ input_buffer' \in Buffer
               /\ UNCHANGED <<queue, output_buffer>>
               /\ destination_list' \in Seq(Destinations)
               /\ tag_map' \subseteq 0 .. m_pktID' - 1
               /\ m_pktID' \in Nat
    <2>1. /\ input_buffer' = input!push_front(input_buffer, "NORMAL", Arrived(a))
          /\ destination_list' = WithDestination(a)
          /\ tag_map' = Tags(tagged)
          /\ m_pktID' = m_pktID + 1
          /\ UNCHANGED <<queue, output_buffer>>
      BY <1>3 DEF ReceivePacket
    <2>2. input_buffer' \in Buffer
      BY <1>1, <2>1, ArrivedPacket, PushFrontPacket
    <2>3. destination_list' \in Seq(Destinations)
      BY <1>1, <2>1, DestinationIsListed
    <2>4. tag_map' \subseteq 0 .. m_pktID' - 1 /\ m_pktID' \in Nat
      <3>1. 0 .. m_pktID - 1 \subseteq 0 .. m_pktID /\ m_pktID \in 0 .. m_pktID
        BY <1>2
      <3>2. tag_map' \subseteq tag_map \cup {m_pktID}
        BY <2>1 DEF Tags
      <3>3. tag_map' \subseteq 0 .. m_pktID
        BY <1>2, <3>1, <3>2
      <3>4. m_pktID' - 1 = m_pktID
        BY <1>2, <2>1
      <3> QED
        BY <1>2, <2>1, <3>3, <3>4
    <2> QED
      BY <2>1, <2>2, <2>3, <2>4
  <1>4. ASSUME NEW r \in IngressOutcomes, IngressEvent(r)
        PROVE  /\ input_buffer' \in Buffer
               /\ queue' \in [Slots -> Seq(Packet)]
               /\ UNCHANGED <<output_buffer, destination_list, tag_map, m_pktID>>
    <2> DEFINE p == input!back(input_buffer)
               popped == input!pop_back(input_buffer)
    <2>1. /\ ~input!IsEmpty(input_buffer)
          /\ Returned(popped, input_buffer', p, IngressKeeps(r), "RESUBMIT")
          /\ \E queues : Spawned(queue, queues, p, IngressKeeps(r))
                         /\ (queue' = queues \/ Passed(queues, queue', p))
          /\ UNCHANGED <<output_buffer, destination_list, tag_map, m_pktID>>
      BY <1>4, IngressTakesPacket
    <2>2. popped \in Buffer
      BY <1>1, <2>1, PopBackPacket
    <2> HIDE DEF p, popped
    <2>3. input_buffer' \in Buffer
      BY <2>1, <2>2, ReturnedBuffer
    <2>4. queue' \in [Slots -> Seq(Packet)]
      BY <2>1 DEF Spawned, Passed, Grown
    <2> QED
      BY <2>1, <2>3, <2>4
  <1>5. ASSUME NEW s \in Slots, NEW r \in EgressOutcomes,
               EgressDrop(s, r) \/ Recirculate(s, r) \/ Output(s, r)
        PROVE  /\ input_buffer' \in Buffer
               /\ queue' \in [Slots -> Seq(Packet)]
               /\ output_buffer' \in Seq(Packet)
               /\ UNCHANGED <<destination_list, tag_map, m_pktID>>
    <2> DEFINE p == Head(queue[s])
    <2>1. /\ p \in Packet
          /\ Spawned([queue EXCEPT ![s] = Tail(@)], queue', p, EgressKeeps(r))
          /\ Returned(input_buffer, input_buffer', p, EgressKeeps(r), "RECIRCULATE")
          /\ output_buffer' \in {output_buffer, Append(output_buffer, p)}
          /\ UNCHANGED <<destination_list, tag_map, m_pktID>>
      BY <1>5, EgressTakesPacket
    <2> HIDE DEF p
    <2>2. input_buffer' \in Buffer
      BY <1>1, <2>1, ReturnedBuffer
    <2>3. queue' \in [Slots -> Seq(Packet)]
      BY <2>1 DEF Spawned
    <2>4. Append(output_buffer, p) \in Seq(Packet)
      BY <1>1, <2>1, AppendProperties
    <2>5. output_buffer' \in Seq(Packet)
      BY <1>1, <2>1, <2>4
    <2> QED
      BY <2>1, <2>2, <2>3, <2>5
  <1>6. CASE Transmit
    <2>1. /\ output_buffer # <<>> /\ output_buffer' = Tail(output_buffer)
          /\ tag_map' \subseteq tag_map
          /\ UNCHANGED <<input_buffer, queue, destination_list, m_pktID>>
      BY <1>6 DEF Transmit
    <2>2. output_buffer' \in Seq(Packet)
      BY <1>1, <2>1, HeadTailProperties
    <2>3. tag_map' \subseteq 0 .. m_pktID' - 1 /\ m_pktID' \in Nat
      BY <1>2, <2>1
    <2> QED
      BY <1>1, <2>1, <2>2, <2>3
  <1>7. CASE PacketsStay
    BY <1>1, <1>2, <1>7 DEF PacketsStay
  <1>8. ASSUME UNCHANGED <<tag_map, m_pktID>>
        PROVE  tag_map' \subseteq 0 .. m_pktID' - 1 /\ m_pktID' \in Nat
    BY <1>2, <1>8
  <1> QED
    BY <1>1, <1>3, <1>4, <1>5, <1>6, <1>7, <1>8, EveryStep

LEMMA PhaseStays ==
  ASSUME TypeOK, [Next]_vars
  PROVE  phase' \in {"running", "receiving", "outputting", "stopping ingress",
                    "stopping egress", "stopping output", "destroyed"}
  <1>1. phase \in {"running", "receiving", "outputting", "stopping ingress",
                  "stopping egress", "stopping output", "destroyed"}
    BY DEF TypeOK
  <1>2. Tick \/ IngressStep \/ EgressIdle \/ TransmitStep \/ ControlPlane \/ UNCHANGED vars => phase' = phase
    BY DEF Tick, IngressStep, IngressIdle, IngressEvent, Resubmit, Multicast, IngressDrop, Forward,
           IngressTakes, EgressIdle, TransmitStep, TransmitIdle, Transmit, ControlPlane,
           SetEgressDepth, MirroringAddSession, MirroringDeleteSession, vars
  <1>3. ASSUME NEW a, NEW tagged, ReceivePacket(a, tagged) PROVE phase' \in {phase, "receiving"}
    BY <1>3 DEF ReceivePacket
  <1>4. ASSUME NEW s \in Slots, NEW r \in EgressOutcomes,
               EgressDrop(s, r) \/ Recirculate(s, r) \/ Output(s, r)
        PROVE  phase' \in {phase, "outputting"}
    BY <1>4 DEF EgressDrop, Recirculate, Output
  <1>5. Destroy => phase' \in {"stopping ingress", "stopping egress", "stopping output", "destroyed"}
    BY DEF Destroy
  <1> QED
    BY <1>1, <1>2, <1>3, <1>4, <1>5 DEF Next, Simulation, EgressStep, EgressServes

LEMMA TypeNext == TypeOK /\ [Next]_vars => TypeOK'
  BY PhaseStays, TicksStay, BuffersStay, ControlStays DEF TypeOK, Buffer

\* TypeOK for every configuration and every P4 program: in particular every
\* copy stays within the passes it may make, whatever the outcomes clone,
\* replicate, resubmit and recirculate.
THEOREM TypesHold == Spec => []TypeOK
  BY TypeInit, TypeNext, PTL DEF Spec

-----------------------------------------------------------------------------
(* What packets keep on every way through the switch.                      *)

\* Only packets of S are in the three buffers.
Held(S, buffer, queues, output) ==
  /\ buffer \in [hi : Seq(S), lo : Seq(S)]
  /\ queues \in [Slots -> Seq(S)]
  /\ output \in Seq(S)

\* Set S contains every packet that has its origin and its metadata from one
\* of S.
Inherited(S) == S \subseteq Packet /\ \A p \in S : \A c : Heir(c, p, TRUE) => c \in S

\* The condition on the P4 program: the field lists of whatever it clones,
\* resubmits or recirculates name the ns-3 metadata.
FieldListsKeep ==
  /\ \A r \in IngressOutcomes : IngressKeeps(r)
  /\ \A r \in EgressOutcomes : EgressKeeps(r)

LEMMA GrownHolds ==
  ASSUME NEW S, Inherited(S), NEW old \in [Slots -> Seq(S)], NEW new, NEW p \in S,
         Grown(old, new, p)
  PROVE  new \in [Slots -> Seq(S)]
  <1> SUFFICES ASSUME NEW s \in Slots PROVE new[s] \in Seq(S)
    BY DEF Grown
  <1>1. p \in Packet
    BY DEF Inherited
  <1>2. Heir(To(p, s), p, TRUE)
    BY <1>1, ToPacket DEF Heir
  <1>3. To(p, s) \in S
    BY <1>2 DEF Inherited
  <1>4. GrownAt(old[s], new[s], To(p, s))
    BY DEF Grown
  <1>5. /\ Len(old[s]) \in Nat /\ \A i \in 1 .. Len(old[s]) : old[s][i] \in S
    <2>1. old[s] \in Seq(S)
      OBVIOUS
    <2> QED
      BY <2>1, LenProperties, ElementOfSeq
  <1>6. Len(new[s]) \in Nat /\ new[s] \in [1 .. Len(new[s]) -> Packet]
    BY <1>4, LenProperties DEF GrownAt
  <1>7. \A i \in 1 .. Len(new[s]) : new[s][i] \in S
    BY <1>3, <1>4, <1>5, <1>6 DEF GrownAt
  <1>8. \A n \in Nat : \A q \in [1 .. n -> S] : q \in Seq(S)
    BY SeqDef
  <1>9. new[s] \in [1 .. Len(new[s]) -> S]
    BY <1>6, <1>7
  <1> QED
    BY <1>6, <1>8, <1>9

LEMMA SpawnedHolds ==
  ASSUME NEW S, Inherited(S), NEW old \in [Slots -> Seq(S)], NEW new, NEW p \in S,
         Spawned(old, new, p, TRUE) \/ Passed(old, new, p)
  PROVE  new \in [Slots -> Seq(S)]
  <1>1. CASE new = old
    BY <1>1
  <1>2. CASE new # old
    <2>1. PICK c : Heir(c, p, TRUE) /\ Grown(old, new, c)
      BY <1>2 DEF Spawned, Passed, Copy
    <2>2. c \in S
      BY <2>1 DEF Inherited
    <2> QED
      BY <2>1, <2>2, GrownHolds
  <1> QED
    BY <1>1, <1>2

\* The input buffer once a packet has been put at the end of a queue of it.
LEMMA PushHolds ==
  ASSUME NEW S, S \subseteq Packet, NEW old \in [hi : Seq(S), lo : Seq(S)], NEW p \in S,
         NEW type
  PROVE  input!push_front(old, type, p) \in [hi : Seq(S), lo : Seq(S)]
  <1> DEFINE new == input!push_front(old, type, p)
  <1>1. old.hi \in Seq(S) /\ old.lo \in Seq(S)
    OBVIOUS
  <1>2. old.hi \in Seq(Packet) /\ old.lo \in Seq(Packet) /\ p \in Packet
    BY <1>1, SeqMonotonic
  <1>3. old \in Buffer
    BY <1>2 DEF Buffer
  <1>4. /\ new \in Buffer
        /\ new.hi \in {old.hi, Append(old.hi, p)}
        /\ new.lo \in {old.lo, Append(old.lo, p)}
    BY <1>2, <1>3, PushFrontPacket
  <1>5. Append(old.hi, p) \in Seq(S) /\ Append(old.lo, p) \in Seq(S)
    BY <1>1, AppendProperties
  <1> HIDE DEF new
  <1>6. new.hi \in Seq(S) /\ new.lo \in Seq(S)
    BY <1>1, <1>4, <1>5
  <1>7. new = [hi |-> new.hi, lo |-> new.lo]
    BY <1>4 DEF Buffer
  <1>8. new \in [hi : Seq(S), lo : Seq(S)]
    BY <1>6, <1>7
  <1> QED
    BY <1>8 DEF new

\* Packets of S are followed by packets of T, if that is where arrivals are
\* and what packets of T leave behind.
LEMMA HeldNext ==
  ASSUME TypeOK, [Next]_vars, FieldListsKeep,
         NEW S, NEW T, S \subseteq T, Inherited(T),
         \A a \in Destinations, tagged \in Tagged : ReceivePacket(a, tagged) => Arrived(a) \in T,
         Held(S, input_buffer, queue, output_buffer)
  PROVE  Held(T, input_buffer', queue', output_buffer')
  <1>1. /\ input_buffer \in [hi : Seq(T), lo : Seq(T)]
        /\ queue \in [Slots -> Seq(T)]
        /\ output_buffer \in Seq(T)
    <2>1. /\ input_buffer \in [hi : Seq(S), lo : Seq(S)]
          /\ queue \in [Slots -> Seq(S)]
          /\ output_buffer \in Seq(S)
      BY DEF Held
    <2>2. \A q \in Seq(S) : q \in Seq(T)
      BY SeqMonotonic
    <2> QED
      BY <2>1, <2>2
  <1>2. T \subseteq Packet
    BY DEF Inherited
  <1>3. ASSUME NEW a \in Destinations, NEW tagged \in Tagged, ReceivePacket(a, tagged)
        PROVE  Held(T, input_buffer', queue', output_buffer')
    <2>1. /\ input_buffer' = input!push_front(input_buffer, "NORMAL", Arrived(a))
          /\ UNCHANGED <<queue, output_buffer>>
      BY <1>3 DEF ReceivePacket
    <2>2. Arrived(a) \in T
      BY <1>3
    <2>3. input_buffer' \in [hi : Seq(T), lo : Seq(T)]
      BY <1>1, <1>2, <2>1, <2>2, PushHolds
    <2> QED
      BY <1>1, <2>1, <2>3 DEF Held
  <1>4. ASSUME NEW old \in [hi : Seq(T), lo : Seq(T)], NEW new, NEW p \in T, NEW type,
               Returned(old, new, p, TRUE, type)
        PROVE  new \in [hi : Seq(T), lo : Seq(T)]
    <2>1. CASE new = old
      BY <2>1
    <2>2. CASE new # old
      <3>1. PICK c : Heir(c, p, TRUE) /\ new = input!push_front(old, type, c)
        BY <1>4, <2>2 DEF Returned, Copy
      <3>2. c \in T
        BY <3>1 DEF Inherited
      <3> QED
        BY <1>2, <3>1, <3>2, PushHolds
    <2> QED
      BY <2>1, <2>2
  <1>5. ASSUME NEW r \in IngressOutcomes, IngressEvent(r)
        PROVE  Held(T, input_buffer', queue', output_buffer')
    <2> DEFINE p == input!back(input_buffer)
               popped == input!pop_back(input_buffer)
    <2>1. PICK queues :
               /\ ~input!IsEmpty(input_buffer)
               /\ Returned(popped, input_buffer', p, TRUE, "RESUBMIT")
               /\ Spawned(queue, queues, p, TRUE)
               /\ queue' = queues \/ Passed(queues, queue', p)
               /\ output_buffer' = output_buffer
      <3>1. IngressKeeps(r) = TRUE
        <4>1. r.keeps \in BOOLEAN
          BY P4ProgramAssumption
        <4> QED
          BY <4>1 DEF FieldListsKeep, IngressKeeps
      <3> QED
        BY <1>5, <3>1, IngressTakesPacket
    <2>2. /\ input_buffer.hi \in Seq(T) /\ input_buffer.lo \in Seq(T)
          /\ input_buffer \in Buffer
      BY <1>1 DEF TypeOK, Buffer
    <2>3. /\ popped \in Buffer
          /\ \/ /\ input_buffer.hi # <<>> /\ p = Head(input_buffer.hi)
                /\ popped.hi = Tail(input_buffer.hi) /\ popped.lo = input_buffer.lo
             \/ /\ input_buffer.lo # <<>> /\ p = Head(input_buffer.lo)
                /\ popped.lo = Tail(input_buffer.lo) /\ popped.hi = input_buffer.hi
      BY <2>1, <2>2, PopBackPacket
    <2> HIDE DEF p, popped
    <2>4. p \in T /\ popped.hi \in Seq(T) /\ popped.lo \in Seq(T)
      BY <2>2, <2>3, HeadTailProperties
    <2>5. popped \in [hi : Seq(T), lo : Seq(T)]
      <3>1. popped = [hi |-> popped.hi, lo |-> popped.lo]
        BY <2>3 DEF Buffer
      <3> QED
        BY <2>4, <3>1
    <2>6. input_buffer' \in [hi : Seq(T), lo : Seq(T)]
      BY <1>4, <2>1, <2>4, <2>5
    <2>7. queues \in [Slots -> Seq(T)]
      BY <1>1, <2>1, <2>4, SpawnedHolds
    <2>8. queue' \in [Slots -> Seq(T)]
      BY <2>1, <2>4, <2>7, SpawnedHolds
    <2> QED
      BY <1>1, <2>1, <2>6, <2>8 DEF Held
  <1>6. ASSUME NEW s \in Slots, NEW r \in EgressOutcomes,
               EgressDrop(s, r) \/ Recirculate(s, r) \/ Output(s, r)
        PROVE  Held(T, input_buffer', queue', output_buffer')
    <2> DEFINE p == Head(queue[s])
               taken == [queue EXCEPT ![s] = Tail(@)]
    <2>1. /\ queue[s] # <<>>
          /\ Spawned(taken, queue', p, TRUE)
          /\ Returned(input_buffer, input_buffer', p, TRUE, "RECIRCULATE")
          /\ output_buffer' \in {output_buffer, Append(output_buffer, p)}
      <3>1. EgressKeeps(r) = TRUE
        <4>1. r.keeps \in BOOLEAN
          BY P4ProgramAssumption
        <4> QED
          BY <4>1 DEF FieldListsKeep, EgressKeeps
      <3> QED
        BY <1>6, <3>1, EgressTakesPacket
    <2>2. queue[s] \in Seq(T)
      BY <1>1
    <2>3. p \in T /\ Tail(queue[s]) \in Seq(T)
      BY <2>1, <2>2, HeadTailProperties
    <2>4. taken \in [Slots -> Seq(T)]
      BY <1>1, <2>3
    <2> HIDE DEF p, taken
    <2>5. queue' \in [Slots -> Seq(T)]
      BY <2>1, <2>3, <2>4, SpawnedHolds
    <2>6. input_buffer' \in [hi : Seq(T), lo : Seq(T)]
      BY <1>1, <1>4, <2>1, <2>3
    <2>7. Append(output_buffer, p) \in Seq(T)
      BY <1>1, <2>3, AppendProperties
    <2> QED
      BY <1>1, <2>1, <2>5, <2>6, <2>7 DEF Held
  <1>7. CASE Transmit
    <2>1. /\ output_buffer # <<>> /\ output_buffer' = Tail(output_buffer)
          /\ UNCHANGED <<input_buffer, queue>>
      BY <1>7 DEF Transmit
    <2>2. output_buffer' \in Seq(T)
      BY <1>1, <2>1, HeadTailProperties
    <2> QED
      BY <1>1, <2>1, <2>2 DEF Held
  <1>8. CASE PacketsStay
    BY <1>1, <1>8 DEF PacketsStay, Held
  <1> QED
    BY <1>3, <1>5, <1>6, <1>7, <1>8, EveryStep

\* Packets whose metadata holds their own number.
Numbered == {p \in Packet : p.ns3i.pkts_id = p.packet_id}

LEMMA NumberedNext ==
  TypeOK /\ [Next]_vars /\ FieldListsKeep /\ Held(Numbered, input_buffer, queue, output_buffer)
    => Held(Numbered, input_buffer', queue', output_buffer')
  <1> SUFFICES ASSUME TypeOK, [Next]_vars, FieldListsKeep,
                      Held(Numbered, input_buffer, queue, output_buffer)
               PROVE  Held(Numbered, input_buffer', queue', output_buffer')
    OBVIOUS
  <1>1. Inherited(Numbered)
    BY DEF Inherited, Numbered, Heir
  <1>2. \A a \in Destinations : Arrived(a) \in Numbered
    BY ArrivedPacket DEF Numbered
  <1> QED
    BY <1>1, <1>2, HeldNext

LEMMA EmptyHolds ==
  ASSUME Init, NEW S
  PROVE  Held(S, input_buffer, queue, output_buffer)
  BY EmptySeq DEF Init, input!Empty, egress_buffers!Init, Slots, Held

\* TagsBelong, whenever the field lists keep the ns-3 metadata: in every
\* buffer and on every way the metadata of a packet holds its own number.
THEOREM TagsStayWithTheirPackets ==
  ASSUME FieldListsKeep
  PROVE  Spec => TagsBelong
  <1> DEFINE IInv == TypeOK /\ Held(Numbered, input_buffer, queue, output_buffer)
             Belong == /\ Transmit => Sent.tags \subseteq {Sent.packet.packet_id}
                       /\ tag_map' \ tag_map \subseteq {m_pktID}
  <1>1. Init => IInv
    BY TypeInit, EmptyHolds
  <1>2. IInv /\ [Next]_vars => IInv'
    BY TypeNext, NumberedNext
  <1>3. IInv /\ [Next]_vars => [Belong]_vars
    <2> SUFFICES ASSUME IInv, [Next]_vars PROVE Belong
      OBVIOUS
    <2>1. ASSUME Transmit PROVE Sent.tags \subseteq {Sent.packet.packet_id}
      <3>1. output_buffer # <<>> /\ output_buffer \in Seq(Numbered)
        BY <2>1 DEF Transmit, Held
      <3>2. Head(output_buffer).ns3i.pkts_id = Head(output_buffer).packet_id
        BY <3>1, HeadTailProperties DEF Numbered
      <3>3. /\ Sent.packet = Head(output_buffer)
            /\ Sent.tags = tag_map \cap {Head(output_buffer).ns3i.pkts_id}
        BY DEF Sent
      <3> QED
        BY <3>2, <3>3
    <2>2. tag_map' \ tag_map \subseteq {m_pktID}
      <3>1. ASSUME NEW a, NEW tagged, ReceivePacket(a, tagged)
            PROVE  tag_map' \ tag_map \subseteq {m_pktID}
        BY <3>1 DEF ReceivePacket, Tags
      <3>2. ASSUME NEW r \in IngressOutcomes, IngressEvent(r) PROVE tag_map' = tag_map
        BY <3>2, IngressTakesPacket
      <3>3. ASSUME NEW s \in Slots, NEW r \in EgressOutcomes,
                   EgressDrop(s, r) \/ Recirculate(s, r) \/ Output(s, r)
            PROVE  tag_map' = tag_map
        BY <3>3, EgressTakesPacket
      <3>4. Transmit => tag_map' \subseteq tag_map
        BY DEF Transmit
      <3>5. PacketsStay => tag_map' = tag_map
        BY DEF PacketsStay
      <3> QED
        BY <3>1, <3>2, <3>3, <3>4, <3>5, EveryStep
    <2> QED
      BY <2>1, <2>2
  <1> QED
    BY <1>1, <1>2, <1>3, PTL DEF Spec, TagsBelong

\* Packets whose metadata holds the place of their address in the list.
Addressed ==
  {p \in Packet : /\ p.ns3i.destination + 1 \in 1 .. Len(destination_list)
                  /\ destination_list[p.ns3i.destination + 1] = p.to}

\* No address is twice in the list.
Distinct == \A i, j \in DOMAIN destination_list :
              destination_list[i] = destination_list[j] => i = j

\* The condition on the network: the index of every address fits in its field.
AddressesFit == IsFiniteSet(Destinations) /\ Cardinality(Destinations) <= DestinationSize

LEMMA DistinctFits ==
  ASSUME AddressesFit, NEW list \in Seq(Destinations),
         \A i, j \in DOMAIN list : list[i] = list[j] => i = j
  PROVE  Len(list) <= DestinationSize
  <1>1. Len(list) \in Nat /\ DOMAIN list = 1 .. Len(list) /\ list \in [1 .. Len(list) -> Destinations]
    BY LenProperties
  <1>2. IsFiniteSet(1 .. Len(list)) /\ Cardinality(1 .. Len(list)) = Len(list)
    BY <1>1, FS_Interval
  <1>3. Cardinality(Destinations) \in Nat /\ DestinationSize \in Nat
    BY FS_CardinalityType, P4ProgramAssumption DEF AddressesFit
  <1>4. ~(Cardinality(Destinations) < Len(list))
    <2> SUFFICES ASSUME Cardinality(Destinations) < Len(list) PROVE FALSE
      OBVIOUS
    <2>1. \E i, j \in 1 .. Len(list) : i # j /\ list[i] = list[j]
      BY <1>1, <1>2, FS_PigeonHole DEF AddressesFit
    <2> QED
      BY <1>1, <2>1
  <1> QED
    BY <1>1, <1>3, <1>4 DEF AddressesFit

\* The list with one more address.
LEMMA ListNext ==
  ASSUME TypeOK, Distinct, NEW a \in Destinations
  PROVE  LET list == WithDestination(a)
         IN  \A i, j \in DOMAIN list : list[i] = list[j] => i = j
  <1> DEFINE list == WithDestination(a)
  <1>0. destination_list \in Seq(Destinations)
    BY DEF TypeOK
  <1>1. CASE list = destination_list
    BY <1>1 DEF Distinct
  <1>2. CASE list # destination_list
    <2>1. /\ \A i \in DOMAIN destination_list : destination_list[i] # a
          /\ list = Append(destination_list, a)
      BY <1>2 DEF WithDestination
    <2> HIDE DEF list
    <2>2. /\ Len(destination_list) \in Nat
          /\ DOMAIN destination_list = 1 .. Len(destination_list)
          /\ DOMAIN list = 1 .. Len(destination_list) + 1
          /\ \A i \in 1 .. Len(destination_list) : list[i] = destination_list[i]
          /\ list[Len(destination_list) + 1] = a
      <3>1. list \in Seq(Destinations) /\ Len(list) = Len(destination_list) + 1
        BY <1>0, <2>1, AppendProperties
      <3> QED
        BY <1>0, <2>1, <3>1, AppendProperties, LenProperties
    <2>3. ASSUME NEW i \in DOMAIN list, NEW j \in DOMAIN list, list[i] = list[j] PROVE i = j
      <3>1. \A k \in DOMAIN list : k \in DOMAIN destination_list \/ k = Len(destination_list) + 1
        BY <2>2
      <3>2. CASE i \in DOMAIN destination_list /\ j \in DOMAIN destination_list
        BY <2>2, <2>3, <3>2 DEF Distinct
      <3>3. CASE i = Len(destination_list) + 1 /\ j \in DOMAIN destination_list
        BY <2>1, <2>2, <2>3, <3>3
      <3>4. CASE j = Len(destination_list) + 1 /\ i \in DOMAIN destination_list
        BY <2>1, <2>2, <2>3, <3>4
      <3> QED
        BY <3>1, <3>2, <3>3, <3>4
    <2> QED
      BY <2>3 DEF list
  <1> QED
    BY <1>1, <1>2

LEMMA AddressedNext ==
  ASSUME TypeOK, [Next]_vars, FieldListsKeep, AddressesFit, Distinct,
         Held(Addressed, input_buffer, queue, output_buffer)
  PROVE  Distinct' /\ Held(Addressed', input_buffer', queue', output_buffer')
  <1>0. destination_list \in Seq(Destinations) /\ Len(destination_list) \in Nat
    BY LenProperties DEF TypeOK
  <1>1. ASSUME NEW a \in Destinations, NEW tagged \in Tagged, ReceivePacket(a, tagged)
        PROVE  Distinct' /\ Addressed \subseteq Addressed' /\ Arrived(a) \in Addressed'
    <2> DEFINE list == WithDestination(a)
    <2>1. /\ list \in Seq(Destinations)
          /\ Len(destination_list) <= Len(list)
          /\ \A i \in 1 .. Len(destination_list) : list[i] = destination_list[i]
          /\ IndexOf(a, list) \in 1 .. Len(list)
          /\ list[IndexOf(a, list)] = a
      BY <1>0, DestinationIsListed
    <2>2. \A i, j \in DOMAIN list : list[i] = list[j] => i = j
      BY ListNext
    <2>3. destination_list' = list
      BY <1>1 DEF ReceivePacket
    <2>4. DestinationIndex(a) = (IndexOf(a, list) - 1) % DestinationSize
      BY DEF DestinationIndex
    <2> HIDE DEF list
    <2>5. Distinct'
      BY <2>2, <2>3 DEF Distinct
    <2>6. Len(list) \in Nat /\ Len(list) <= DestinationSize
      BY <2>1, <2>2, LenProperties, DistinctFits
    <2>7. DestinationIndex(a) + 1 = IndexOf(a, list)
      <3>1. IndexOf(a, list) - 1 \in 0 .. DestinationSize - 1 /\ DestinationSize \in Nat \ {0}
        BY <2>1, <2>6, P4ProgramAssumption
      <3>2. (IndexOf(a, list) - 1) % DestinationSize = IndexOf(a, list) - 1
        BY <3>1
      <3> QED
        BY <2>1, <2>4, <2>6, <3>1, <3>2
    <2>8. Arrived(a) \in Addressed'
      <3>1. /\ Arrived(a) \in Packet /\ Arrived(a).to = a
            /\ Arrived(a).ns3i.destination + 1 = IndexOf(a, list)
        BY <2>7, ArrivedPacket
      <3> QED
        BY <2>1, <2>3, <3>1 DEF Addressed
    <2>9. Addressed \subseteq Addressed'
      BY <1>0, <2>1, <2>3, <2>6 DEF Addressed
    <2> QED
      BY <2>5, <2>8, <2>9
  <1>2. ASSUME destination_list' = destination_list
        PROVE  Distinct' /\ Addressed \subseteq Addressed'
    BY <1>2 DEF Distinct, Addressed
  <1>3. (\E a \in Destinations, tagged \in Tagged : ReceivePacket(a, tagged))
        \/ destination_list' = destination_list
    <2>1. ASSUME NEW r \in IngressOutcomes, IngressEvent(r)
          PROVE  destination_list' = destination_list
      BY <2>1, IngressTakesPacket
    <2>2. ASSUME NEW s \in Slots, NEW r \in EgressOutcomes,
                 EgressDrop(s, r) \/ Recirculate(s, r) \/ Output(s, r)
          PROVE  destination_list' = destination_list
      BY <2>2, EgressTakesPacket
    <2>3. Transmit \/ PacketsStay => destination_list' = destination_list
      BY DEF Transmit, PacketsStay
    <2> QED
      BY <2>1, <2>2, <2>3, EveryStep
  <1>4. Distinct' /\ Addressed \subseteq Addressed'
    BY <1>1, <1>2, <1>3
  <1>5. Inherited(Addressed')
    BY DEF Inherited, Addressed, Heir
  <1>6. \A a \in Destinations, tagged \in Tagged : ReceivePacket(a, tagged) => Arrived(a) \in Addressed'
    BY <1>1
  <1>7. Held(Addressed', input_buffer', queue', output_buffer')
    BY <1>4, <1>5, <1>6, HeldNext
  <1> QED
    BY <1>4, <1>7

\* DestinationPreserved, whenever the field lists keep the ns-3 metadata and
\* there are no more addresses than the metadata can number.
THEOREM DestinationsPreserved ==
  ASSUME FieldListsKeep, AddressesFit
  PROVE  Spec => DestinationPreserved
  <1> DEFINE IInv == TypeOK /\ Distinct /\ Held(Addressed, input_buffer, queue, output_buffer)
  <1>1. Init => IInv
    <2>1. Init => Distinct
      BY DEF Init, Distinct
    <2> QED
      BY <2>1, TypeInit, EmptyHolds
  <1>2. IInv /\ [Next]_vars => IInv'
    <2> SUFFICES ASSUME IInv, [Next]_vars PROVE IInv'
      OBVIOUS
    <2>1. Distinct' /\ Held(Addressed', input_buffer', queue', output_buffer')
      BY AddressedNext
    <2> QED
      BY <2>1, TypeNext DEF Held
  <1>3. IInv => (Transmit => Sent.destination = Sent.packet.to)
    <2> SUFFICES ASSUME IInv, Transmit PROVE Sent.destination = Sent.packet.to
      OBVIOUS
    <2>1. output_buffer # <<>> /\ output_buffer \in Seq(Addressed)
      BY DEF Transmit, Held
    <2>2. Head(output_buffer) \in Addressed
      BY <2>1, HeadTailProperties
    <2> QED
      BY <2>2 DEF Addressed, Sent
  <1> QED
    BY <1>1, <1>2, <1>3, PTL DEF Spec, DestinationPreserved

-----------------------------------------------------------------------------
(***************************************************************************)
(* The order of packets.  InOrder alone is not inductive.  What makes it   *)
(* so: the arrivals wait in the order of their numbers, everything that is *)
(* not a copy and has left them has a smaller number, and whatever is sent *)
(* back waits apart.                                                       *)
(***************************************************************************)

\* A packet for the port and the priority of slot s.
Placed(p, s) == s = <<p.egress_port, NbPriorities - 1 - p.priority>>

\* In queue q of slot s and in the output buffer, packets of slot s that are
\* not copies are in the order they arrived in.
LinedAt(s, q, out) ==
  /\ \A i \in 1 .. Len(q) : Placed(q[i], s)
  /\ \A i, j \in 1 .. Len(q) :
       i < j /\ q[i].passes = 0 /\ q[j].passes = 0 => Precedes(q[i], q[j])
  /\ \A i, j \in 1 .. Len(out) :
       /\ i < j
       /\ out[i].passes = 0 /\ Placed(out[i], s)
       /\ out[j].passes = 0 /\ Placed(out[j], s)
       => Precedes(out[i], out[j])
  /\ \A i \in 1 .. Len(out), j \in 1 .. Len(q) :
       out[i].passes = 0 /\ Placed(out[i], s) /\ q[j].passes = 0 => Precedes(out[i], q[j])

\* What is not a copy in the sequence arrived before number n.
Earlier(seq, n) == \A i \in 1 .. Len(seq) : seq[i].passes = 0 => seq[i].packet_id < n

\* The arrivals that still wait for the ingress.
ArrivalsInOrder(lo) ==
  /\ \A i \in 1 .. Len(lo) : lo[i].passes = 0 /\ lo[i].packet_id < m_pktID
  /\ \A i, j \in 1 .. Len(lo) : i < j => lo[i].packet_id < lo[j].packet_id

\* Number n comes after everything that has left the arrivals.
After(queues, out, n) == Earlier(out, n) /\ \A s \in Slots : Earlier(queues[s], n)

OrderInv ==
  /\ ArrivalsInOrder(input_buffer.lo)
  /\ \A i \in 1 .. Len(input_buffer.hi) : input_buffer.hi[i].passes > 0
  /\ \A s \in Slots : LinedAt(s, queue[s], output_buffer)
  /\ After(queue, output_buffer, m_pktID)
  /\ \A i \in 1 .. Len(input_buffer.lo) :
       After(queue, output_buffer, input_buffer.lo[i].packet_id)

-----------------------------------------------------------------------------
(* One sequence.                                                           *)

LEMMA PacketNumbers == \A p \in Packet : p.packet_id \in Nat /\ p.passes \in Nat
  BY P4ProgramAssumption DEF Packet

LEMMA NumbersOf ==
  ASSUME NEW seq \in Seq(Packet), NEW i \in 1 .. Len(seq)
  PROVE  seq[i] \in Packet /\ seq[i].packet_id \in Nat /\ seq[i].passes \in Nat
  <1>1. seq[i] \in Packet
    BY ElementOfSeq
  <1> QED
    BY <1>1, PacketNumbers

LEMMA EarlierGrows ==
  ASSUME NEW old \in Seq(Packet), NEW new, NEW item \in Packet, NEW n \in Nat,
         GrownAt(old, new, item), Earlier(old, n),
         item.passes > 0 \/ item.packet_id < n
  PROVE  Earlier(new, n)
  <1>1. Len(old) \in Nat /\ Len(new) \in Nat
    BY LenProperties DEF GrownAt
  <1>2. item.passes \in Nat
    BY P4ProgramAssumption DEF Packet
  <1> QED
    BY <1>1, <1>2 DEF GrownAt, Earlier

LEMMA EarlierTail ==
  ASSUME NEW seq \in Seq(Packet), seq # <<>>, NEW n, Earlier(seq, n)
  PROVE  Earlier(Tail(seq), n)
  <1>1. /\ Len(seq) \in Nat /\ Len(Tail(seq)) = Len(seq) - 1
        /\ \A i \in 1 .. Len(Tail(seq)) : Tail(seq)[i] = seq[i + 1]
    BY HeadTailProperties, LenProperties
  <1>2. \A i \in 1 .. Len(Tail(seq)) : i + 1 \in 1 .. Len(seq)
    BY <1>1
  <1> QED
    BY <1>1, <1>2 DEF Earlier

LEMMA EarlierAppend ==
  ASSUME NEW seq \in Seq(Packet), NEW n, NEW p \in Packet, Earlier(seq, n),
         p.passes = 0 => p.packet_id < n
  PROVE  Earlier(Append(seq, p), n)
  <1>1. /\ Len(seq) \in Nat /\ Len(Append(seq, p)) = Len(seq) + 1
        /\ \A i \in 1 .. Len(seq) : Append(seq, p)[i] = seq[i]
        /\ Append(seq, p)[Len(seq) + 1] = p
    BY AppendProperties, LenProperties
  <1>2. \A i \in 1 .. Len(Append(seq, p)) : i \in 1 .. Len(seq) \/ i = Len(seq) + 1
    BY <1>1
  <1> QED
    BY <1>1, <1>2 DEF Earlier

\* What grows stays in order if the new items are copies, or arrived later
\* than what is there and are replicas of one packet or one item only.
LEMMA LinedGrows ==
  ASSUME NEW s \in Slots, NEW old \in Seq(Packet), NEW new, NEW item \in Packet,
         NEW out \in Seq(Packet), LinedAt(s, old, out), GrownAt(old, new, item),
         Len(new) # Len(old) => Placed(item, s),
         \/ item.passes > 0
         \/ /\ Earlier(old, item.packet_id) /\ Earlier(out, item.packet_id)
            /\ item.instance_type = "REPLICATION" \/ Len(new) <= Len(old) + 1
  PROVE  LinedAt(s, new, out)
  <1>1. Len(old) \in Nat /\ Len(new) \in Nat /\ Len(out) \in Nat
    BY LenProperties DEF GrownAt
  <1>2. item.passes \in Nat
    BY P4ProgramAssumption DEF Packet
  <1>3. \A i \in 1 .. Len(new) : \/ i \in 1 .. Len(old) /\ new[i] = old[i]
                                 \/ i > Len(old) /\ new[i] = item /\ Placed(item, s)
    <2> SUFFICES ASSUME NEW i \in 1 .. Len(new)
                 PROVE  \/ i \in 1 .. Len(old) /\ new[i] = old[i]
                        \/ i > Len(old) /\ new[i] = item /\ Placed(item, s)
      OBVIOUS
    <2>1. new[i] = IF i <= Len(old) THEN old[i] ELSE item
      BY DEF GrownAt
    <2>2. CASE i <= Len(old)
      BY <1>1, <2>1, <2>2
    <2>3. CASE ~(i <= Len(old))
      <3>1. i > Len(old) /\ Len(new) # Len(old) /\ new[i] = item
        BY <1>1, <2>1, <2>3
      <3> QED
        BY <3>1
    <2> QED
      BY <2>2, <2>3
  <1>4. \A i \in 1 .. Len(new) : Placed(new[i], s)
    BY <1>3 DEF LinedAt
  <1>5. ASSUME NEW i \in 1 .. Len(new), NEW j \in 1 .. Len(new), i < j,
               new[i].passes = 0, new[j].passes = 0
        PROVE  Precedes(new[i], new[j])
    <2>1. CASE i \in 1 .. Len(old) /\ j \in 1 .. Len(old)
      <3>1. new[i] = old[i] /\ new[j] = old[j]
        BY <1>1, <1>3, <2>1
      <3> QED
        BY <1>5, <2>1, <3>1 DEF LinedAt
    <2>2. CASE i \in 1 .. Len(old) /\ j > Len(old)
      <3>1. new[i] = old[i] /\ new[j] = item
        BY <1>1, <1>3, <2>2
      <3>2. Earlier(old, item.packet_id)
        BY <1>2, <1>5, <3>1
      <3> QED
        BY <1>5, <2>2, <3>1, <3>2 DEF Earlier, Precedes
    <2>3. CASE i > Len(old)
      <3>1. j > Len(old) /\ Len(new) > Len(old) + 1
        BY <1>1, <1>5, <2>3
      <3>2. new[i] = item /\ new[j] = item
        BY <1>1, <1>3, <2>3, <3>1
      <3>3. item.instance_type = "REPLICATION"
        BY <1>1, <1>2, <1>5, <3>1, <3>2
      <3> QED
        BY <3>2, <3>3 DEF Precedes
    <2> QED
      BY <1>1, <1>3, <1>5, <2>1, <2>2, <2>3
  <1>6. ASSUME NEW i \in 1 .. Len(out), NEW j \in 1 .. Len(new),
               out[i].passes = 0, Placed(out[i], s), new[j].passes = 0
        PROVE  Precedes(out[i], new[j])
    <2>1. CASE j \in 1 .. Len(old) /\ new[j] = old[j]
      BY <1>6, <2>1 DEF LinedAt
    <2>2. CASE new[j] = item
      <3>1. Earlier(out, item.packet_id)
        BY <1>2, <1>6, <2>2
      <3> QED
        BY <1>6, <2>2, <3>1 DEF Earlier, Precedes
    <2> QED
      BY <1>3, <2>1, <2>2
  <1>7. \A i, j \in 1 .. Len(out) :
          /\ i < j
          /\ out[i].passes = 0 /\ Placed(out[i], s)
          /\ out[j].passes = 0 /\ Placed(out[j], s)
          => Precedes(out[i], out[j])
    BY DEF LinedAt
  <1> QED
    BY <1>4, <1>5, <1>6, <1>7 DEF LinedAt

\* The first packet of a queue leaves it.
LEMMA LinedTail ==
  ASSUME NEW s \in Slots, NEW q \in Seq(Packet), q # <<>>, NEW out \in Seq(Packet),
         LinedAt(s, q, out)
  PROVE  LinedAt(s, Tail(q), out)
  <1>1. /\ Len(q) \in Nat /\ Len(Tail(q)) = Len(q) - 1
        /\ \A i \in 1 .. Len(Tail(q)) : Tail(q)[i] = q[i + 1]
    BY HeadTailProperties, LenProperties
  <1>2. \A i \in 1 .. Len(Tail(q)) : i + 1 \in 1 .. Len(q)
    BY <1>1
  <1>3. \A i, j \in 1 .. Len(Tail(q)) : i < j => i + 1 < j + 1
    BY <1>1
  <1> QED
    BY <1>1, <1>2, <1>3 DEF LinedAt

\* It is put into the output buffer.
LEMMA LinedOutput ==
  ASSUME NEW s \in Slots, NEW q \in Seq(Packet), q # <<>>, NEW out \in Seq(Packet),
         LinedAt(s, q, out)
  PROVE  LinedAt(s, Tail(q), Append(out, Head(q)))
  <1> DEFINE p == Head(q)
             longer == Append(out, p)
             rest == Tail(q)
  <1>1. /\ Len(q) \in Nat \ {0} /\ p = q[1] /\ p \in Packet /\ Len(rest) = Len(q) - 1
        /\ \A i \in 1 .. Len(rest) : rest[i] = q[i + 1]
    BY EmptySeq, HeadTailProperties, LenProperties
  <1>2. \A i \in 1 .. Len(rest) : i + 1 \in 1 .. Len(q) /\ 1 < i + 1
    BY <1>1
  <1>3. /\ Len(out) \in Nat /\ Len(longer) = Len(out) + 1
        /\ \A i \in 1 .. Len(out) : longer[i] = out[i]
        /\ longer[Len(out) + 1] = p
    BY <1>1, AppendProperties, LenProperties
  <1>4. LinedAt(s, rest, out)
    BY LinedTail
  <1> HIDE DEF p, longer, rest
  <1>5. \A i \in 1 .. Len(longer) : \/ i \in 1 .. Len(out) /\ longer[i] = out[i]
                                    \/ i = Len(out) + 1 /\ longer[i] = p
    <2>1. \A i \in 1 .. Len(longer) : i \in 1 .. Len(out) \/ i = Len(out) + 1
      BY <1>3
    <2> QED
      BY <1>3, <2>1
  <1>6. 1 \in 1 .. Len(q)
    BY <1>1
  <1>7. ASSUME NEW i \in 1 .. Len(longer), NEW j \in 1 .. Len(longer), i < j,
               longer[i].passes = 0, Placed(longer[i], s),
               longer[j].passes = 0, Placed(longer[j], s)
        PROVE  Precedes(longer[i], longer[j])
    <2>1. i \in 1 .. Len(out) /\ longer[i] = out[i]
      BY <1>3, <1>5, <1>7
    <2>2. CASE j \in 1 .. Len(out) /\ longer[j] = out[j]
      BY <1>7, <2>1, <2>2 DEF LinedAt
    <2>3. CASE longer[j] = p
      BY <1>1, <1>6, <1>7, <2>1, <2>3 DEF LinedAt
    <2> QED
      BY <1>5, <2>2, <2>3
  <1>8. ASSUME NEW i \in 1 .. Len(longer), NEW j \in 1 .. Len(rest),
               longer[i].passes = 0, Placed(longer[i], s), rest[j].passes = 0
        PROVE  Precedes(longer[i], rest[j])
    <2>1. CASE i \in 1 .. Len(out) /\ longer[i] = out[i]
      BY <1>4, <1>8, <2>1 DEF LinedAt
    <2>2. CASE longer[i] = p
      BY <1>1, <1>2, <1>6, <1>8, <2>2 DEF LinedAt
    <2> QED
      BY <1>5, <2>1, <2>2
  <1>9. LinedAt(s, rest, longer)
    BY <1>4, <1>7, <1>8 DEF LinedAt
  <1> QED
    BY <1>9 DEF p, longer, rest

\* A packet of another slot is put into the output buffer.
LEMMA LinedBeside ==
  ASSUME NEW s \in Slots, NEW q \in Seq(Packet), NEW out \in Seq(Packet), NEW p \in Packet,
         LinedAt(s, q, out), ~Placed(p, s)
  PROVE  LinedAt(s, q, Append(out, p))
  <1> DEFINE longer == Append(out, p)
  <1>1. /\ Len(out) \in Nat /\ Len(longer) = Len(out) + 1
        /\ \A i \in 1 .. Len(out) : longer[i] = out[i]
        /\ longer[Len(out) + 1] = p
    BY AppendProperties, LenProperties
  <1> HIDE DEF longer
  <1>2. \A i \in 1 .. Len(longer) :
          Placed(longer[i], s) => i \in 1 .. Len(out) /\ longer[i] = out[i]
    BY <1>1
  <1>3. LinedAt(s, q, longer)
    BY <1>2 DEF LinedAt
  <1> QED
    BY <1>3 DEF longer

\* The oldest packet of the output buffer leaves it.
LEMMA LinedTransmit ==
  ASSUME NEW s \in Slots, NEW q \in Seq(Packet), NEW out \in Seq(Packet), out # <<>>,
         LinedAt(s, q, out)
  PROVE  LinedAt(s, q, Tail(out))
  <1>1. /\ Len(out) \in Nat /\ Len(Tail(out)) = Len(out) - 1
        /\ \A i \in 1 .. Len(Tail(out)) : Tail(out)[i] = out[i + 1]
    BY HeadTailProperties, LenProperties
  <1>2. \A i \in 1 .. Len(Tail(out)) : i + 1 \in 1 .. Len(out)
    BY <1>1
  <1>3. \A i, j \in 1 .. Len(Tail(out)) : i < j => i + 1 < j + 1
    BY <1>1
  <1> QED
    BY <1>1, <1>2, <1>3 DEF LinedAt

-----------------------------------------------------------------------------
(* All the queues.                                                         *)

AllLined(queues, out) == \A s \in Slots : LinedAt(s, queues[s], out)

\* A packet for a slot is placed in it if it has the priority of the slot.
LEMMA PlacedTo ==
  ASSUME NEW p \in Packet, NEW s \in Slots, p.priority = NbPriorities - 1 - s[2]
  PROVE  Placed(To(p, s), s)
  <1>1. s = <<s[1], s[2]>> /\ s[2] \in Int /\ NbPriorities \in Int
    BY SlotIsPair, P4ProgramAssumption DEF Priorities
  <1>2. To(p, s).egress_port = s[1] /\ To(p, s).priority = NbPriorities - 1 - s[2]
    BY ToPacket
  <1>3. NbPriorities - 1 - (NbPriorities - 1 - s[2]) = s[2]
    BY <1>1
  <1> QED
    BY <1>1, <1>2, <1>3 DEF Placed

LEMMA QueuesGrow ==
  ASSUME NEW old \in [Slots -> Seq(Packet)], NEW new, NEW c \in Packet,
         NEW out \in Seq(Packet), Grown(old, new, c), AllLined(old, out),
         \/ c.passes > 0
         \/ /\ After(old, out, c.packet_id)
            /\ \/ c.instance_type = "REPLICATION"
               \/ \A s \in Slots : Len(new[s]) <= Len(old[s]) + 1
  PROVE  /\ AllLined(new, out)
         /\ \A n \in Nat : After(old, out, n) /\ (c.passes > 0 \/ c.packet_id < n) => After(new, out, n)
  <1>1. ASSUME NEW s \in Slots
        PROVE  /\ LinedAt(s, new[s], out)
               /\ \A n \in Nat : Earlier(old[s], n) /\ (c.passes > 0 \/ c.packet_id < n)
                                 => Earlier(new[s], n)
    <2> DEFINE item == To(c, s)
    <2>1. /\ item \in Packet /\ item.passes = c.passes /\ item.packet_id = c.packet_id
          /\ item.instance_type = c.instance_type
      BY ToPacket
    <2>2. /\ GrownAt(old[s], new[s], item)
          /\ Len(new[s]) # Len(old[s]) => Placed(item, s)
      BY PlacedTo DEF Grown
    <2> HIDE DEF item
    <2>3. old[s] \in Seq(Packet) /\ LinedAt(s, old[s], out)
      BY DEF AllLined
    <2>4. \/ item.passes > 0
          \/ /\ Earlier(old[s], item.packet_id) /\ Earlier(out, item.packet_id)
             /\ item.instance_type = "REPLICATION" \/ Len(new[s]) <= Len(old[s]) + 1
      BY <2>1 DEF After
    <2>5. LinedAt(s, new[s], out)
      BY <2>1, <2>2, <2>3, <2>4, LinedGrows
    <2>6. \A n \in Nat : Earlier(old[s], n) /\ (c.passes > 0 \/ c.packet_id < n)
                         => Earlier(new[s], n)
      BY <2>1, <2>2, <2>3, EarlierGrows
    <2> QED
      BY <2>5, <2>6
  <1> QED
    BY <1>1 DEF AllLined, After

LEMMA SpawnedLined ==
  ASSUME NEW old \in [Slots -> Seq(Packet)], NEW new, NEW p, NEW keeps,
         NEW out \in Seq(Packet), Spawned(old, new, p, keeps), AllLined(old, out)
  PROVE  /\ AllLined(new, out)
         /\ \A n \in Nat : After(old, out, n) => After(new, out, n)
  <1>1. CASE new = old
    BY <1>1
  <1>2. CASE new # old
    <2>1. PICK c : Copy(c, p, keeps) /\ Grown(old, new, c)
      BY <1>2 DEF Spawned
    <2>2. c \in Packet /\ c.passes > 0
      BY <2>1 DEF Copy, Heir
    <2> QED
      BY <2>1, <2>2, QueuesGrow
  <1> QED
    BY <1>1, <1>2

LEMMA PassedLined ==
  ASSUME NEW old \in [Slots -> Seq(Packet)], NEW new, NEW p,
         NEW out \in Seq(Packet), new = old \/ Passed(old, new, p), AllLined(old, out),
         p.passes > 0 \/ After(old, out, p.packet_id)
  PROVE  /\ AllLined(new, out)
         /\ \A n \in Nat : After(old, out, n) /\ (p.passes > 0 \/ p.packet_id < n) => After(new, out, n)
  <1>1. CASE new = old
    BY <1>1
  <1>2. CASE Passed(old, new, p)
    <2>1. PICK q : /\ Heir(q, p, TRUE) /\ q.passes = p.passes
                   /\ Grown(old, new, q)
                   /\ \/ q.instance_type = "REPLICATION"
                      \/ \A s \in Slots : Len(new[s]) <= Len(old[s]) + 1
      BY <1>2 DEF Passed
    <2>2. q \in Packet /\ q.packet_id = p.packet_id
      BY <2>1 DEF Heir
    <2> QED
      BY <2>1, <2>2, QueuesGrow
  <1> QED
    BY <1>1, <1>2

-----------------------------------------------------------------------------
(* The steps.                                                              *)

LEMMA OrderInit == Init => OrderInv
  <1> SUFFICES ASSUME Init PROVE OrderInv
    OBVIOUS
  <1>1. /\ input_buffer.lo = <<>> /\ input_buffer.hi = <<>> /\ output_buffer = <<>>
        /\ \A s \in Slots : queue[s] = <<>>
    BY DEF Init, input!Empty, egress_buffers!Init, Slots
  <1>2. Len(<<>>) = 0 /\ 1 .. 0 = {}
    OBVIOUS
  <1> QED
    BY <1>1, <1>2 DEF OrderInv, ArrivalsInOrder, LinedAt, After, Earlier

LEMMA AfterMore ==
  ASSUME TypeOK, NEW n \in Nat, NEW m \in Nat, n <= m, After(queue, output_buffer, n)
  PROVE  After(queue, output_buffer, m)
  <1>1. ASSUME NEW seq \in Seq(Packet), Earlier(seq, n) PROVE Earlier(seq, m)
    <2> SUFFICES ASSUME NEW i \in 1 .. Len(seq), seq[i].passes = 0 PROVE seq[i].packet_id < m
      BY DEF Earlier
    <2>1. seq[i].packet_id \in Nat
      BY NumbersOf
    <2> QED
      BY <1>1, <2>1 DEF Earlier
  <1>2. output_buffer \in Seq(Packet) /\ \A s \in Slots : queue[s] \in Seq(Packet)
    BY DEF TypeOK
  <1> QED
    BY <1>1, <1>2 DEF After

LEMMA OrderReceive ==
  ASSUME TypeOK, OrderInv, NEW a \in Destinations, NEW tagged \in Tagged,
         ReceivePacket(a, tagged)
  PROVE  OrderInv'
  <1> DEFINE lo == input_buffer.lo
             p == Arrived(a)
             longer == Append(lo, p)
  <1>1. lo \in Seq(Packet) /\ Len(lo) \in Nat /\ m_pktID \in Nat
    BY LenProperties DEF TypeOK
  <1>2. p \in Packet /\ p.packet_id = m_pktID /\ p.passes = 0
    BY ArrivedPacket
  <1>3. /\ input_buffer'.hi = input_buffer.hi
        /\ input_buffer'.lo \in {lo, longer}
        /\ m_pktID' = m_pktID + 1
        /\ UNCHANGED <<queue, output_buffer>>
    <2>1. /\ input_buffer' = input!push_front(input_buffer, "NORMAL", p)
          /\ m_pktID' = m_pktID + 1
          /\ UNCHANGED <<queue, output_buffer>>
      BY DEF ReceivePacket
    <2>2. input_buffer \in Buffer
      BY DEF TypeOK, Buffer
    <2> QED
      BY <1>2, <2>1, <2>2, PushFrontPacket
  <1>4. /\ Len(longer) = Len(lo) + 1
        /\ \A i \in 1 .. Len(lo) : longer[i] = lo[i]
        /\ longer[Len(lo) + 1] = p
    BY <1>1, <1>2, AppendProperties
  <1>5. \A i \in 1 .. Len(lo) :
          /\ lo[i].passes = 0 /\ lo[i].packet_id < m_pktID /\ lo[i].packet_id \in Nat
          /\ After(queue, output_buffer, lo[i].packet_id)
    <2>1. \A i \in 1 .. Len(lo) : lo[i].packet_id \in Nat
      BY <1>1, NumbersOf
    <2> QED
      BY <2>1 DEF OrderInv, ArrivalsInOrder
  <1>6. \A i, j \in 1 .. Len(lo) : i < j => lo[i].packet_id < lo[j].packet_id
    BY DEF OrderInv, ArrivalsInOrder
  <1> HIDE DEF lo, p, longer
  <1>7. \A i \in 1 .. Len(longer) : i \in 1 .. Len(lo) \/ i = Len(lo) + 1
    BY <1>1, <1>4
  <1>8. \A i \in 1 .. Len(longer) :
          /\ longer[i].passes = 0 /\ longer[i].packet_id < m_pktID + 1
          /\ After(queue, output_buffer, longer[i].packet_id)
    <2>1. After(queue, output_buffer, m_pktID)
      BY DEF OrderInv
    <2> SUFFICES ASSUME NEW i \in 1 .. Len(longer)
                 PROVE  /\ longer[i].passes = 0 /\ longer[i].packet_id < m_pktID + 1
                        /\ After(queue, output_buffer, longer[i].packet_id)
      OBVIOUS
    <2>2. CASE i \in 1 .. Len(lo)
      BY <1>1, <1>4, <1>5, <2>2
    <2>3. CASE i = Len(lo) + 1
      BY <1>1, <1>2, <1>4, <2>1, <2>3
    <2> QED
      BY <1>7, <2>2, <2>3
  <1>9. \A i, j \in 1 .. Len(longer) : i < j => longer[i].packet_id < longer[j].packet_id
    <2> SUFFICES ASSUME NEW i \in 1 .. Len(longer), NEW j \in 1 .. Len(longer), i < j
                 PROVE  longer[i].packet_id < longer[j].packet_id
      OBVIOUS
    <2>1. i \in 1 .. Len(lo)
      BY <1>1, <1>4
    <2>2. CASE j \in 1 .. Len(lo)
      BY <1>4, <1>6, <2>1, <2>2
    <2>3. CASE j = Len(lo) + 1
      BY <1>2, <1>4, <1>5, <2>1, <2>3
    <2> QED
      BY <1>7, <2>2, <2>3
  <1>10. \A i \in 1 .. Len(lo) : lo[i].packet_id < m_pktID + 1
    BY <1>1, <1>5
  <1>11. ArrivalsInOrder(input_buffer.lo)'
    <2>1. CASE input_buffer'.lo = lo
      BY <1>3, <1>5, <1>6, <1>10, <2>1 DEF ArrivalsInOrder
    <2>2. CASE input_buffer'.lo = longer
      BY <1>3, <1>8, <1>9, <2>2 DEF ArrivalsInOrder
    <2> QED
      BY <1>3, <2>1, <2>2
  <1>12. \A i \in 1 .. Len(input_buffer'.lo) : After(queue', output_buffer', input_buffer'.lo[i].packet_id)
    BY <1>3, <1>5, <1>8
  <1>13. After(queue', output_buffer', m_pktID')
    <2>1. After(queue, output_buffer, m_pktID)
      BY DEF OrderInv
    <2>2. After(queue, output_buffer, m_pktID + 1)
      BY <1>1, <2>1, AfterMore
    <2> QED
      BY <1>3, <2>2
  <1>14. /\ \A i \in 1 .. Len(input_buffer'.hi) : input_buffer'.hi[i].passes > 0
         /\ \A s \in Slots : LinedAt(s, queue'[s], output_buffer')
    BY <1>3 DEF OrderInv
  <1> QED
    BY <1>11, <1>12, <1>13, <1>14 DEF OrderInv

\* The arrivals without the oldest one, which came before all the others.
LEMMA OldestArrival ==
  ASSUME NEW lo \in Seq(Packet), lo # <<>>, m_pktID \in Nat, ArrivalsInOrder(lo)
  PROVE  /\ ArrivalsInOrder(Tail(lo))
         /\ Head(lo) \in Packet /\ Head(lo).packet_id < m_pktID
         /\ 1 \in 1 .. Len(lo) /\ Head(lo) = lo[1]
         /\ \A i \in 1 .. Len(Tail(lo)) :
              /\ Head(lo).packet_id < Tail(lo)[i].packet_id
              /\ Tail(lo)[i].packet_id \in Nat
              /\ \E j \in 1 .. Len(lo) : Tail(lo)[i] = lo[j]
  <1>1. /\ Len(lo) \in Nat \ {0} /\ Head(lo) = lo[1] /\ Head(lo) \in Packet
        /\ Len(Tail(lo)) = Len(lo) - 1
        /\ \A i \in 1 .. Len(Tail(lo)) : Tail(lo)[i] = lo[i + 1]
    BY EmptySeq, HeadTailProperties, LenProperties
  <1>2. /\ 1 \in 1 .. Len(lo)
        /\ \A i \in 1 .. Len(Tail(lo)) : i + 1 \in 1 .. Len(lo) /\ 1 < i + 1
    BY <1>1
  <1>3. \A i, j \in 1 .. Len(Tail(lo)) : i < j => i + 1 < j + 1
    BY <1>1
  <1>4. ArrivalsInOrder(Tail(lo))
    BY <1>1, <1>2, <1>3 DEF ArrivalsInOrder
  <1>5. \A i \in 1 .. Len(lo) : lo[i].packet_id \in Nat
    BY NumbersOf
  <1>6. \A i \in 1 .. Len(Tail(lo)) :
          /\ Head(lo).packet_id < Tail(lo)[i].packet_id
          /\ Tail(lo)[i].packet_id \in Nat
          /\ \E j \in 1 .. Len(lo) : Tail(lo)[i] = lo[j]
    BY <1>1, <1>2, <1>5 DEF ArrivalsInOrder
  <1> QED
    BY <1>1, <1>2, <1>4, <1>6 DEF ArrivalsInOrder

\* Packets that are sent back are copies.
LEMMA ReturnedCopies ==
  ASSUME NEW old \in Buffer, NEW new, NEW p, NEW keeps, NEW type, type # "NORMAL",
         Returned(old, new, p, keeps, type),
         \A i \in 1 .. Len(old.hi) : old.hi[i].passes > 0
  PROVE  new.lo = old.lo /\ \A i \in 1 .. Len(new.hi) : new.hi[i].passes > 0
  <1>1. new.lo = old.lo /\ (new.hi = old.hi \/ \E c : Copy(c, p, keeps) /\ new.hi = Append(old.hi, c))
    BY ReturnedBuffer
  <1>2. CASE new.hi = old.hi
    BY <1>1, <1>2
  <1>3. CASE new.hi # old.hi
    <2>1. PICK c : Copy(c, p, keeps) /\ new.hi = Append(old.hi, c)
      BY <1>1, <1>3
    <2>2. c \in Packet /\ c.passes > 0
      BY <2>1 DEF Copy, Heir
    <2>3. old.hi \in Seq(Packet)
      BY DEF Buffer
    <2>4. /\ Len(old.hi) \in Nat /\ Len(new.hi) = Len(old.hi) + 1
          /\ \A i \in 1 .. Len(old.hi) : new.hi[i] = old.hi[i]
          /\ new.hi[Len(old.hi) + 1] = c
      BY <2>1, <2>2, <2>3, AppendProperties, LenProperties
    <2>5. \A i \in 1 .. Len(new.hi) : i \in 1 .. Len(old.hi) \/ i = Len(old.hi) + 1
      BY <2>4
    <2> QED
      BY <1>1, <2>2, <2>4, <2>5
  <1> QED
    BY <1>2, <1>3

LEMMA OrderIngress ==
  ASSUME TypeOK, OrderInv, NEW r \in IngressOutcomes, IngressEvent(r)
  PROVE  OrderInv'
  <1> DEFINE p == input!back(input_buffer)
             popped == input!pop_back(input_buffer)
             hi == input_buffer.hi
             lo == input_buffer.lo
  <1>1. /\ input_buffer \in Buffer /\ hi \in Seq(Packet) /\ lo \in Seq(Packet)
        /\ queue \in [Slots -> Seq(Packet)] /\ output_buffer \in Seq(Packet) /\ m_pktID \in Nat
    BY DEF TypeOK, Buffer
  <1>2. PICK queues :
          /\ ~input!IsEmpty(input_buffer) /\ p \in Packet
          /\ Returned(popped, input_buffer', p, IngressKeeps(r), "RESUBMIT")
          /\ Spawned(queue, queues, p, IngressKeeps(r))
          /\ queue' = queues \/ Passed(queues, queue', p)
          /\ output_buffer' = output_buffer /\ m_pktID' = m_pktID
    BY IngressTakesPacket
  <1>3. /\ popped \in Buffer
        /\ \/ /\ hi # <<>> /\ p = Head(hi) /\ popped.hi = Tail(hi) /\ popped.lo = lo
           \/ /\ lo # <<>> /\ p = Head(lo) /\ popped.lo = Tail(lo) /\ popped.hi = hi
    BY <1>1, <1>2, PopBackPacket
  <1>4. /\ ArrivalsInOrder(lo) /\ \A i \in 1 .. Len(hi) : hi[i].passes > 0
        /\ AllLined(queue, output_buffer)
        /\ After(queue, output_buffer, m_pktID)
        /\ \A i \in 1 .. Len(lo) : After(queue, output_buffer, lo[i].packet_id)
    BY DEF OrderInv, AllLined
  <1> HIDE DEF p, popped, hi, lo
  <1>5. /\ AllLined(queues, output_buffer)
        /\ \A n \in Nat : After(queue, output_buffer, n) => After(queues, output_buffer, n)
    BY <1>1, <1>2, <1>4, SpawnedLined
  <1>6. queues \in [Slots -> Seq(Packet)]
    BY <1>2 DEF Spawned
  <1>7. p.packet_id \in Nat /\ p.passes \in Nat
    BY <1>2, PacketNumbers
  \* A packet that was sent back once more.
  <1>8. CASE hi # <<>> /\ p = Head(hi) /\ popped.hi = Tail(hi) /\ popped.lo = lo
    <2>1. /\ Len(hi) \in Nat \ {0} /\ p = hi[1] /\ Len(Tail(hi)) = Len(hi) - 1
          /\ \A i \in 1 .. Len(Tail(hi)) : Tail(hi)[i] = hi[i + 1]
      BY <1>1, <1>8, EmptySeq, HeadTailProperties, LenProperties
    <2>2. 1 \in 1 .. Len(hi) /\ \A i \in 1 .. Len(Tail(hi)) : i + 1 \in 1 .. Len(hi)
      BY <2>1
    <2>3. p.passes > 0 /\ \A i \in 1 .. Len(popped.hi) : popped.hi[i].passes > 0
      BY <1>4, <1>8, <2>1, <2>2
    <2>4. input_buffer'.lo = lo /\ \A i \in 1 .. Len(input_buffer'.hi) : input_buffer'.hi[i].passes > 0
      BY <1>2, <1>3, <1>8, <2>3, ReturnedCopies
    <2>5. /\ AllLined(queue', output_buffer)
          /\ \A n \in Nat : After(queues, output_buffer, n) => After(queue', output_buffer, n)
      BY <1>1, <1>2, <1>5, <1>6, <2>3, PassedLined
    <2>6. \A i \in 1 .. Len(lo) : lo[i].packet_id \in Nat
      BY <1>1, NumbersOf
    <2>7. /\ After(queue', output_buffer, m_pktID)
          /\ \A i \in 1 .. Len(lo) : After(queue', output_buffer, lo[i].packet_id)
      BY <1>1, <1>4, <1>5, <2>5, <2>6
    <2>8. ArrivalsInOrder(input_buffer.lo)'
      BY <1>2, <1>4, <2>4 DEF ArrivalsInOrder
    <2> QED
      BY <1>2, <2>4, <2>5, <2>7, <2>8 DEF OrderInv, AllLined
  \* The oldest arrival.
  <1>9. CASE lo # <<>> /\ p = Head(lo) /\ popped.lo = Tail(lo) /\ popped.hi = hi
    <2>1. /\ ArrivalsInOrder(Tail(lo)) /\ p.packet_id < m_pktID
          /\ 1 \in 1 .. Len(lo) /\ p = lo[1]
          /\ \A i \in 1 .. Len(Tail(lo)) :
               /\ p.packet_id < Tail(lo)[i].packet_id /\ Tail(lo)[i].packet_id \in Nat
               /\ \E j \in 1 .. Len(lo) : Tail(lo)[i] = lo[j]
      BY <1>1, <1>4, <1>9, OldestArrival
    <2>2. input_buffer'.lo = Tail(lo) /\ \A i \in 1 .. Len(input_buffer'.hi) : input_buffer'.hi[i].passes > 0
      BY <1>2, <1>3, <1>4, <1>9, ReturnedCopies
    <2>3. After(queues, output_buffer, p.packet_id)
      BY <1>4, <1>5, <1>7, <2>1
    <2>4. /\ AllLined(queue', output_buffer)
          /\ \A n \in Nat : After(queues, output_buffer, n) /\ p.packet_id < n
                            => After(queue', output_buffer, n)
      BY <1>1, <1>2, <1>5, <1>6, <2>3, PassedLined
    <2>5. After(queue', output_buffer, m_pktID)
      BY <1>1, <1>4, <1>5, <2>1, <2>4
    <2>6. \A i \in 1 .. Len(Tail(lo)) : After(queue', output_buffer, Tail(lo)[i].packet_id)
      BY <1>4, <1>5, <2>1, <2>4
    <2>7. ArrivalsInOrder(input_buffer.lo)'
      BY <1>2, <2>1, <2>2 DEF ArrivalsInOrder
    <2> QED
      BY <1>2, <2>2, <2>4, <2>5, <2>6, <2>7 DEF OrderInv, AllLined
  <1> QED
    BY <1>3, <1>8, <1>9

LEMMA OrderEgress ==
  ASSUME TypeOK, OrderInv, NEW s \in Slots, NEW r \in EgressOutcomes,
         EgressDrop(s, r) \/ Recirculate(s, r) \/ Output(s, r)
  PROVE  OrderInv'
  <1> DEFINE p == Head(queue[s])
             taken == [queue EXCEPT ![s] = Tail(@)]
             lo == input_buffer.lo
  <1>1. /\ input_buffer \in Buffer /\ lo \in Seq(Packet)
        /\ queue \in [Slots -> Seq(Packet)] /\ output_buffer \in Seq(Packet) /\ m_pktID \in Nat
    BY DEF TypeOK, Buffer
  <1>2. /\ queue[s] # <<>> /\ p \in Packet
        /\ Spawned(taken, queue', p, EgressKeeps(r))
        /\ Returned(input_buffer, input_buffer', p, EgressKeeps(r), "RECIRCULATE")
        /\ output_buffer' \in {output_buffer, Append(output_buffer, p)}
        /\ m_pktID' = m_pktID
    BY EgressTakesPacket
  <1>3. /\ ArrivalsInOrder(lo)
        /\ \A i \in 1 .. Len(input_buffer.hi) : input_buffer.hi[i].passes > 0
        /\ AllLined(queue, output_buffer)
        /\ After(queue, output_buffer, m_pktID)
        /\ \A i \in 1 .. Len(lo) : After(queue, output_buffer, lo[i].packet_id)
    BY DEF OrderInv, AllLined
  <1>4. queue[s] \in Seq(Packet) /\ Tail(queue[s]) \in Seq(Packet)
    BY <1>1, <1>2, HeadTailProperties
  <1>5. /\ taken \in [Slots -> Seq(Packet)] /\ taken[s] = Tail(queue[s])
        /\ \A t \in Slots \ {s} : taken[t] = queue[t]
    BY <1>1, <1>4
  <1>6. LinedAt(s, queue[s], output_buffer)
    BY <1>3 DEF AllLined
  <1>7. Placed(p, s)
    <2>1. 1 \in 1 .. Len(queue[s]) /\ p = queue[s][1]
      BY <1>2, <1>4, EmptySeq, LenProperties
    <2> QED
      BY <1>6, <2>1 DEF LinedAt
  <1>8. \A t \in Slots \ {s} : ~Placed(p, t)
    BY <1>7 DEF Placed
  <1>9. AllLined(taken, output_buffer')
    <2>1. LinedAt(s, Tail(queue[s]), output_buffer) /\ LinedAt(s, Tail(queue[s]), Append(output_buffer, p))
      BY <1>1, <1>2, <1>4, <1>6, LinedTail, LinedOutput
    <2>2. ASSUME NEW t \in Slots \ {s}
          PROVE  LinedAt(t, queue[t], output_buffer) /\ LinedAt(t, queue[t], Append(output_buffer, p))
      <3>1. LinedAt(t, queue[t], output_buffer) /\ queue[t] \in Seq(Packet)
        BY <1>1, <1>3 DEF AllLined
      <3> QED
        BY <1>1, <1>2, <1>8, <3>1, LinedBeside
    <2> HIDE DEF p, taken
    <2>3. ASSUME NEW t \in Slots PROVE LinedAt(t, taken[t], output_buffer')
      BY <1>2, <1>5, <2>1, <2>2
    <2> QED
      BY <2>3 DEF AllLined
  <1>10. output_buffer' \in Seq(Packet)
    <2>1. Append(output_buffer, p) \in Seq(Packet)
      BY <1>1, <1>2, AppendProperties
    <2> QED
      BY <1>1, <1>2, <2>1
  <1>11. ASSUME NEW n \in Nat, After(queue, output_buffer, n)
         PROVE  After(taken, output_buffer', n)
    <2>1. Earlier(queue[s], n) /\ Earlier(output_buffer, n) /\ \A t \in Slots : Earlier(queue[t], n)
      BY <1>11 DEF After
    <2>2. Earlier(Tail(queue[s]), n)
      BY <1>2, <1>4, <2>1, EarlierTail
    <2>3. p.passes = 0 => p.packet_id < n
      <3>1. 1 \in 1 .. Len(queue[s]) /\ p = queue[s][1]
        BY <1>2, <1>4, EmptySeq, LenProperties
      <3> QED
        BY <2>1, <3>1 DEF Earlier
    <2>4. Earlier(Append(output_buffer, p), n)
      BY <1>1, <1>2, <2>1, <2>3, EarlierAppend
    <2> HIDE DEF p, taken
    <2>5. Earlier(output_buffer', n)
      BY <1>2, <2>1, <2>4
    <2>6. \A t \in Slots : Earlier(taken[t], n)
      BY <1>5, <2>1, <2>2
    <2> QED
      BY <2>5, <2>6 DEF After
  <1> HIDE DEF p, taken, lo
  <1>12. /\ AllLined(queue', output_buffer')
         /\ \A n \in Nat : After(taken, output_buffer', n) => After(queue', output_buffer', n)
    BY <1>2, <1>5, <1>9, <1>10, SpawnedLined
  <1>13. input_buffer'.lo = lo /\ \A i \in 1 .. Len(input_buffer'.hi) : input_buffer'.hi[i].passes > 0
    BY <1>1, <1>2, <1>3, ReturnedCopies DEF lo
  <1>14. \A i \in 1 .. Len(lo) : lo[i].packet_id \in Nat
    BY <1>1, NumbersOf
  <1>15. /\ After(queue', output_buffer', m_pktID)
         /\ \A i \in 1 .. Len(lo) : After(queue', output_buffer', lo[i].packet_id)
    BY <1>1, <1>3, <1>11, <1>12, <1>14
  <1>16. ArrivalsInOrder(input_buffer.lo)'
    BY <1>2, <1>3, <1>13 DEF ArrivalsInOrder
  <1> QED
    BY <1>2, <1>12, <1>13, <1>15, <1>16 DEF OrderInv, AllLined

LEMMA OrderTransmit ==
  ASSUME TypeOK, OrderInv, Transmit
  PROVE  OrderInv'
  <1>1. output_buffer \in Seq(Packet) /\ \A s \in Slots : queue[s] \in Seq(Packet)
    BY DEF TypeOK
  <1>2. /\ output_buffer # <<>> /\ output_buffer' = Tail(output_buffer)
        /\ UNCHANGED <<input_buffer, queue, m_pktID>>
    BY DEF Transmit
  <1>3. \A s \in Slots : LinedAt(s, queue[s], output_buffer')
    BY <1>1, <1>2, LinedTransmit DEF OrderInv
  <1>4. \A n : After(queue, output_buffer, n) => After(queue, output_buffer', n)
    BY <1>1, <1>2, EarlierTail DEF After
  <1> QED
    BY <1>2, <1>3, <1>4 DEF OrderInv, ArrivalsInOrder

LEMMA OrderNext == TypeOK /\ OrderInv /\ [Next]_vars => OrderInv'
  <1> SUFFICES ASSUME TypeOK, OrderInv, [Next]_vars PROVE OrderInv'
    OBVIOUS
  <1>1. CASE PacketsStay
    BY <1>1 DEF PacketsStay, OrderInv, ArrivalsInOrder
  <1> QED
    BY <1>1, OrderReceive, OrderIngress, OrderEgress, OrderTransmit, EveryStep

-----------------------------------------------------------------------------
(* From the parts of the way to the whole of it.                           *)

\* Place i of three sequences one after the other.
LEMMA ThreeParts ==
  ASSUME NEW S, NEW a \in Seq(S), NEW b \in Seq(S), NEW c \in Seq(S),
         NEW i \in DOMAIN (a \o b \o c)
  PROVE  /\ i \in Nat
         /\ \/ i \in 1 .. Len(a) /\ (a \o b \o c)[i] = a[i]
            \/ i - Len(a) \in 1 .. Len(b) /\ (a \o b \o c)[i] = b[i - Len(a)]
            \/ i - Len(a) - Len(b) \in 1 .. Len(c) /\ (a \o b \o c)[i] = c[i - Len(a) - Len(b)]
  <1> DEFINE ab == a \o b
             abc == ab \o c
  <1>1. Len(a) \in Nat /\ Len(b) \in Nat /\ Len(c) \in Nat
    BY LenProperties
  <1>2. /\ ab \in Seq(S) /\ Len(ab) = Len(a) + Len(b)
        /\ \A k \in 1 .. Len(a) + Len(b) : ab[k] = IF k <= Len(a) THEN a[k] ELSE b[k - Len(a)]
    BY ConcatProperties
  <1> HIDE DEF ab
  <1>3. /\ abc \in Seq(S) /\ Len(abc) = Len(ab) + Len(c)
        /\ \A k \in 1 .. Len(ab) + Len(c) : abc[k] = IF k <= Len(ab) THEN ab[k] ELSE c[k - Len(ab)]
    <2>1. ab \in Seq(S)
      BY <1>2
    <2> QED
      BY <2>1, ConcatProperties
  <1>4. DOMAIN abc = 1 .. Len(abc)
    BY <1>3, LenProperties
  <1> HIDE DEF abc
  <1>5. i \in 1 .. Len(a) + Len(b) + Len(c)
    BY <1>2, <1>3, <1>4 DEF ab, abc
  <1>6. CASE i <= Len(a)
    <2>1. i \in 1 .. Len(a) /\ abc[i] = a[i]
      BY <1>1, <1>2, <1>3, <1>5, <1>6
    <2> QED
      BY <1>5, <2>1 DEF ab, abc
  <1>7. CASE Len(a) < i /\ i <= Len(a) + Len(b)
    <2>1. i - Len(a) \in 1 .. Len(b) /\ abc[i] = b[i - Len(a)]
      BY <1>1, <1>2, <1>3, <1>5, <1>7
    <2> QED
      BY <1>5, <2>1 DEF ab, abc
  <1>8. CASE Len(a) + Len(b) < i
    <2>1. /\ i - Len(a) - Len(b) \in 1 .. Len(c)
          /\ abc[i] = c[i - Len(ab)] /\ i - Len(ab) = i - Len(a) - Len(b)
      BY <1>1, <1>2, <1>3, <1>5, <1>8
    <2> QED
      BY <1>5, <2>1 DEF ab, abc
  <1> QED
    BY <1>1, <1>5, <1>6, <1>7, <1>8

LEMMA OrderedWay == TypeOK /\ OrderInv => InOrder
  <1> SUFFICES ASSUME TypeOK, OrderInv, NEW s \in Slots,
                      NEW i \in DOMAIN Way(s), NEW j \in DOMAIN Way(s),
                      i < j, FirstPass(s, i), FirstPass(s, j)
               PROVE  Precedes(Way(s)[i], Way(s)[j])
    BY DEF InOrder
  <1> DEFINE out == output_buffer
             q == queue[s]
             lo == input_buffer.lo
             p == Way(s)[i]
             x == Way(s)[j]
  <1>1. out \in Seq(Packet) /\ q \in Seq(Packet) /\ lo \in Seq(Packet)
    BY DEF TypeOK
  <1>2. Len(out) \in Nat /\ Len(q) \in Nat /\ Len(lo) \in Nat
    BY <1>1, LenProperties
  <1>0. Way(s) = out \o q \o lo
    BY DEF Way
  <1> HIDE DEF out, q, lo
  <1>3. /\ i \in Nat
        /\ \/ i \in 1 .. Len(out) /\ p = out[i]
           \/ i - Len(out) \in 1 .. Len(q) /\ p = q[i - Len(out)]
           \/ i - Len(out) - Len(q) \in 1 .. Len(lo) /\ p = lo[i - Len(out) - Len(q)]
    BY <1>0, <1>1, ThreeParts
  <1>4. /\ j \in Nat
        /\ \/ j \in 1 .. Len(out) /\ x = out[j]
           \/ j - Len(out) \in 1 .. Len(q) /\ x = q[j - Len(out)]
           \/ j - Len(out) - Len(q) \in 1 .. Len(lo) /\ x = lo[j - Len(out) - Len(q)]
    BY <1>0, <1>1, ThreeParts
  <1>5. p.passes = 0 /\ x.passes = 0 /\ (i <= Len(out) => Placed(p, s)) /\ (j <= Len(out) => Placed(x, s))
    BY DEF FirstPass, Placed, out
  <1>6. /\ ArrivalsInOrder(lo) /\ LinedAt(s, q, out)
        /\ \A k \in 1 .. Len(lo) : Earlier(out, lo[k].packet_id) /\ Earlier(q, lo[k].packet_id)
    BY DEF OrderInv, After, out, q, lo
  <1> HIDE DEF p, x
  <1>7. CASE i \in 1 .. Len(out) /\ p = out[i]
    <2>1. CASE j \in 1 .. Len(out) /\ x = out[j]
      BY <1>2, <1>5, <1>6, <1>7, <2>1 DEF LinedAt, p, x
    <2>2. CASE j - Len(out) \in 1 .. Len(q) /\ x = q[j - Len(out)]
      <3>1. Placed(p, s)
        BY <1>2, <1>5, <1>7
      <3>2. Precedes(p, x)
        BY <1>5, <1>6, <1>7, <2>2, <3>1 DEF LinedAt
      <3> QED
        BY <3>2 DEF p, x
    <2>3. CASE j - Len(out) - Len(q) \in 1 .. Len(lo) /\ x = lo[j - Len(out) - Len(q)]
      <3>1. Precedes(p, x)
        BY <1>5, <1>6, <1>7, <2>3 DEF Earlier, Precedes
      <3> QED
        BY <3>1 DEF p, x
    <2> QED
      BY <1>4, <2>1, <2>2, <2>3
  <1>8. CASE i - Len(out) \in 1 .. Len(q) /\ p = q[i - Len(out)]
    <2>1. ~(j \in 1 .. Len(out))
      BY <1>2, <1>3, <1>4, <1>8
    <2>2. CASE j - Len(out) \in 1 .. Len(q) /\ x = q[j - Len(out)]
      <3>1. i - Len(out) < j - Len(out)
        BY <1>2, <1>3, <1>4
      <3>2. Precedes(p, x)
        BY <1>5, <1>6, <1>8, <2>2, <3>1 DEF LinedAt
      <3> QED
        BY <3>2 DEF p, x
    <2>3. CASE j - Len(out) - Len(q) \in 1 .. Len(lo) /\ x = lo[j - Len(out) - Len(q)]
      <3>1. Precedes(p, x)
        BY <1>5, <1>6, <1>8, <2>3 DEF Earlier, Precedes
      <3> QED
        BY <3>1 DEF p, x
    <2> QED
      BY <1>4, <2>1, <2>2, <2>3
  <1>9. CASE i - Len(out) - Len(q) \in 1 .. Len(lo) /\ p = lo[i - Len(out) - Len(q)]
    <2>1. /\ j - Len(out) - Len(q) \in 1 .. Len(lo) /\ x = lo[j - Len(out) - Len(q)]
          /\ i - Len(out) - Len(q) < j - Len(out) - Len(q)
      BY <1>2, <1>3, <1>4, <1>9
    <2>2. Precedes(p, x)
      BY <1>6, <1>9, <2>1 DEF ArrivalsInOrder, Precedes
    <2> QED
      BY <2>2 DEF p, x
  <1> QED
    BY <1>3, <1>7, <1>8, <1>9

\* InOrder, whatever is cloned, replicated, resubmitted and recirculated.
THEOREM PacketsStayInOrder == Spec => []InOrder
  <1>1. Init => TypeOK /\ OrderInv
    BY TypeInit, OrderInit
  <1>2. TypeOK /\ OrderInv /\ [Next]_vars => (TypeOK /\ OrderInv)'
    BY TypeNext, OrderNext
  <1> QED
    BY <1>1, <1>2, OrderedWay, PTL DEF Spec
=============================================================================
