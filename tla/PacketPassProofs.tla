-------------------------- MODULE PacketPassProofs --------------------------
(***************************************************************************)
(* What a packet asks of the switch is answered once, for every P4         *)
(* program, every mirroring session and every content of stale registers.  *)
(***************************************************************************)
EXTENDS PacketPass, FiniteSetTheorems, TLAPS

-----------------------------------------------------------------------------
\* The packed registers.

\* A register file, whatever its words hold.
IsRegisters(registers) == DOMAIN registers = {1, 2}

\* A value is the 16 bits from its shift on of one of the two registers.
LEMMA FieldShape ==
  ASSUME NEW field \in Fields
  PROVE  /\ field.idx \in {1, 2}
         /\ field.shift \in Int
         /\ field.mask = field.shift .. (field.shift + 15)
  <1>1. CASE field = CLONE_MIRROR_SESSION_ID
    BY <1>1, SMT DEF CLONE_MIRROR_SESSION_ID
  <1>2. CASE field = CLONE_FIELD_LIST
    BY <1>2, SMT DEF CLONE_FIELD_LIST
  <1>3. CASE field = LF_FIELD_LIST
    BY <1>3, SMT DEF LF_FIELD_LIST
  <1>4. CASE field = RESUBMIT_FLAG
    BY <1>4, SMT DEF RESUBMIT_FLAG
  <1>5. CASE field = RECIRCULATE_FLAG
    BY <1>5, SMT DEF RECIRCULATE_FLAG
  <1> QED
    BY <1>1, <1>2, <1>3, <1>4, <1>5 DEF Fields

\* A value that fits is read back as it was written.
LEMMA GetSetSame ==
  ASSUME NEW field \in Fields, NEW registers, IsRegisters(registers), NEW value \in Short
  PROVE  get(field, set(field, registers, value)) = value
  <1>1. \A b \in value : b \in Int /\ 0 <= b /\ b <= 15
    BY DEF Short
  <1>2. /\ field.idx \in {1, 2} /\ field.shift \in Int
        /\ field.mask = field.shift .. (field.shift + 15)
    BY FieldShape
  <1> DEFINE shifted == {b + field.shift : b \in value}
  <1>3. set(field, registers, value)[field.idx] = (registers[field.idx] \ field.mask) \cup shifted
    BY <1>2 DEF set, IsRegisters
  <1>4. shifted \subseteq field.mask
    BY <1>1, <1>2
  <1>5. set(field, registers, value)[field.idx] \cap field.mask = shifted
    BY <1>3, <1>4
  <1>6. {c - field.shift : c \in shifted} = value
    <2>1. \A b \in value : b + field.shift - field.shift = b
      BY <1>1, <1>2
    <2>2. ASSUME NEW c \in shifted PROVE c - field.shift \in value
      <3>1. PICK b \in value : c = b + field.shift
        OBVIOUS
      <3>2. c - field.shift = b
        BY <1>1, <1>2, <3>1
      <3> QED
        BY <3>2
    <2>3. ASSUME NEW b \in value PROVE \E c \in shifted : b = c - field.shift
      <3>1. b + field.shift \in shifted
        OBVIOUS
      <3>2. b = (b + field.shift) - field.shift
        BY <1>1, <1>2
      <3> HIDE DEF shifted
      <3> QED
        BY <3>1, <3>2
    <2> HIDE DEF shifted
    <2> QED
      BY <2>2, <2>3
  <1> HIDE DEF shifted
  <1> QED
    BY <1>5, <1>6 DEF get

\* Two values share no bit of a register.
LEMMA FieldsApart ==
  ASSUME NEW f \in Fields, NEW g \in Fields, f # g
  PROVE  f.idx # g.idx \/ f.mask \cap g.mask = {}
  BY DEF Fields, CLONE_MIRROR_SESSION_ID, CLONE_FIELD_LIST, LF_FIELD_LIST, RESUBMIT_FLAG, RECIRCULATE_FLAG

\* Writing one value leaves every other one as it is.
LEMMA GetSetOther ==
  ASSUME NEW f \in Fields, NEW g \in Fields, f # g,
         NEW registers, IsRegisters(registers), NEW value \in Short
  PROVE  get(g, set(f, registers, value)) = get(g, registers)
  <1>1. /\ f.idx \in {1, 2} /\ g.idx \in {1, 2}
        /\ f.shift \in Int /\ f.mask = f.shift .. (f.shift + 15)
    BY FieldShape
  <1> DEFINE shifted == {b + f.shift : b \in value}
  <1>2. shifted \subseteq f.mask
    <2>1. \A b \in value : b \in Int /\ 0 <= b /\ b <= 15
      BY DEF Short
    <2> QED
      BY <1>1, <2>1
  <1>3. set(f, registers, value) = [registers EXCEPT ![f.idx] = (@ \ f.mask) \cup shifted]
    BY DEF set
  <1> HIDE DEF shifted
  <1>4. set(f, registers, value)[g.idx] \cap g.mask = registers[g.idx] \cap g.mask
    <2>1. CASE f.idx # g.idx
      BY <1>1, <1>3, <2>1 DEF IsRegisters
    <2>2. CASE f.idx = g.idx
      <3>1. f.mask \cap g.mask = {}
        BY <2>2, FieldsApart
      <3>2. set(f, registers, value)[g.idx] = (registers[g.idx] \ f.mask) \cup shifted
        BY <1>1, <1>3, <2>2 DEF IsRegisters
      <3> QED
        BY <1>2, <3>1, <3>2
    <2> QED
      BY <2>1, <2>2
  <1> QED
    BY <1>4 DEF get

\* The registers stay what they are.
LEMMA SetIsRegisters ==
  ASSUME NEW registers, IsRegisters(registers), NEW field, NEW value
  PROVE  IsRegisters(set(field, registers, value))
  BY DEF IsRegisters, set

\* Cleared registers ask for nothing.
LEMMA ClearedAsksNothing ==
  ASSUME NEW registers, IsRegisters(registers)
  PROVE  /\ IsRegisters(clear_all(registers))
         /\ \A field \in Fields : get(field, clear_all(registers)) = {}
  <1>1. clear_all(registers)[1] = {} /\ clear_all(registers)[2] = {}
    BY DEF clear_all, IsRegisters
  <1>2. \A field \in Fields : field.idx \in {1, 2}
    BY FieldShape
  <1>3. \A field \in Fields : clear_all(registers)[field.idx] \cap field.mask = {}
    BY <1>1, <1>2
  <1>4. \A field \in Fields : get(field, clear_all(registers)) = {}
    BY <1>3 DEF get
  <1>5. IsRegisters(clear_all(registers))
    BY DEF clear_all, IsRegisters
  <1> QED
    BY <1>4, <1>5

\* Answering a clone request leaves the other requests.
LEMMA AnsweredRegisters ==
  ASSUME NEW registers, IsRegisters(registers)
  PROVE  /\ IsRegisters(Answered(registers))
         /\ get(CLONE_MIRROR_SESSION_ID, Answered(registers)) = {}
         /\ get(CLONE_FIELD_LIST, Answered(registers)) = {}
         /\ get(RESUBMIT_FLAG, Answered(registers)) = get(RESUBMIT_FLAG, registers)
  <1> DEFINE once == set(CLONE_MIRROR_SESSION_ID, registers, {})
  <1>1. {} \in Short
    BY DEF Short
  <1>2. /\ CLONE_MIRROR_SESSION_ID \in Fields /\ CLONE_FIELD_LIST \in Fields /\ RESUBMIT_FLAG \in Fields
        /\ CLONE_MIRROR_SESSION_ID # CLONE_FIELD_LIST
        /\ CLONE_MIRROR_SESSION_ID # RESUBMIT_FLAG
        /\ CLONE_FIELD_LIST # RESUBMIT_FLAG
    BY DEF Fields, CLONE_MIRROR_SESSION_ID, CLONE_FIELD_LIST, RESUBMIT_FLAG
  <1>3. IsRegisters(once)
    BY SetIsRegisters
  <1>4. get(CLONE_MIRROR_SESSION_ID, once) = {} /\ get(RESUBMIT_FLAG, once) = get(RESUBMIT_FLAG, registers)
    BY <1>1, <1>2, GetSetSame, GetSetOther
  <1>5. Answered(registers) = set(CLONE_FIELD_LIST, once, {})
    BY DEF Answered
  <1> HIDE DEF once
  <1> QED
    BY <1>1, <1>2, <1>3, <1>4, <1>5, SetIsRegisters, GetSetSame, GetSetOther

-----------------------------------------------------------------------------
\* The inductive invariant: the packets have registers, those in the input
\* buffer are cleared, and those in the egress buffers are answered.
HasRegisters(p) ==
  /\ {"registers", "exit"} \subseteq DOMAIN p
  /\ IsRegisters(p.registers)

IsAnswered(p) ==
  /\ get(CLONE_MIRROR_SESSION_ID, p.registers) = {}
  /\ get(CLONE_FIELD_LIST, p.registers) = {}
  /\ get(RESUBMIT_FLAG, p.registers) = {}
  /\ ~p.exit

PassInv ==
  /\ \A p \in waiting : HasRegisters(p) /\ AsksNothing(p.registers)
  /\ \A p \in queued : HasRegisters(p) /\ IsAnswered(p)
  /\ HasRegisters(packet)
  /\ primitives \in Nat

\* A packet in front of the parser asks for nothing.
LEMMA FreshAsksNothing ==
  ASSUME NEW headers, NEW registers, IsRegisters(registers), NEW length
  PROVE  LET p == Fresh(headers, registers, length)
         IN  /\ HasRegisters(p) /\ AsksNothing(p.registers) /\ IsAnswered(p)
             /\ HasRegisters(parse(p)) /\ AsksNothing(parse(p).registers) /\ IsAnswered(parse(p))
  <1> DEFINE p == Fresh(headers, registers, length)
  <1>1. p.registers = clear_all(registers) /\ p.exit = FALSE /\ {"registers", "exit"} \subseteq DOMAIN p
    BY DEF Fresh
  <1>2. /\ parse(p).registers = p.registers /\ parse(p).exit = p.exit
        /\ {"registers", "exit"} \subseteq DOMAIN parse(p)
    BY DEF parse, Fresh
  <1> HIDE DEF p
  <1>3. CLONE_MIRROR_SESSION_ID \in Fields /\ CLONE_FIELD_LIST \in Fields /\ RESUBMIT_FLAG \in Fields
    BY DEF Fields
  <1>4. HasRegisters(p) /\ AsksNothing(p.registers) /\ IsAnswered(p)
    BY <1>1, <1>3, ClearedAsksNothing DEF HasRegisters, AsksNothing, IsAnswered
  <1>5. HasRegisters(parse(p)) /\ AsksNothing(parse(p).registers) /\ IsAnswered(parse(p))
    BY <1>2, <1>4 DEF HasRegisters, IsAnswered
  <1> QED
    BY <1>4, <1>5 DEF p

\* So does a packet whose registers are cleared, once its exit mark is gone.
LEMMA MulticastIsAnswered ==
  ASSUME NEW p, HasRegisters(p), ~p.exit, NEW q \in multicast(p)
  PROVE  HasRegisters(q) /\ IsAnswered(q)
  <1>1. q = [p EXCEPT !.registers = clear_all(p.registers)]
    BY DEF multicast
  <1>2. q.registers = clear_all(p.registers) /\ q.exit = p.exit /\ DOMAIN q = DOMAIN p
    BY <1>1 DEF HasRegisters
  <1>3. CLONE_MIRROR_SESSION_ID \in Fields /\ CLONE_FIELD_LIST \in Fields /\ RESUBMIT_FLAG \in Fields
    BY DEF Fields
  <1> QED
    BY <1>2, <1>3, ClearedAsksNothing DEF HasRegisters, IsAnswered

\* What a clone request makes is answered like the prepared copy.
LEMMA ClonesAreAnswered ==
  ASSUME NEW p, NEW copy, HasRegisters(copy), IsAnswered(copy), NEW q \in Clones(p, copy)
  PROVE  HasRegisters(q) /\ IsAnswered(q)
  <1>1. q \in multicast(copy) \/ q = copy
    BY DEF Clones
  <1> QED
    BY <1>1, MulticastIsAnswered DEF IsAnswered

LEMMA IngressClonesAreAnswered ==
  ASSUME NEW p, HasRegisters(p), NEW q \in ClonesAtIngress(p)
  PROVE  HasRegisters(q) /\ IsAnswered(q)
  BY FreshAsksNothing, ClonesAreAnswered DEF ClonesAtIngress, HasRegisters

LEMMA EgressClonesAreAnswered ==
  ASSUME NEW p, HasRegisters(p), NEW q \in ClonesAtEgress(p)
  PROVE  HasRegisters(q) /\ IsAnswered(q)
  <1> DEFINE copy == [p EXCEPT !.registers = clear_all(@), !.egress_spec = "zero", !.mcast_grp = 0, !.exit = FALSE]
  <1>1. copy.registers = clear_all(p.registers) /\ copy.exit = FALSE /\ DOMAIN copy = DOMAIN p
    BY DEF HasRegisters
  <1>2. q \in Clones(p, copy)
    BY DEF ClonesAtEgress
  <1> HIDE DEF copy
  <1>3. CLONE_MIRROR_SESSION_ID \in Fields /\ CLONE_FIELD_LIST \in Fields /\ RESUBMIT_FLAG \in Fields
    BY DEF Fields
  <1>4. HasRegisters(copy) /\ IsAnswered(copy)
    BY <1>1, <1>3, ClearedAsksNothing DEF HasRegisters, IsAnswered
  <1> QED
    BY <1>2, <1>4, ClonesAreAnswered

\* The packet that leaves ingress without being resubmitted.
LEMMA LeavesIngressAnswered ==
  ASSUME NEW p, HasRegisters(p), get(RESUBMIT_FLAG, p.registers) = {}
  PROVE  LET q == [p EXCEPT !.registers = Answered(@), !.exit = FALSE]
         IN  HasRegisters(q) /\ IsAnswered(q)
  <1> DEFINE q == [p EXCEPT !.registers = Answered(@), !.exit = FALSE]
  <1>1. q.registers = Answered(p.registers) /\ q.exit = FALSE /\ DOMAIN q = DOMAIN p
    BY DEF HasRegisters
  <1> HIDE DEF q
  <1>2. HasRegisters(q) /\ IsAnswered(q)
    BY <1>1, AnsweredRegisters DEF HasRegisters, IsAnswered
  <1> QED
    BY <1>2 DEF q

\* The primitives keep the packet a packet.
LEMMA PrimitivePass ==
  ASSUME PassInv, NEW p, Primitive(p), HasRegisters(packet) => HasRegisters(p)
  PROVE  PassInv'
  BY DEF Primitive, PassInv

LEMMA ProgramPass == PassInv /\ Program => PassInv'
  <1> SUFFICES ASSUME PassInv, Program PROVE PassInv'
    OBVIOUS
  <1>0. HasRegisters(packet)
    BY DEF PassInv
  <1>1. ASSUME NEW session \in SessionIds, NEW list \in Ids, clone_pkt(session, list) PROVE PassInv'
    <2> DEFINE asked == set(CLONE_FIELD_LIST,
                            set(CLONE_MIRROR_SESSION_ID, packet.registers, session \cup MIRROR_SESSION_ID_VALID_MASK),
                            list)
    <2>1. IsRegisters(asked)
      BY <1>0, SetIsRegisters DEF HasRegisters
    <2>2. Primitive([packet EXCEPT !.registers = asked])
      BY <1>1 DEF clone_pkt
    <2> HIDE DEF asked
    <2>3. HasRegisters([packet EXCEPT !.registers = asked])
      BY <1>0, <2>1 DEF HasRegisters
    <2> QED
      BY <2>2, <2>3, PrimitivePass
  <1>2. ASSUME NEW field, NEW id \in Ids, ask(field, id) PROVE PassInv'
    <2>1. IsRegisters(set(field, packet.registers, id))
      BY <1>0, SetIsRegisters DEF HasRegisters
    <2>2. HasRegisters([packet EXCEPT !.registers = set(field, packet.registers, id)])
      BY <1>0, <2>1 DEF HasRegisters
    <2> QED
      BY <1>2, <2>2, PrimitivePass DEF ask
  <1>3. CASE drop
    BY <1>3, PrimitivePass DEF drop, HasRegisters
  <1>4. CASE exit
    BY <1>4, PrimitivePass DEF exit, HasRegisters
  <1>5. CASE other_primitive
    BY <1>5, PrimitivePass DEF other_primitive
  <1>6. ASSUME NEW spec, modify_egress_spec(spec) PROVE PassInv'
    BY <1>6, PrimitivePass DEF modify_egress_spec, HasRegisters
  <1>7. ASSUME NEW h, add_header(h) PROVE PassInv'
    BY <1>7, PrimitivePass DEF add_header, HasRegisters
  <1>8. ASSUME NEW h, add_header_fast(h) PROVE PassInv'
    BY <1>8, PrimitivePass DEF add_header_fast, HasRegisters
  <1>9. ASSUME NEW h, remove_header(h) PROVE PassInv'
    BY <1>9, PrimitivePass DEF remove_header, HasRegisters
  <1>10. ASSUME NEW dst, NEW src, copy_header(dst, src) PROVE PassInv'
    <2> DEFINE valid == IF src \in packet.valid THEN packet.valid \cup {dst} ELSE packet.valid \ {dst}
    <2>1. Primitive([packet EXCEPT !.valid = valid, !.measured = FALSE])
      BY <1>10 DEF copy_header
    <2> HIDE DEF valid
    <2> QED
      BY <2>1, PrimitivePass DEF HasRegisters
  <1>11. ASSUME NEW group, set_mcast_grp(group) PROVE PassInv'
    BY <1>11, PrimitivePass DEF set_mcast_grp, HasRegisters
  <1> QED
    BY <1>1, <1>2, <1>3, <1>4, <1>5, <1>6, <1>7, <1>8, <1>9, <1>10, <1>11 DEF Program

\* No packet is being processed: it has registers like every other one.
LEMMA NoPacketPass == HasRegisters(NoPacket)
  <1>1. IsRegisters([i \in {1, 2} |-> {}])
    BY DEF IsRegisters
  <1> QED
    BY <1>1, FreshAsksNothing DEF NoPacket

LEMMA PassInvInit == Init => PassInv
  BY NoPacketPass DEF Init, PassInv

\* The packets that a taken one is turned into.
LEMMA FinishPass ==
  ASSUME PassInv, NEW from, Finish(from),
         \A p \in waiting' : p \in waiting \/ (HasRegisters(p) /\ AsksNothing(p.registers)),
         \A p \in queued' : p \in queued \/ (HasRegisters(p) /\ IsAnswered(p))
  PROVE  PassInv'
  BY NoPacketPass DEF Finish, PassInv, NoPacket, HasRegisters, IsRegisters

\* Every step keeps the invariant.
LEMMA PassInvNext == PassInv /\ [Next]_vars => PassInv'
  <1> SUFFICES ASSUME PassInv, [Next]_vars PROVE PassInv'
    OBVIOUS
  <1>0. HasRegisters(packet) /\ IsRegisters(packet.registers)
    BY DEF PassInv, HasRegisters
  <1>1. CASE Receive
    <2>1. PICK headers \in SUBSET Headers, registers \in Stale :
            waiting' = waiting \cup {Fresh(headers, registers, SizeOf(headers))}
      BY <1>1 DEF Receive
    <2>2. IsRegisters(registers)
      BY PacketPassAssumption DEF IsRegisters, Registers
    <2>3. LET p == Fresh(headers, registers, SizeOf(headers))
          IN  HasRegisters(p) /\ AsksNothing(p.registers)
      BY <2>2, FreshAsksNothing
    <2>4. queued' = queued /\ packet' = packet /\ primitives' = primitives
      BY <1>1 DEF Receive
    <2> QED
      BY <2>1, <2>3, <2>4 DEF PassInv
  <1>2. CASE IngressStart
    <2>1. PICK p \in waiting : packet' = parse(p) /\ waiting' = waiting \ {p}
      BY <1>2 DEF IngressStart
    <2>2. HasRegisters(packet')
      BY <2>1 DEF PassInv, HasRegisters, parse
    <2>3. queued' = queued /\ primitives' = 0
      BY <1>2 DEF IngressStart, Take
    <2> QED
      BY <2>1, <2>2, <2>3 DEF PassInv
  <1>3. CASE EgressStart
    <2>1. PICK p \in queued : packet' = [p EXCEPT !.egress_spec = "zero"] /\ queued' = queued \ {p}
      BY <1>3 DEF EgressStart
    <2>2. HasRegisters(packet')
      BY <2>1 DEF PassInv, HasRegisters
    <2>3. waiting' = waiting /\ primitives' = 0
      BY <1>3 DEF EgressStart, Take
    <2> QED
      BY <2>1, <2>2, <2>3 DEF PassInv
  <1>4. CASE Program
    BY <1>4, ProgramPass
  <1>5. CASE IngressResubmit
    <2> DEFINE fresh == Fresh(packet.data, packet.registers, packet.arrived)
    <2>1. HasRegisters(fresh) /\ AsksNothing(fresh.registers)
      BY <1>0, FreshAsksNothing
    <2>2. Finish("ingress") /\ waiting' = waiting \cup {fresh} /\ queued' = queued \cup ClonesAtIngress(packet)
      BY <1>5 DEF IngressResubmit
    <2> HIDE DEF fresh
    <2>3. \A p \in queued' : p \in queued \/ (HasRegisters(p) /\ IsAnswered(p))
      BY <1>0, <2>2, IngressClonesAreAnswered
    <2> QED
      BY <2>1, <2>2, <2>3, FinishPass
  <1>6. ASSUME ~Resubmitted
        PROVE  LET q == [packet EXCEPT !.registers = Answered(@), !.exit = FALSE]
               IN  /\ HasRegisters(q) /\ IsAnswered(q)
                   /\ \A m \in multicast(q) : HasRegisters(m) /\ IsAnswered(m)
    <2> DEFINE q == [packet EXCEPT !.registers = Answered(@), !.exit = FALSE]
    <2>1. HasRegisters(q) /\ IsAnswered(q)
      BY <1>0, <1>6, LeavesIngressAnswered DEF Resubmitted
    <2> HIDE DEF q
    <2>2. \A m \in multicast(q) : HasRegisters(m) /\ IsAnswered(m)
      BY <2>1, MulticastIsAnswered DEF IsAnswered
    <2> QED
      BY <2>1, <2>2 DEF q
  <1>7. CASE IngressMulticast
    <2> DEFINE copies == multicast([packet EXCEPT !.registers = Answered(@), !.exit = FALSE])
    <2>1. \A m \in copies : HasRegisters(m) /\ IsAnswered(m)
      BY <1>6, <1>7 DEF IngressMulticast
    <2>2. Finish("ingress") /\ waiting' = waiting /\ queued' = queued \cup ClonesAtIngress(packet) \cup copies
      BY <1>7 DEF IngressMulticast
    <2> HIDE DEF copies
    <2>3. \A p \in queued' : p \in queued \/ (HasRegisters(p) /\ IsAnswered(p))
      BY <1>0, <2>1, <2>2, IngressClonesAreAnswered
    <2> QED
      BY <2>2, <2>3, FinishPass
  <1>8. CASE IngressDrop
    <2>1. Finish("ingress") /\ waiting' = waiting /\ queued' = queued \cup ClonesAtIngress(packet)
      BY <1>8 DEF IngressDrop
    <2>2. \A p \in queued' : p \in queued \/ (HasRegisters(p) /\ IsAnswered(p))
      BY <1>0, <2>1, IngressClonesAreAnswered
    <2> QED
      BY <2>1, <2>2, FinishPass
  <1>9. CASE IngressForward
    <2> DEFINE forwarded == {[packet EXCEPT !.registers = Answered(@), !.exit = FALSE]}
    <2>1. \A m \in forwarded : HasRegisters(m) /\ IsAnswered(m)
      BY <1>6, <1>9 DEF IngressForward
    <2>2. Finish("ingress") /\ waiting' = waiting /\ queued' = queued \cup ClonesAtIngress(packet) \cup forwarded
      BY <1>9 DEF IngressForward
    <2> HIDE DEF forwarded
    <2>3. \A p \in queued' : p \in queued \/ (HasRegisters(p) /\ IsAnswered(p))
      BY <1>0, <2>1, <2>2, IngressClonesAreAnswered
    <2> QED
      BY <2>2, <2>3, FinishPass
  <1>10. CASE EgressDrop
    <2>1. Finish("egress") /\ waiting' = waiting /\ queued' = queued \cup ClonesAtEgress(packet)
      BY <1>10 DEF EgressDrop
    <2>2. \A p \in queued' : p \in queued \/ (HasRegisters(p) /\ IsAnswered(p))
      BY <1>0, <2>1, EgressClonesAreAnswered
    <2> QED
      BY <2>1, <2>2, FinishPass
  <1>11. CASE EgressRecirculate
    <2> DEFINE fresh == Fresh(packet.valid, packet.registers, SizeOf(packet.valid))
    <2>1. HasRegisters(fresh) /\ AsksNothing(fresh.registers)
      BY <1>0, FreshAsksNothing
    <2>2. Finish("egress") /\ waiting' = waiting \cup {fresh} /\ queued' = queued \cup ClonesAtEgress(packet)
      BY <1>11 DEF EgressRecirculate
    <2> HIDE DEF fresh
    <2>3. \A p \in queued' : p \in queued \/ (HasRegisters(p) /\ IsAnswered(p))
      BY <1>0, <2>2, EgressClonesAreAnswered
    <2> QED
      BY <2>1, <2>2, <2>3, FinishPass
  <1>12. CASE EgressOutput
    <2>1. Finish("egress") /\ waiting' = waiting /\ queued' = queued \cup ClonesAtEgress(packet)
      BY <1>12 DEF EgressOutput
    <2>2. \A p \in queued' : p \in queued \/ (HasRegisters(p) /\ IsAnswered(p))
      BY <1>0, <2>1, EgressClonesAreAnswered
    <2> QED
      BY <2>1, <2>2, FinishPass
  <1>13. CASE UNCHANGED vars
    BY <1>13 DEF vars, PassInv
  <1> QED
    BY <1>1, <1>2, <1>3, <1>4, <1>5, <1>7, <1>8, <1>9, <1>10, <1>11, <1>12, <1>13 DEF Next

\* ArrivalsAskNothing for every program: what a packet was resubmitted or
\* recirculated for is not done again, and stale registers ask for nothing.
THEOREM ArrivalsAreCleared == Spec => []ArrivalsAskNothing
  <1>1. PassInv => ArrivalsAskNothing
    BY DEF PassInv, ArrivalsAskNothing
  <1> QED
    BY <1>1, PassInvInit, PassInvNext, PTL DEF Spec

\* AnsweredOnce for every program: no request of the ingress program is left
\* for the egress pipeline, and neither is its exit.
THEOREM RequestsAreAnsweredOnce == Spec => []AnsweredOnce
  <1>1. PassInv => AnsweredOnce
    BY DEF PassInv, AnsweredOnce, IsAnswered
  <1> QED
    BY <1>1, PassInvInit, PassInvNext, PTL DEF Spec

-----------------------------------------------------------------------------
\* The primitives other than clone_pkt and ask keep the registers.
LEMMA ProgramWrites ==
  ASSUME HasRegisters(packet), Program
  PROVE  \/ packet'.registers = packet.registers
         \/ \E f \in Fields, id \in Ids : packet'.registers = set(f, packet.registers, id)
         \/ \E session \in SessionIds, list \in Ids :
              packet'.registers =
                set(CLONE_FIELD_LIST,
                    set(CLONE_MIRROR_SESSION_ID, packet.registers, session \cup MIRROR_SESSION_ID_VALID_MASK),
                    list)
  <1>1. ASSUME NEW session \in SessionIds, NEW list \in Ids, clone_pkt(session, list)
        PROVE  packet'.registers =
                 set(CLONE_FIELD_LIST,
                     set(CLONE_MIRROR_SESSION_ID, packet.registers, session \cup MIRROR_SESSION_ID_VALID_MASK),
                     list)
    <2> DEFINE asked == set(CLONE_FIELD_LIST,
                            set(CLONE_MIRROR_SESSION_ID, packet.registers, session \cup MIRROR_SESSION_ID_VALID_MASK),
                            list)
    <2>1. packet' = [packet EXCEPT !.registers = asked]
      BY <1>1 DEF clone_pkt, Primitive
    <2> HIDE DEF asked
    <2>2. packet'.registers = asked
      BY <2>1 DEF HasRegisters
    <2> QED
      BY <2>2 DEF asked
  <1>2. ASSUME NEW f \in {LF_FIELD_LIST, RESUBMIT_FLAG, RECIRCULATE_FLAG}, NEW id \in Ids, ask(f, id)
        PROVE  f \in Fields /\ packet'.registers = set(f, packet.registers, id)
    <2>1. packet' = [packet EXCEPT !.registers = set(f, packet.registers, id)]
      BY <1>2 DEF ask, Primitive
    <2>2. packet'.registers = set(f, packet.registers, id)
      BY <2>1 DEF HasRegisters
    <2> QED
      BY <2>2 DEF Fields
  <1>3. ASSUME drop \/ exit \/ other_primitive
        PROVE  packet'.registers = packet.registers
    BY <1>3 DEF drop, exit, other_primitive, Primitive, HasRegisters
  <1>4. ASSUME NEW spec, modify_egress_spec(spec) \/ set_mcast_grp(spec)
        PROVE  packet'.registers = packet.registers
    BY <1>4 DEF modify_egress_spec, set_mcast_grp, Primitive, HasRegisters
  <1>5. ASSUME NEW h, add_header(h) \/ add_header_fast(h) \/ remove_header(h)
        PROVE  packet'.registers = packet.registers
    BY <1>5 DEF add_header, add_header_fast, remove_header, Primitive, HasRegisters
  <1>6. ASSUME NEW dst, NEW src, copy_header(dst, src)
        PROVE  packet'.registers = packet.registers
    <2> DEFINE valid == IF src \in packet.valid THEN packet.valid \cup {dst} ELSE packet.valid \ {dst}
    <2>1. packet' = [packet EXCEPT !.valid = valid, !.measured = FALSE]
      BY <1>6 DEF copy_header, Primitive
    <2> HIDE DEF valid
    <2> QED
      BY <2>1 DEF HasRegisters
  <1> QED
    BY <1>1, <1>2, <1>3, <1>4, <1>5, <1>6 DEF Program

\* The values that programs write fit.
LEMMA ValuesFit ==
  /\ \A id \in Ids : id \in Short
  /\ \A session \in SessionIds : session \cup MIRROR_SESSION_ID_VALID_MASK \in Short
  BY PacketPassAssumption DEF Short, MIRROR_SESSION_ID_MASK, MIRROR_SESSION_ID_VALID_MASK

\* RequestsIndependent for every program: a primitive changes the requests it
\* names and leaves those that share their register with them.
THEOREM RequestsAreIndependent == Spec => RequestsIndependent
  <1> DEFINE Independent ==
        primitives' = primitives + 1 =>
          \/ \A field \in Fields \ {CLONE_MIRROR_SESSION_ID, CLONE_FIELD_LIST} :
               get(field, packet'.registers) = get(field, packet.registers)
          \/ \E f \in Fields : \A field \in Fields \ {f} :
               get(field, packet'.registers) = get(field, packet.registers)
  <1>1. PassInv /\ [Next]_vars => [Independent]_vars
    <2> SUFFICES ASSUME PassInv, Next, primitives' = primitives + 1 PROVE Independent
      <3> HIDE DEF Independent
      <3>1. ASSUME primitives' # primitives + 1 PROVE Independent
        BY <3>1 DEF Independent
      <3> QED
        BY <3>1
    <2>1. HasRegisters(packet) /\ IsRegisters(packet.registers)
      BY DEF PassInv, HasRegisters
    <2>2. CASE Program
      <3>1. CASE packet'.registers = packet.registers
        BY <3>1
      <3>2. ASSUME NEW f \in Fields, NEW id \in Ids, packet'.registers = set(f, packet.registers, id)
            PROVE  \A field \in Fields \ {f} : get(field, packet'.registers) = get(field, packet.registers)
        BY <2>1, <3>2, ValuesFit, GetSetOther
      <3>3. ASSUME NEW session \in SessionIds, NEW list \in Ids,
                   packet'.registers =
                     set(CLONE_FIELD_LIST,
                         set(CLONE_MIRROR_SESSION_ID, packet.registers, session \cup MIRROR_SESSION_ID_VALID_MASK),
                         list)
            PROVE  \A field \in Fields \ {CLONE_MIRROR_SESSION_ID, CLONE_FIELD_LIST} :
                     get(field, packet'.registers) = get(field, packet.registers)
        <4> DEFINE named == session \cup MIRROR_SESSION_ID_VALID_MASK
                   once == set(CLONE_MIRROR_SESSION_ID, packet.registers, named)
        <4>1. named \in Short /\ list \in Short
          BY ValuesFit
        <4>2. CLONE_MIRROR_SESSION_ID \in Fields /\ CLONE_FIELD_LIST \in Fields
          BY DEF Fields
        <4> HIDE DEF named
        <4>3. IsRegisters(once)
          BY <2>1, SetIsRegisters
        <4>4. \A field \in Fields \ {CLONE_MIRROR_SESSION_ID} : get(field, once) = get(field, packet.registers)
          BY <2>1, <4>1, <4>2, GetSetOther
        <4>5. packet'.registers = set(CLONE_FIELD_LIST, once, list)
          BY <3>3 DEF named
        <4> HIDE DEF once
        <4>6. \A field \in Fields \ {CLONE_FIELD_LIST} : get(field, packet'.registers) = get(field, once)
          BY <4>1, <4>2, <4>3, <4>5, GetSetOther
        <4> QED
          BY <4>4, <4>6
      <3> QED
        BY <2>1, <2>2, <3>1, <3>2, <3>3, ProgramWrites
    <2>3. CASE ~Program
      <3>1. primitives' = primitives \/ primitives' = 0
        BY <2>3 DEF Next, Receive, IngressStart, EgressStart, Take, IngressResubmit, IngressMulticast,
                    IngressDrop, IngressForward, EgressDrop, EgressRecirculate, EgressOutput, Finish
      <3> QED
        BY <3>1 DEF PassInv
    <2> QED
      BY <2>2, <2>3
  <1> QED
    BY <1>1, PassInvInit, PassInvNext, PTL DEF Spec, RequestsIndependent
-----------------------------------------------------------------------------
(* Register 0.                                                             *)

\* The bytes of one header, and of several, are finitely many.
LEMMA HeaderBytes ==
  ASSUME NEW h \in Headers
  PROVE  /\ nbytes[h] \in Nat
         /\ IsFiniteSet({h} \X (1 .. nbytes[h]))
         /\ Cardinality({h} \X (1 .. nbytes[h])) = nbytes[h]
  <1>1. nbytes[h] \in Nat
    BY PacketPassAssumption
  <1>2. IsFiniteSet({h}) /\ Cardinality({h}) = 1
    BY FS_Singleton
  <1>3. IsFiniteSet(1 .. nbytes[h]) /\ Cardinality(1 .. nbytes[h]) = nbytes[h]
    BY <1>1, FS_Interval
  <1>4. /\ IsFiniteSet({h} \X (1 .. nbytes[h]))
        /\ Cardinality({h} \X (1 .. nbytes[h])) = Cardinality({h}) * Cardinality(1 .. nbytes[h])
    BY <1>2, <1>3, FS_Product
  <1> QED
    BY <1>1, <1>2, <1>3, <1>4

LEMMA BytesAreFinite ==
  ASSUME NEW headers \in SUBSET Headers
  PROVE  IsFiniteSet(BytesOf(headers))
  <1> DEFINE Parts == {{h} \X (1 .. nbytes[h]) : h \in headers}
             f == [h \in headers |-> {h} \X (1 .. nbytes[h])]
  <1>1. IsFiniteSet(headers)
    BY PacketPassAssumption, FS_Subset
  <1>2. f \in Surjection(headers, Parts)
    BY DEF Surjection
  <1>3. \A T \in Parts : IsFiniteSet(T)
    BY HeaderBytes
  <1> HIDE DEF f, Parts
  <1>4. IsFiniteSet(Parts)
    BY <1>1, <1>2, FS_Surjection
  <1>5. IsFiniteSet(UNION Parts)
    BY <1>3, <1>4, FS_UNION
  <1> QED
    BY <1>5 DEF BytesOf, Parts

LEMMA SizeOfType ==
  ASSUME NEW headers \in SUBSET Headers
  PROVE  SizeOf(headers) \in Nat
  BY BytesAreFinite, FS_CardinalityType, PacketPassAssumption DEF SizeOf

\* The size of a packet with one header more, and with one less.
LEMMA SizeOfMore ==
  ASSUME NEW headers \in SUBSET Headers, NEW h \in Headers \ headers
  PROVE  SizeOf(headers \cup {h}) = SizeOf(headers) + nbytes[h]
  <1> DEFINE old == BytesOf(headers)
             added == {h} \X (1 .. nbytes[h])
  <1>1. IsFiniteSet(old) /\ IsFiniteSet(added)
    BY BytesAreFinite, HeaderBytes
  <1>2. Cardinality(added) = nbytes[h] /\ nbytes[h] \in Nat
    BY HeaderBytes
  <1>3. BytesOf(headers \cup {h}) = old \cup added /\ old \cap added = {}
    BY DEF BytesOf
  <1> HIDE DEF old, added
  <1>4. Cardinality(old \cup added) = Cardinality(old) + Cardinality(added) - Cardinality(old \cap added)
    BY <1>1, FS_Union
  <1>5. Cardinality(old) \in Nat /\ PayloadSize \in Nat /\ Cardinality(old \cap added) = 0
    BY <1>1, <1>3, FS_CardinalityType, FS_EmptySet, PacketPassAssumption
  <1>6. Cardinality(old \cup added) = Cardinality(old) + nbytes[h]
    BY <1>2, <1>4, <1>5
  <1>7. SizeOf(headers) = PayloadSize + Cardinality(old)
    BY DEF SizeOf, old
  <1>8. SizeOf(headers \cup {h}) = PayloadSize + (Cardinality(old) + nbytes[h])
    BY <1>3, <1>6 DEF SizeOf
  <1> QED
    BY <1>2, <1>5, <1>7, <1>8

LEMMA SizeOfLess ==
  ASSUME NEW headers \in SUBSET Headers, NEW h \in headers
  PROVE  SizeOf(headers \ {h}) = SizeOf(headers) - nbytes[h]
  <1> DEFINE rest == headers \ {h}
  <1>1. headers = rest \cup {h} /\ h \in Headers \ rest /\ rest \in SUBSET Headers
    OBVIOUS
  <1> HIDE DEF rest
  <1>2. SizeOf(headers) = SizeOf(rest) + nbytes[h] /\ SizeOf(rest) \in Nat /\ nbytes[h] \in Nat
    BY <1>1, SizeOfMore, SizeOfType, HeaderBytes
  <1>3. SizeOf(rest) = SizeOf(headers) - nbytes[h]
    BY <1>2
  <1> QED
    BY <1>3 DEF rest

-----------------------------------------------------------------------------
(***************************************************************************)
(* The second inductive invariant, of the types and of register 0.  Besides *)
(* what LengthIsDeparsed says it remembers that the length with which a    *)
(* packet arrived is that of the headers it arrived with: a resubmitted    *)
(* packet and the copies ingress makes are given it (p4-model.cc 964).     *)
(***************************************************************************)

\* A packet whose register 0 is its size if the program kept it.
Measured(p) == p \in Packet /\ (p.measured => p.length = SizeOf(p.valid))

\* A packet in front of the ingress pipeline.
Arriving(p) == p \in Packet /\ p.length = SizeOf(p.data)

LengthInv ==
  /\ \A p \in waiting : Arriving(p)
  /\ \A p \in queued : Measured(p)
  /\ packet \in Packet
  /\ stage # "idle" => Measured(packet)
  /\ stage = "ingress" => packet.arrived = SizeOf(packet.data)
  /\ stage \in {"idle", "ingress", "egress"}
  /\ primitives \in 0 .. MaxPrimitives
  /\ passes \in 0 .. MaxPasses

LEMMA SetType ==
  ASSUME NEW registers \in Registers, NEW field \in Fields, NEW value \in Short
  PROVE  set(field, registers, value) \in Registers
  <1>1. \A b \in value : b \in Int /\ 0 <= b /\ b <= 15
    BY DEF Short
  <1>2. field.idx \in {1, 2} /\ field.shift \in 0 .. 48
    BY DEF Fields, CLONE_MIRROR_SESSION_ID, CLONE_FIELD_LIST, LF_FIELD_LIST, RESUBMIT_FLAG, RECIRCULATE_FLAG
  <1> DEFINE shifted == {b + field.shift : b \in value}
             word == (registers[field.idx] \ field.mask) \cup shifted
  <1>3. shifted \in Word
    BY <1>1, <1>2 DEF Word
  <1> HIDE DEF shifted
  <1>4. word \in Word
    BY <1>2, <1>3 DEF Registers, Word
  <1>5. set(field, registers, value) = [registers EXCEPT ![field.idx] = word]
    BY DEF set, shifted
  <1> HIDE DEF word
  <1> QED
    BY <1>2, <1>4, <1>5 DEF Registers

LEMMA ClearType ==
  ASSUME NEW registers \in Registers
  PROVE  clear_all(registers) \in Registers
  BY DEF clear_all, Registers, Word

LEMMA AnsweredType ==
  ASSUME NEW registers \in Registers
  PROVE  Answered(registers) \in Registers
  <1>1. {} \in Short /\ CLONE_MIRROR_SESSION_ID \in Fields /\ CLONE_FIELD_LIST \in Fields
    BY DEF Short, Fields
  <1> QED
    BY <1>1, SetType DEF Answered

LEMMA RegistersOfPacket ==
  ASSUME NEW p \in Packet, NEW registers \in Registers
  PROVE  LET q == [p EXCEPT !.registers = registers]
         IN  /\ q \in Packet /\ q.length = p.length /\ q.valid = p.valid
             /\ q.measured = p.measured /\ q.data = p.data /\ q.arrived = p.arrived
  BY DEF Packet

\* Packets that have not been parsed, and once they have been.
LEMMA FreshArrives ==
  ASSUME NEW headers \in SUBSET Headers, NEW registers \in Registers
  PROVE  Arriving(Fresh(headers, registers, SizeOf(headers)))
  BY ClearType, SizeOfType DEF Arriving, Fresh, Packet

LEMMA ParsedIsMeasured ==
  ASSUME NEW p, Arriving(p)
  PROVE  Measured(parse(p)) /\ parse(p).arrived = SizeOf(parse(p).data)
  BY DEF Arriving, Measured, parse, Packet

\* The copies.
LEMMA MulticastIsMeasured ==
  ASSUME NEW p, Measured(p), NEW q \in multicast(p)
  PROVE  Measured(q)
  BY ClearType, RegistersOfPacket DEF multicast, Measured, Packet

LEMMA ClonesAreMeasured ==
  ASSUME NEW p, NEW copy, Measured(copy), NEW q \in Clones(p, copy)
  PROVE  Measured(q)
  <1>1. q \in multicast(copy) \/ q = copy
    BY DEF Clones
  <1> QED
    BY <1>1, MulticastIsMeasured

LEMMA IngressClonesAreMeasured ==
  ASSUME NEW p \in Packet, p.arrived = SizeOf(p.data), NEW q \in ClonesAtIngress(p)
  PROVE  Measured(q)
  <1>1. p.data \in SUBSET Headers /\ p.registers \in Registers
    BY DEF Packet
  <1>2. Measured(parse(Fresh(p.data, p.registers, p.arrived)))
    BY <1>1, FreshArrives, ParsedIsMeasured
  <1> QED
    BY <1>2, ClonesAreMeasured DEF ClonesAtIngress

LEMMA EgressClonesAreMeasured ==
  ASSUME NEW p, Measured(p), NEW q \in ClonesAtEgress(p)
  PROVE  Measured(q)
  <1> DEFINE registers == clear_all(p.registers)
             copy == [p EXCEPT !.registers = registers, !.egress_spec = "zero", !.mcast_grp = 0, !.exit = FALSE]
  <1>1. registers \in Registers
    BY ClearType DEF Measured, Packet
  <1>2. q \in Clones(p, copy)
    BY Zenon DEF ClonesAtEgress
  <1> HIDE DEF registers
  <1>3. Measured(copy)
    BY <1>1 DEF Measured, Packet
  <1> HIDE DEF copy
  <1> QED
    BY <1>2, <1>3, ClonesAreMeasured

\* The packet that leaves ingress.
LEMMA LeavesIngressMeasured ==
  ASSUME NEW p, Measured(p)
  PROVE  Measured([p EXCEPT !.registers = Answered(@), !.exit = FALSE])
  <1>1. Answered(p.registers) \in Registers
    BY AnsweredType DEF Measured, Packet
  <1> QED
    BY <1>1 DEF Measured, Packet

\* The primitives: those that change headers either keep register 0 or mark
\* the packet as no longer measured.
LEMMA PrimitiveMeasures ==
  ASSUME LengthInv, NEW p, Primitive(p), Measured(packet) => Measured(p),
         packet \in Packet => p.arrived = packet.arrived /\ p.data = packet.data
  PROVE  LengthInv'
  <1>1. stage' = stage /\ stage # "idle" /\ waiting' = waiting /\ queued' = queued /\ passes' = passes
    BY DEF Primitive
  <1>2. packet' = p /\ primitives < MaxPrimitives /\ primitives' = primitives + 1
    BY DEF Primitive
  <1>3. Measured(p)
    BY <1>1 DEF LengthInv
  <1>4. primitives' \in 0 .. MaxPrimitives
    BY <1>2, PacketPassAssumption DEF LengthInv
  <1> QED
    BY <1>1, <1>2, <1>3, <1>4 DEF LengthInv, Measured

LEMMA ProgramMeasures ==
  ASSUME LengthInv, Program
  PROVE  LengthInv'
  <1>0. packet \in Packet
    BY DEF LengthInv
  <1>a. packet.registers \in Registers /\ packet.valid \in SUBSET Headers /\ packet.length \in Int
    BY <1>0 DEF Packet
  <1>1. ASSUME NEW registers \in Registers, Primitive([packet EXCEPT !.registers = registers])
        PROVE  LengthInv'
    <2> DEFINE p == [packet EXCEPT !.registers = registers]
    <2>1. /\ p \in Packet /\ p.length = packet.length /\ p.valid = packet.valid
          /\ p.measured = packet.measured /\ p.data = packet.data /\ p.arrived = packet.arrived
      BY <1>0, RegistersOfPacket
    <2>2. Primitive(p)
      BY <1>1
    <2> HIDE DEF p
    <2> QED
      BY <2>1, <2>2, PrimitiveMeasures DEF Measured
  <1>2. ASSUME NEW session \in SessionIds, NEW list \in Ids, clone_pkt(session, list)
        PROVE  LengthInv'
    <2> DEFINE named == session \cup MIRROR_SESSION_ID_VALID_MASK
               asked == set(CLONE_FIELD_LIST, set(CLONE_MIRROR_SESSION_ID, packet.registers, named), list)
    <2>1. named \in Short /\ list \in Short
      BY ValuesFit
    <2>2. CLONE_MIRROR_SESSION_ID \in Fields /\ CLONE_FIELD_LIST \in Fields
      BY DEF Fields
    <2>3. Primitive([packet EXCEPT !.registers = asked])
      BY <1>2 DEF clone_pkt
    <2> HIDE DEF named
    <2>4. asked \in Registers
      BY <1>a, <2>1, <2>2, SetType
    <2> HIDE DEF asked
    <2> QED
      BY <1>1, <2>3, <2>4
  <1>3. ASSUME NEW field \in {LF_FIELD_LIST, RESUBMIT_FLAG, RECIRCULATE_FLAG}, NEW id \in Ids, ask(field, id)
        PROVE  LengthInv'
    <2>1. set(field, packet.registers, id) \in Registers
      BY <1>a, ValuesFit, SetType DEF Fields
    <2> QED
      BY <1>1, <1>3, <2>1 DEF ask
  <1>4. CASE drop
    BY <1>0, <1>4, PrimitiveMeasures DEF drop, Measured, Packet
  <1>5. CASE exit
    BY <1>0, <1>5, PrimitiveMeasures DEF exit, Measured, Packet
  <1>6. CASE other_primitive
    BY <1>6, PrimitiveMeasures DEF other_primitive
  <1>7. ASSUME NEW spec \in {"zero", "drop_port"}, modify_egress_spec(spec) PROVE LengthInv'
    BY <1>0, <1>7, PrimitiveMeasures DEF modify_egress_spec, Measured, Packet
  <1>8. ASSUME NEW group \in {0, 1}, set_mcast_grp(group) PROVE LengthInv'
    BY <1>0, <1>8, PrimitiveMeasures DEF set_mcast_grp, Measured, Packet
  <1>9. ASSUME NEW h \in Headers, add_header(h) PROVE LengthInv'
    <2>1. CASE h \in packet.valid
      BY <1>9, <2>1, PrimitiveMeasures DEF add_header
    <2>2. CASE h \notin packet.valid
      <3> DEFINE headers == packet.valid \cup {h}
                 length == packet.length + nbytes[h]
                 p == [packet EXCEPT !.valid = headers, !.length = length]
      <3>1. Primitive(p)
        BY <1>9, <2>2 DEF add_header
      <3>2. nbytes[h] \in Nat
        BY HeaderBytes
      <3>3. headers \in SUBSET Headers /\ length \in Int
        BY <1>a, <3>2
      <3>4. SizeOf(headers) = SizeOf(packet.valid) + nbytes[h]
        BY <1>a, <2>2, SizeOfMore
      <3>5. packet.length = SizeOf(packet.valid) => length = SizeOf(headers)
        BY <3>4
      <3> HIDE DEF headers, length
      <3>6. /\ p \in Packet /\ p.valid = headers /\ p.length = length
            /\ p.measured = packet.measured /\ p.arrived = packet.arrived /\ p.data = packet.data
        BY <1>0, <3>3 DEF Packet
      <3> HIDE DEF p
      <3> QED
        BY <3>1, <3>5, <3>6, PrimitiveMeasures DEF Measured
    <2> QED
      BY <2>1, <2>2
  <1>10. ASSUME NEW h \in Headers, add_header_fast(h) PROVE LengthInv'
    BY <1>0, <1>10, PrimitiveMeasures DEF add_header_fast, Measured, Packet
  <1>11. ASSUME NEW h \in Headers, remove_header(h) PROVE LengthInv'
    <2>1. CASE h \notin packet.valid
      BY <1>11, <2>1, PrimitiveMeasures DEF remove_header
    <2>2. CASE h \in packet.valid
      <3> DEFINE headers == packet.valid \ {h}
                 length == packet.length - nbytes[h]
                 p == [packet EXCEPT !.valid = headers, !.length = length]
      <3>1. Primitive(p)
        BY <1>11, <2>2 DEF remove_header
      <3>2. nbytes[h] \in Nat
        BY HeaderBytes
      <3>3. headers \in SUBSET Headers /\ length \in Int
        BY <1>a, <3>2
      <3>4. SizeOf(headers) = SizeOf(packet.valid) - nbytes[h]
        BY <1>a, <2>2, SizeOfLess
      <3>5. packet.length = SizeOf(packet.valid) => length = SizeOf(headers)
        BY <3>4
      <3> HIDE DEF headers, length
      <3>6. /\ p \in Packet /\ p.valid = headers /\ p.length = length
            /\ p.measured = packet.measured /\ p.arrived = packet.arrived /\ p.data = packet.data
        BY <1>0, <3>3 DEF Packet
      <3> HIDE DEF p
      <3> QED
        BY <3>1, <3>5, <3>6, PrimitiveMeasures DEF Measured
    <2> QED
      BY <2>1, <2>2
  <1>12. ASSUME NEW dst \in Headers, NEW src \in Headers, copy_header(dst, src) PROVE LengthInv'
    <2> DEFINE valid == IF src \in packet.valid THEN packet.valid \cup {dst} ELSE packet.valid \ {dst}
    <2>1. Primitive([packet EXCEPT !.valid = valid, !.measured = FALSE])
      BY <1>12 DEF copy_header
    <2>2. valid \in SUBSET Headers
      BY <1>a
    <2> HIDE DEF valid
    <2> QED
      BY <1>0, <2>1, <2>2, PrimitiveMeasures DEF Measured, Packet
  <1> QED
    BY <1>2, <1>3, <1>4, <1>5, <1>6, <1>7, <1>8, <1>9, <1>10, <1>11, <1>12 DEF Program

LEMMA NoPacketType == NoPacket \in Packet
  <1>1. [i \in {1, 2} |-> {}] \in Registers
    BY DEF Registers, Word
  <1> HIDE DEF Registers
  <1>2. clear_all([i \in {1, 2} |-> {}]) \in Registers
    BY <1>1, ClearType
  <1> QED
    BY <1>2 DEF NoPacket, Fresh, Packet

LEMMA LengthInvInit == Init => LengthInv
  BY NoPacketType, PacketPassAssumption DEF Init, LengthInv

LEMMA FinishMeasures ==
  ASSUME LengthInv, NEW from, Finish(from),
         \A p \in waiting' : p \in waiting \/ Arriving(p),
         \A p \in queued' : p \in queued \/ Measured(p)
  PROVE  LengthInv'
  BY NoPacketType DEF Finish, LengthInv

\* Every step keeps the invariant.
LEMMA LengthInvNext == LengthInv /\ [Next]_vars => LengthInv'
  <1> SUFFICES ASSUME LengthInv, [Next]_vars PROVE LengthInv'
    OBVIOUS
  <1>0. packet \in Packet /\ packet.registers \in Registers
        /\ packet.data \in SUBSET Headers /\ packet.valid \in SUBSET Headers
    BY DEF LengthInv, Packet
  <1>1. CASE Receive
    <2>1. PICK headers \in SUBSET Headers, registers \in Stale :
            waiting' = waiting \cup {Fresh(headers, registers, SizeOf(headers))}
      BY <1>1 DEF Receive
    <2>2. Arriving(Fresh(headers, registers, SizeOf(headers)))
      BY PacketPassAssumption, FreshArrives
    <2>3. UNCHANGED <<queued, stage, packet, primitives, passes>>
      BY <1>1 DEF Receive
    <2> QED
      BY <2>1, <2>2, <2>3 DEF LengthInv
  <1>2. ASSUME NEW next, Take(next)
        PROVE  /\ stage' = next
               /\ primitives' \in 0 .. MaxPrimitives
               /\ passes' \in 0 .. MaxPasses
    BY <1>2, PacketPassAssumption DEF Take, LengthInv
  <1>3. CASE IngressStart
    <2>1. PICK p \in waiting : packet' = parse(p) /\ waiting' = waiting \ {p}
      BY <1>3 DEF IngressStart
    <2>2. Measured(packet') /\ packet'.arrived = SizeOf(packet'.data)
      BY <2>1, ParsedIsMeasured DEF LengthInv
    <2>3. queued' = queued /\ Take("ingress")
      BY <1>3 DEF IngressStart
    <2> QED
      BY <1>2, <2>1, <2>2, <2>3 DEF LengthInv, Measured
  <1>4. CASE EgressStart
    <2>1. PICK p \in queued : packet' = [p EXCEPT !.egress_spec = "zero"] /\ queued' = queued \ {p}
      BY <1>4 DEF EgressStart
    <2>2. Measured(p)
      BY <2>1 DEF LengthInv
    <2>3. Measured(packet')
      BY <2>1, <2>2 DEF Measured, Packet
    <2>4. waiting' = waiting /\ Take("egress")
      BY <1>4 DEF EgressStart
    <2> QED
      BY <1>2, <2>1, <2>3, <2>4 DEF LengthInv, Measured
  <1>5. CASE Program
    BY <1>5, ProgramMeasures
  <1>6. ASSUME Finish("ingress")
        PROVE  /\ packet.arrived = SizeOf(packet.data)
               /\ \A q \in ClonesAtIngress(packet) : Measured(q)
               /\ Measured([packet EXCEPT !.registers = Answered(@), !.exit = FALSE])
    <2>1. Measured(packet) /\ packet.arrived = SizeOf(packet.data)
      BY <1>6 DEF Finish, LengthInv
    <2> QED
      BY <1>0, <2>1, IngressClonesAreMeasured, LeavesIngressMeasured
  <1>7. CASE IngressResubmit
    <2> DEFINE fresh == Fresh(packet.data, packet.registers, packet.arrived)
    <2>1. Finish("ingress") /\ waiting' = waiting \cup {fresh} /\ queued' = queued \cup ClonesAtIngress(packet)
      BY <1>7 DEF IngressResubmit
    <2>2. Arriving(fresh)
      BY <1>0, <1>6, <2>1, FreshArrives
    <2> HIDE DEF fresh
    <2> QED
      BY <1>6, <2>1, <2>2, FinishMeasures
  <1>8. CASE IngressMulticast
    <2> DEFINE left == [packet EXCEPT !.registers = Answered(@), !.exit = FALSE]
    <2>1. /\ Finish("ingress") /\ waiting' = waiting
          /\ queued' = queued \cup ClonesAtIngress(packet) \cup multicast(left)
      BY <1>8 DEF IngressMulticast
    <2>2. Measured(left)
      BY <1>6, <2>1
    <2> HIDE DEF left
    <2>3. \A q \in multicast(left) : Measured(q)
      BY <2>2, MulticastIsMeasured
    <2> QED
      BY <1>6, <2>1, <2>3, FinishMeasures
  <1>9. CASE IngressDrop
    BY <1>6, <1>9, FinishMeasures DEF IngressDrop
  <1>10. CASE IngressForward
    <2> DEFINE left == [packet EXCEPT !.registers = Answered(@), !.exit = FALSE]
    <2>1. /\ Finish("ingress") /\ waiting' = waiting
          /\ queued' = queued \cup ClonesAtIngress(packet) \cup {left}
      BY <1>10 DEF IngressForward
    <2>2. Measured(left)
      BY <1>6, <2>1
    <2> HIDE DEF left
    <2> QED
      BY <1>6, <2>1, <2>2, FinishMeasures
  <1>11. ASSUME Finish("egress")
         PROVE  \A q \in ClonesAtEgress(packet) : Measured(q)
    <2>1. Measured(packet)
      BY <1>11 DEF Finish, LengthInv
    <2> QED
      BY <2>1, EgressClonesAreMeasured
  <1>12. CASE EgressDrop
    BY <1>11, <1>12, FinishMeasures DEF EgressDrop
  <1>13. CASE EgressRecirculate
    <2> DEFINE fresh == Fresh(packet.valid, packet.registers, SizeOf(packet.valid))
    <2>1. Finish("egress") /\ waiting' = waiting \cup {fresh} /\ queued' = queued \cup ClonesAtEgress(packet)
      BY <1>13 DEF EgressRecirculate
    <2>2. Arriving(fresh)
      BY <1>0, FreshArrives
    <2> HIDE DEF fresh
    <2> QED
      BY <1>11, <2>1, <2>2, FinishMeasures
  <1>14. CASE EgressOutput
    BY <1>11, <1>14, FinishMeasures DEF EgressOutput
  <1>15. CASE UNCHANGED vars
    BY <1>15 DEF vars, LengthInv
  <1> QED
    BY <1>1, <1>3, <1>4, <1>5, <1>7, <1>8, <1>9, <1>10, <1>12, <1>13, <1>14, <1>15 DEF Next

\* TypeOK for every program: no value of a packed register is ever wider than
\* its 16 bits, whatever the register held before.
THEOREM PacketsAreTyped == Spec => []TypeOK
  <1>1. LengthInv => TypeOK
    BY DEF LengthInv, TypeOK, Arriving, Measured
  <1> QED
    BY <1>1, LengthInvInit, LengthInvNext, PTL DEF Spec

\* LengthIsDeparsed for every program, every set of headers and every size:
\* register 0 survives resubmission, recirculation, cloning and multicast.
THEOREM LengthsAreDeparsed == Spec => []LengthIsDeparsed
  <1>1. LengthInv => LengthIsDeparsed
    BY DEF LengthInv, LengthIsDeparsed, Arriving, Measured
  <1> QED
    BY <1>1, LengthInvInit, LengthInvNext, PTL DEF Spec
=============================================================================
