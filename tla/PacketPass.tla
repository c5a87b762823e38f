----------------------------- MODULE PacketPass -----------------------------
(***************************************************************************)
(* What a packet carries through the switch besides its destination:       *)
(* register 0 (its length), the packed requests of RegisterAccess, the     *)
(* valid headers, the mark of the exit primitive and the two metadata      *)
(* fields that decide where it goes.  The P4 program is a sequence of      *)
(* primitives, those of model/primitives.cpp and those of the same names   *)
(* that bmv2's simple_switch registers, which write the registers.         *)
(*                                                                         *)
(* The order in which packets wait is P4Model's concern: here the two      *)
(* buffers are sets, and any packet in them may be next.                   *)
(***************************************************************************)
EXTENDS RegisterAccess, FiniteSets

CONSTANTS
  SessionIds,          \* the mirroring sessions a program names, as bits
  mirroring_sessions,  \* session -> [mgid_valid, egress_port_valid]
  Ids,                 \* field lists and learn ids, as bits
  Headers,             \* the headers of the P4 program
  nbytes,              \* header -> its size
  PayloadSize,
  Stale,               \* what the registers of a new packet may hold
  MaxArrivals,         \* bound: packets that arrive, all of them first
  MaxPrimitives,       \* bound: primitives a program runs on a packet
  MaxPasses            \* bound: packets taken from a buffer

ASSUME PacketPassAssumption ==
  /\ SessionIds \subseteq SUBSET MIRROR_SESSION_ID_MASK
  /\ Ids \subseteq Short
  /\ Stale \subseteq Registers
  /\ IsFiniteSet(Headers)
  /\ nbytes \in [Headers -> Nat]
  /\ PayloadSize \in Nat
  /\ MaxPrimitives \in Nat
  /\ MaxPasses \in Nat

VARIABLES
  waiting,             \* the packets in the input buffer
  queued,              \* the packets in the egress buffers
  stage,               \* what the switch is running, if anything
  packet,              \* on this packet
  primitives,          \* primitives run so far
  passes               \* packets taken so far

vars == <<waiting, queued, stage, packet, primitives, passes>>

\* Every byte of these headers.
BytesOf(headers) == UNION {{h} \X (1 .. nbytes[h]) : h \in headers}

SizeOf(headers) == PayloadSize + Cardinality(BytesOf(headers))

(***************************************************************************)
(* data: the headers in the buffer when the packet was taken.  arrived:    *)
(* register 0 at that time.  measured: no primitive that changes headers   *)
(* without register 0 was used since register 0 was set from the buffer.   *)
(***************************************************************************)
Packet ==
  [data: SUBSET Headers, valid: SUBSET Headers, registers: Registers, length: Int, arrived: Int,
   egress_spec: {"zero", "drop_port"}, mcast_grp: {0, 1}, exit: BOOLEAN, measured: BOOLEAN]

\* A packet of these headers whose metadata is reset, in front of the parser.
Fresh(headers, registers, length) ==
  [data |-> headers, valid |-> {}, registers |-> clear_all(registers), length |-> length, arrived |-> length,
   egress_spec |-> "zero", mcast_grp |-> 0, exit |-> FALSE, measured |-> TRUE]

parse(p) == [p EXCEPT !.valid = p.data, !.arrived = p.length]

\* The copies multicast makes of p.  They differ in their ports only.
multicast(p) == {[p EXCEPT !.registers = clear_all(@)]}

\* Mutant: the request stays.
AnsweredNextTime(registers) == registers

\* The registers after a clone request has been read.
Answered(registers) ==
  set(CLONE_FIELD_LIST, set(CLONE_MIRROR_SESSION_ID, registers, {}), {})

\* What a clone request of p makes of the prepared copy.
Clones(p, copy) ==
  LET session == get(CLONE_MIRROR_SESSION_ID, p.registers)
      id == session \cap MIRROR_SESSION_ID_MASK
  IN  IF session # {} /\ id \in DOMAIN mirroring_sessions
      THEN (IF mirroring_sessions[id].mgid_valid THEN multicast(copy) ELSE {})
           \cup (IF mirroring_sessions[id].egress_port_valid THEN {copy} ELSE {})
      ELSE {}

ClonesAtIngress(p) == Clones(p, parse(Fresh(p.data, p.registers, p.arrived)))

ClonesAtEgress(p) ==
  Clones(p, [p EXCEPT !.registers = clear_all(@), !.egress_spec = "zero", !.mcast_grp = 0, !.exit = FALSE])

NoPacket == Fresh({}, [i \in {1, 2} |-> {}], 0)

Init ==
  /\ waiting = {} /\ queued = {}
  /\ stage = "idle" /\ packet = NoPacket
  /\ primitives = 0 /\ passes = 0

Receive ==
  /\ passes = 0
  /\ Cardinality(waiting) < MaxArrivals
  /\ \E headers \in SUBSET Headers, registers \in Stale :
       waiting' = waiting \cup {Fresh(headers, registers, SizeOf(headers))}
  /\ UNCHANGED <<queued, stage, packet, primitives, passes>>

Take(next) ==
  /\ stage = "idle"
  /\ passes < MaxPasses
  /\ passes' = passes + 1
  /\ primitives' = 0
  /\ stage' = next

IngressStart ==
  /\ Take("ingress")
  /\ \E p \in waiting : packet' = parse(p) /\ waiting' = waiting \ {p}
  /\ UNCHANGED queued

EgressStart ==
  /\ Take("egress")
  /\ \E p \in queued :
       /\ packet' = [p EXCEPT !.egress_spec = "zero"]
       /\ queued' = queued \ {p}
  /\ UNCHANGED waiting

-----------------------------------------------------------------------------
\* The primitives.

Primitive(p) ==
  /\ stage \in {"ingress", "egress"}
  /\ ~packet.exit
  /\ primitives < MaxPrimitives
  /\ primitives' = primitives + 1
  /\ packet' = p
  /\ UNCHANGED <<waiting, queued, stage, passes>>

\* Those of simple_switch, which write the packet registers.
clone_pkt(session, list) ==
  Primitive([packet EXCEPT !.registers =
    set(CLONE_FIELD_LIST, set(CLONE_MIRROR_SESSION_ID, @, session \cup MIRROR_SESSION_ID_VALID_MASK), list)])

ask(field, id) == Primitive([packet EXCEPT !.registers = set(field, @, id)])

\* Those of primitives.cpp.
drop == Primitive([packet EXCEPT !.egress_spec = "drop_port", !.mcast_grp = 0])

exit == Primitive([packet EXCEPT !.exit = TRUE])

\* Mutant: the length grows again for a header that is there already.
add_header_again(h) == Primitive([packet EXCEPT !.valid = @ \cup {h}, !.length = @ + nbytes[h]])

add_header(h) ==
  Primitive(IF h \in packet.valid THEN packet
            ELSE [packet EXCEPT !.valid = @ \cup {h}, !.length = @ + nbytes[h]])

add_header_fast(h) == Primitive([packet EXCEPT !.valid = @ \cup {h}, !.measured = FALSE])

remove_header(h) ==
  Primitive(IF h \in packet.valid THEN [packet EXCEPT !.valid = @ \ {h}, !.length = @ - nbytes[h]]
            ELSE packet)

copy_header(dst, src) ==
  Primitive([packet EXCEPT !.valid = IF src \in @ THEN @ \cup {dst} ELSE @ \ {dst}, !.measured = FALSE])

modify_egress_spec(spec) == Primitive([packet EXCEPT !.egress_spec = spec])

\* The cloning, digest, resubmit and recirculate primitives of this file
\* write metadata that neither pipeline reads; the others write headers,
\* counters and registers that decide nothing here.
other_primitive == Primitive(packet)

set_mcast_grp(group) == Primitive([packet EXCEPT !.mcast_grp = group])

Program ==
  \/ \E session \in SessionIds, list \in Ids : clone_pkt(session, list)
  \/ \E field \in {LF_FIELD_LIST, RESUBMIT_FLAG, RECIRCULATE_FLAG}, id \in Ids : ask(field, id)
  \/ drop
  \/ exit
  \/ other_primitive
  \/ \E spec \in {"zero", "drop_port"} : modify_egress_spec(spec)
  \/ \E h \in Headers : add_header(h) \/ add_header_fast(h) \/ remove_header(h)
  \/ \E dst, src \in Headers : dst # src /\ copy_header(dst, src)
  \/ \E group \in {0, 1} : set_mcast_grp(group)

-----------------------------------------------------------------------------
\* The end of the pipelines.

Finish(from) ==
  /\ stage = from
  /\ stage' = "idle"
  /\ packet' = NoPacket
  /\ UNCHANGED <<primitives, passes>>

Resubmitted == get(RESUBMIT_FLAG, packet.registers) # {}
Recirculated == get(RECIRCULATE_FLAG, packet.registers) # {}

IngressResubmit ==
  /\ Finish("ingress")
  /\ Resubmitted
  /\ waiting' = waiting \cup {Fresh(packet.data, packet.registers, packet.arrived)}
  /\ queued' = queued \cup ClonesAtIngress(packet)

IngressMulticast ==
  /\ Finish("ingress")
  /\ ~Resubmitted
  /\ packet.mcast_grp # 0
  /\ queued' = queued \cup ClonesAtIngress(packet)
               \cup multicast([packet EXCEPT !.registers = Answered(@), !.exit = FALSE])
  /\ UNCHANGED waiting

IngressDrop ==
  /\ Finish("ingress")
  /\ ~Resubmitted
  /\ packet.mcast_grp = 0
  /\ packet.egress_spec = "drop_port"
  /\ queued' = queued \cup ClonesAtIngress(packet)
  /\ UNCHANGED waiting

IngressForward ==
  /\ Finish("ingress")
  /\ ~Resubmitted
  /\ packet.mcast_grp = 0
  /\ packet.egress_spec # "drop_port"
  /\ queued' = queued \cup ClonesAtIngress(packet)
               \cup {[packet EXCEPT !.registers = Answered(@), !.exit = FALSE]}
  /\ UNCHANGED waiting

EgressDrop ==
  /\ Finish("egress")
  /\ packet.egress_spec = "drop_port"
  /\ queued' = queued \cup ClonesAtEgress(packet)
  /\ UNCHANGED waiting

\* The packet is deparsed: its data are now the valid headers.
EgressRecirculate ==
  /\ Finish("egress")
  /\ packet.egress_spec # "drop_port"
  /\ Recirculated
  /\ waiting' = waiting \cup {Fresh(packet.valid, packet.registers, SizeOf(packet.valid))}
  /\ queued' = queued \cup ClonesAtEgress(packet)

EgressOutput ==
  /\ Finish("egress")
  /\ packet.egress_spec # "drop_port"
  /\ ~Recirculated
  /\ queued' = queued \cup ClonesAtEgress(packet)
  /\ UNCHANGED waiting

Next ==
  \/ Receive \/ IngressStart \/ EgressStart \/ Program
  \/ IngressResubmit \/ IngressMulticast \/ IngressDrop \/ IngressForward
  \/ EgressDrop \/ EgressRecirculate \/ EgressOutput

Spec == Init /\ [][Next]_vars

-----------------------------------------------------------------------------
(***************************************************************************)
(* The variables have their types.  Of the values the code can produce     *)
(* only those fit that setting a field leaves within its 16 bits           *)
(* (register_access.h 83).                                                 *)
(***************************************************************************)
TypeOK ==
  /\ waiting \subseteq Packet
  /\ queued \subseteq Packet
  /\ stage \in {"idle", "ingress", "egress"}
  /\ packet \in Packet
  /\ primitives \in 0 .. MaxPrimitives
  /\ passes \in 0 .. MaxPasses

(***************************************************************************)
(* A packet in front of the ingress pipeline asks for nothing: what it was *)
(* resubmitted or recirculated for is not done again on the next pass      *)
(* (p4-model.cc 1014, 1231), and what a register held before the packet    *)
(* arrived is not taken for a request (1287).                              *)
(***************************************************************************)
ArrivalsAskNothing == \A p \in waiting : AsksNothing(p.registers)

(***************************************************************************)
(* A packet between the pipelines has no clone or resubmit request left:   *)
(* what ingress was asked for has been answered and egress does not answer *)
(* it a second time (p4-model.cc 951).  The exit of the ingress program    *)
(* does not keep the egress program from running (930).                    *)
(***************************************************************************)
AnsweredOnce ==
  \A p \in queued :
    /\ get(CLONE_MIRROR_SESSION_ID, p.registers) = {}
    /\ get(CLONE_FIELD_LIST, p.registers) = {}
    /\ get(RESUBMIT_FLAG, p.registers) = {}
    /\ ~p.exit

(***************************************************************************)
(* Register 0 is the number of bytes the packet has once it is deparsed,   *)
(* through all copies, as long as the program adds and removes headers     *)
(* with the primitives that keep it (comment at p4-model.cc 1291).         *)
(***************************************************************************)
LengthIsDeparsed ==
  /\ \A p \in waiting : p.length = SizeOf(p.data)
  /\ \A p \in queued \cup (IF stage = "idle" THEN {} ELSE {packet}) :
       p.measured => p.length = SizeOf(p.valid)

(***************************************************************************)
(* Setting one value of a register leaves the four others as they are      *)
(* (register_access.h 80): a primitive changes the requests it names only. *)
(***************************************************************************)
RequestsIndependent ==
  [][primitives' = primitives + 1 =>
       \/ \A field \in Fields \ {CLONE_MIRROR_SESSION_ID, CLONE_FIELD_LIST} :
            get(field, packet'.registers) = get(field, packet.registers)
       \/ \E f \in Fields : \A field \in Fields \ {f} :
            get(field, packet'.registers) = get(field, packet.registers)]_vars
=============================================================================
