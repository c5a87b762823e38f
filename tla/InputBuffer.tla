----------------------------- MODULE InputBuffer -----------------------------
(***************************************************************************)
(* Class P4Model::InputBuffer of model/p4-model.cc: what waits for the     *)
(* ingress pipeline.  Packets that arrive wait in queue lo; packets that   *)
(* are resubmitted or recirculated wait in queue hi, which is served       *)
(* first.  A buffer is a record [hi, lo] of two sequences, oldest first;   *)
(* its operations are functions, because one event of the switch may both  *)
(* take a packet out and put one in.                                       *)
(***************************************************************************)
EXTENDS Naturals, Sequences

CONSTANTS
  capacity_hi,    \* the constructor's first argument
  capacity_lo     \* its second

PacketType == {"NORMAL", "RESUBMIT", "RECIRCULATE", "SENTINEL"}

Empty == [hi |-> <<>>, lo |-> <<>>]

\* The queue a packet type goes to, the capacity it has, and whether the
\* caller waits when it is full.
queue_of(type) == IF type = "NORMAL" THEN "lo" ELSE "hi"
capacity_of(type) == IF type = "NORMAL" THEN capacity_lo ELSE capacity_hi
blocking(type) == type \in {"NORMAL", "SENTINEL"}

IsFull(buffer, type) == Len(buffer[queue_of(type)]) = capacity_of(type)

\* The caller of push_front sleeps on the condition variable.
Blocks(buffer, type) == IsFull(buffer, type) /\ blocking(type)

\* Mutant of push_front: the packet goes where the next one is taken from.
push_back(buffer, type, item) ==
  IF IsFull(buffer, type)
    THEN buffer
    ELSE [buffer EXCEPT ![queue_of(type)] = <<item>> \o @]

\* The buffer after push_front: one that is full keeps what it has, whether
\* the caller waits or the packet is dropped.
push_front(buffer, type, item) ==
  IF IsFull(buffer, type)
    THEN buffer
    ELSE [buffer EXCEPT ![queue_of(type)] = Append(@, item)]

IsEmpty(buffer) == buffer.hi = <<>> /\ buffer.lo = <<>>

\* Mutant of served: the arrivals first.
served_normal_first(buffer) == IF buffer.lo # <<>> THEN "lo" ELSE "hi"

\* The queue pop_back takes from.
served(buffer) == IF buffer.hi # <<>> THEN "hi" ELSE "lo"

\* The packet pop_back takes out, and the buffer it leaves.
back(buffer) == Head(buffer[served(buffer)])
pop_back(buffer) == [buffer EXCEPT ![served(buffer)] = Tail(@)]

\* get_size: not what waits, but what could.
get_size == capacity_hi + capacity_lo
=============================================================================
