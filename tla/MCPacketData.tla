---------------------------- MODULE MCPacketData ----------------------------
(***************************************************************************)
(* PacketPass with one mirroring session that copies both to a group and   *)
(* to a port and one that is not configured, two headers of different      *)
(* sizes, and programs of two primitives.  The conversions and the         *)
(* hashes are checked beside it, in behaviours of their own: keys of up to *)
(* two bytes, 16-bit numbers around all powers of two and others.          *)
(***************************************************************************)
EXTENDS PacketPass, Conversions, KeyHash, TLC

MCSessionIds == {{0}, {14}}
MCMirroring == {0} :> [mgid_valid |-> TRUE, egress_port_valid |-> TRUE]
MCIds == {{0, 15}}
MCNbytes == [h \in {"eth", "ip"} |-> IF h = "eth" THEN 14 ELSE 20]
MCStale == {[i \in {1, 2} |-> 0 .. 63]}

MCKeys == UNION {[1 .. n -> {{}, {0}, {7}, {1, 2, 5}, 0 .. 7}] : n \in 1 .. 2}
MCNumbers ==
  {num \in 0 .. 65535 : num % 131 = 0 \/ \E i \in 0 .. 16 : num \in {2 ^ i - 1, 2 ^ i, 2 ^ i + 1}}

MCInit ==
  /\ Init
  /\ \/ input = <<>> /\ hash = NoHash
     \/ ConversionsInit /\ hash = NoHash
     \/ input = <<>> /\ HashInit

MCNext ==
  \/ input = <<>> /\ hash = NoHash /\ Next /\ UNCHANGED <<input, hash>>
  \/ HashByte /\ UNCHANGED <<vars, input>>

MCSpec == MCInit /\ [][MCNext]_<<vars, input, hash>>
=============================================================================
