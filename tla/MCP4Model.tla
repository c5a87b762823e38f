------------------------------ MODULE MCP4Model ------------------------------
(***************************************************************************)
(* P4Model on small instances: which outcomes the P4 program may have, and *)
(* which groups and mirroring sessions are configured.                     *)
(***************************************************************************)
EXTENDS P4Model, TLC

CONSTANTS
  FieldLists,    \* {TRUE}: the field lists name the ns-3 metadata; {FALSE}: not
  MaxConfigures  \* bound: calls of the control plane in a behaviour

VARIABLE configures

MCInit == Init /\ configures = 0

MCNext ==
  \/ (Simulation \/ Destroy) /\ UNCHANGED configures
  \/ configures < MaxConfigures /\ ControlPlane /\ configures' = configures + 1

MCSpec == MCInit /\ [][MCNext]_<<vars, configures>>

MCFairSpec == MCSpec /\ Fairness

\* Multicast group 1 has two copies for port 1.
MCGroups == [g \in {0, 1} |-> [port \in Ports |-> IF g = 1 /\ port = 1 THEN 2 ELSE 0]]

MCMirrorConfigs ==
  {[mgid_valid |-> FALSE, mgid |-> 0, egress_port_valid |-> TRUE, egress_port |-> 1],
   [mgid_valid |-> TRUE, mgid |-> 1, egress_port_valid |-> TRUE, egress_port |-> 0]}

Ingress(spec, priority, clone, mgid, resubmit) ==
  {[egress_spec |-> spec, priority |-> priority, clone |-> clone, mgid |-> mgid,
    resubmit |-> resubmit, keeps |-> k] : k \in FieldLists}

Egress(spec, clone, recirculate) ==
  {[egress_spec |-> spec, clone |-> clone, recirculate |-> recirculate,
    keeps |-> k] : k \in FieldLists}

\* Forward to either port, with a priority that exists or not; drop; clone and
\* drop; multicast; clone and resubmit.
MCIngressOutcomes ==
  UNION {Ingress(0, 1, None, 0, FALSE), Ingress(1, 1, None, 0, FALSE),
         Ingress(1, 2, None, 0, FALSE), Ingress(drop_port, 0, None, 0, FALSE),
         Ingress(drop_port, 0, 0, 0, FALSE), Ingress(0, 1, None, 1, FALSE),
         Ingress(0, 0, 0, 0, TRUE)}

MCEgressOutcomes ==
  UNION {Egress(0, None, FALSE), Egress(drop_port, None, FALSE),
         Egress(0, 0, TRUE)}

\* For the runs about liveness: forward to a port that is looked at or not;
\* resubmit.  Recirculate; send.
LiveIngressOutcomes ==
  UNION {Ingress(1, 0, None, 0, FALSE), Ingress(8, 0, None, 0, FALSE),
         Ingress(0, 0, None, 0, TRUE)}

LiveEgressOutcomes == UNION {Egress(0, None, FALSE), Egress(0, None, TRUE)}

\* Every address is like every other.
Addresses == Permutations(Destinations)
=============================================================================
