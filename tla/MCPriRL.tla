------------------------------- MODULE MCPriRL -------------------------------
(***************************************************************************)
(* NSQueueingLogicPriRL on small instances.                                *)
(***************************************************************************)
EXTENDS NSQueueingLogicPriRL

CONSTANT MaxConfigures   \* bound: calls of the set_ functions in a behaviour

VARIABLE configures

MCInit == Init /\ configures = 0

MCNext ==
  \/ (Push \/ Pop \/ Tick) /\ UNCHANGED configures
  \/ configures < MaxConfigures /\ Configure /\ configures' = configures + 1

MCSpec == MCInit /\ [][MCNext]_<<vars, configures>>

MCFairSpec == MCSpec /\ Fairness

\* The comments of set_rate and the class: "Until this function is called,
\* there will be no rate limit for the queue".  If no rate but 0 is ever set
\* an element is due the moment it is accepted.
NoRateLimitByDefault ==
  Rates \subseteq {0} =>
    \A w \in Workers, p \in Priorities : \A x \in workers_info[w].queues[p] : x.send <= now
=============================================================================
