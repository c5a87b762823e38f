--------------------------- MODULE DropTailQueues ---------------------------
(***************************************************************************)
(* What the egress buffers promise to the rest of the switch, with neither *)
(* clock nor counters: for every egress port and priority a bounded FIFO   *)
(* queue that refuses what does not fit.  NSQueueingLogicPriRL implements  *)
(* it (RefinesDropTail); P4Model is built on it.                          *)
(*                                                                         *)
(* Which queue is served, and when, is left open: it depends on rates and  *)
(* on the clock.                                                           *)
(***************************************************************************)
EXTENDS Naturals, Sequences

CONSTANTS QueueIds, Priorities, Items, InitLimit, Limits

VARIABLES
  queue,    \* the elements of each queue, oldest first
  limit     \* the number of elements from which a queue refuses more

vars == <<queue, limit>>

Slots == QueueIds \X Priorities

Init ==
  /\ queue = [s \in Slots |-> <<>>]
  /\ limit = [s \in Slots |-> InitLimit]

Fits(s) == Len(queue[s]) < limit[s]

\* The queues once the item has been offered to queue s of the queues given.
Offered(queues, s, item) ==
  IF Len(queues[s]) < limit[s]
    THEN [queues EXCEPT ![s] = Append(@, item)] ELSE queues

\* Queue s once n items, all alike, have been offered to it one by one.
Filled(queues, s, item, n) ==
  LET room  == IF Len(queues[s]) < limit[s] THEN limit[s] - Len(queues[s]) ELSE 0
      taken == IF n <= room THEN n ELSE room
  IN  queues[s] \o [i \in 1 .. taken |-> item]

Put(s, item) ==
  /\ Fits(s)
  /\ queue' = Offered(queue, s, item)
  /\ UNCHANGED limit

Serve(s) ==
  /\ queue[s] # <<>>
  /\ queue' = [queue EXCEPT ![s] = Tail(@)]
  /\ UNCHANGED limit

\* One queue, all the priorities of a port, or everything, gets a new limit.
SetLimit(S, c) ==
  /\ limit' = [s \in Slots |-> IF s \in S THEN c ELSE limit[s]]
  /\ UNCHANGED queue

Next ==
  \/ \E s \in Slots, item \in Items : Put(s, item)
  \/ \E s \in Slots : Serve(s)
  \/ \E c \in Limits :
       \/ \E s \in Slots : SetLimit({s}, c)
       \/ \E q \in QueueIds : SetLimit({q} \X Priorities, c)
       \/ SetLimit(Slots, c)

Spec == Init /\ [][Next]_vars
=============================================================================
