------------------------ MODULE NSQueueingLogicPriRL ------------------------
(***************************************************************************)
(* The egress buffers of the switch: class NSQueueingLogicPriRL of         *)
(* model/p4-model.h.  Each egress port is a logical queue, created the     *)
(* first time it is named; a logical queue is NbPriorities rate-limited    *)
(* queues of bounded capacity.  The elements of all the logical queues of  *)
(* one worker that have the same priority wait in ONE std::priority_queue, *)
(* ordered by the time they may be sent.                                   *)
(*                                                                         *)
(* The simulator runs one event at a time, so each member function is one  *)
(* atomic action; the mutex is always free.                                *)
(***************************************************************************)
EXTENDS Naturals, FiniteSets

CONSTANTS
  QueueIds,         \* the logical queues (egress ports) that callers name
  NbWorkers,        \* nb_workers
  NbPriorities,     \* nb_priorities
  Items,            \* what is queued
  InitCapacity,     \* the capacity given to the constructor
  Capacities,       \* the arguments of the set_capacity functions
  Rates,            \* the arguments of the set_rate functions, in packets/s
  TicksPerMs,       \* resolution of the model's clock
  MaxNow,           \* bound: the clock stops here
  MaxPushes         \* bound: accepted pushes per worker

ASSUME PriRLAssumption ==
  /\ QueueIds \subseteq Nat
  /\ NbWorkers \in Nat \ {0}
  /\ NbPriorities \in 1 .. 32          \* std::array<MyQ, 32>
  /\ InitCapacity \in Nat
  /\ Capacities \subseteq Nat
  /\ Rates \subseteq Nat
  /\ TicksPerMs \in Nat
  /\ MaxNow \in Nat
  /\ MaxPushes \in Nat

VARIABLES
  now,              \* Simulator::Now()
  capacity,         \* the capacity of the queues still to be created
  queue_rate_pps,   \* the rate of the queues still to be created
  queues_info,      \* the logical queues created so far
  workers_info      \* per worker, the elements that wait, per priority

vars == <<now, capacity, queue_rate_pps, queues_info, workers_info>>

Priorities == 0 .. NbPriorities - 1
Workers == 0 .. NbWorkers - 1

\* EgressThreadMapper: the worker that serves an egress port.
map_to_worker(q) == q % NbWorkers

\* The time one packet takes at pps packets per second, to the tick.
rate_to_time(pps) ==
  IF pps = 0 THEN TicksPerMs ELSE (1000 * TicksPerMs) \div pps

-----------------------------------------------------------------------------
QueueInfoPri ==
  [size : Nat, capacity : Nat, pkt_delay_time : Nat, last_sent : Nat]
QueueInfo == [size : Nat, pri : [Priorities -> QueueInfoPri]]
QE == [e : Items, queue_id : QueueIds, send : Nat, id : Nat]
WorkerInfo ==
  [size : Nat, queues : [Priorities -> SUBSET QE], wrapping_counter : Nat]

\* A logical queue as get_queue creates it, at this moment.
NewQueueInfo ==
  [size |-> 0,
   pri  |-> [p \in Priorities |->
              [size |-> 0, capacity |-> capacity,
               pkt_delay_time |-> rate_to_time(queue_rate_pps),
               last_sent |-> now]]]

get_queue(q) ==
  IF q \in DOMAIN queues_info THEN queues_info[q] ELSE NewQueueInfo

\* queues_info once logical queue q, which exists from now on, is info.
WithQueue(q, info) ==
  [r \in DOMAIN queues_info \cup {q} |-> IF r = q THEN info ELSE queues_info[r]]

\* Mutants of get_next_tp: the packet time left out of the comparison; the
\* element sent last forgotten.
get_next_tp_compares_last_sent(pri) ==
  IF now > pri.last_sent THEN now ELSE pri.last_sent + pri.pkt_delay_time
get_next_tp_from_now(pri) == now + pri.pkt_delay_time

\* The earliest time the next element of a priority queue may be sent.
get_next_tp(pri) ==
  IF now > pri.last_sent + pri.pkt_delay_time
    THEN now ELSE pri.last_sent + pri.pkt_delay_time

\* QEComp: x is served before y.
Before(x, y) == x.send < y.send \/ (x.send = y.send /\ x.id < y.id)

-----------------------------------------------------------------------------
\* A full priority queue refuses the element; the logical queue it belongs to
\* has been created by then.
PushRefused(q, p) ==
  /\ get_queue(q).pri[p].size >= get_queue(q).pri[p].capacity
  /\ queues_info' = WithQueue(q, get_queue(q))
  /\ UNCHANGED <<now, capacity, queue_rate_pps, workers_info>>

\* Mutant of PushAccepted: one element too many.
PushAcceptedWhenFull(q, p, item) ==
  LET w    == map_to_worker(q)
      send == get_next_tp(get_queue(q).pri[p])
  IN  /\ get_queue(q).pri[p].size <= get_queue(q).pri[p].capacity
      /\ workers_info[w].wrapping_counter < MaxPushes
      /\ queues_info' =
           WithQueue(q, [get_queue(q) EXCEPT !.size = @ + 1,
                                             !.pri[p].size = @ + 1,
                                             !.pri[p].last_sent = send])
      /\ workers_info' =
           [workers_info EXCEPT
              ![w].queues[p] = @ \cup {[e |-> item, queue_id |-> q, send |-> send,
                                        id |-> workers_info[w].wrapping_counter]},
              ![w].wrapping_counter = @ + 1,
              ![w].size = @ + 1]
      /\ UNCHANGED <<now, capacity, queue_rate_pps>>

PushAccepted(q, p, item) ==
  LET w    == map_to_worker(q)
      send == get_next_tp(get_queue(q).pri[p])
  IN  /\ get_queue(q).pri[p].size < get_queue(q).pri[p].capacity
      /\ workers_info[w].wrapping_counter < MaxPushes
      /\ queues_info' =
           WithQueue(q, [get_queue(q) EXCEPT !.size = @ + 1,
                                             !.pri[p].size = @ + 1,
                                             !.pri[p].last_sent = send])
      /\ workers_info' =
           [workers_info EXCEPT
              ![w].queues[p] = @ \cup {[e |-> item, queue_id |-> q, send |-> send,
                                        id |-> workers_info[w].wrapping_counter]},
              ![w].wrapping_counter = @ + 1,
              ![w].size = @ + 1]
      /\ UNCHANGED <<now, capacity, queue_rate_pps>>

\* push_front(q, p, item)
PushFront(q, p, item) == PushRefused(q, p) \/ PushAccepted(q, p, item)

\* Mutant of Served: the loop over the priorities stops one short.
ServedAboveLowest(w, p, x) ==
  /\ workers_info[w].size > 0
  /\ p < NbPriorities - 1
  /\ x \in workers_info[w].queues[p]
  /\ \A y \in workers_info[w].queues[p] \ {x} : Before(x, y)
  /\ x.send <= now
  /\ \A h \in 0 .. p - 1 : \A y \in workers_info[w].queues[h] : y.send > now

\* Element x of priority queue p is what pop_back takes: the first of its
\* priority queue, due, and no higher priority (a lower number) has a due one.
Served(w, p, x) ==
  /\ workers_info[w].size > 0
  /\ x \in workers_info[w].queues[p]
  /\ \A y \in workers_info[w].queues[p] \ {x} : Before(x, y)
  /\ x.send <= now
  /\ \A h \in 0 .. p - 1 : \A y \in workers_info[w].queues[h] : y.send > now

\* Mutants of PopBack: the counter of priority 0 goes down whatever priority
\* was served; the element is handed out but stays queued.
PopBackCountsPriorityZero(w) ==
  \E p \in Priorities : \E x \in workers_info[w].queues[p] :
    /\ Served(w, p, x)
    /\ workers_info' = [workers_info EXCEPT ![w].queues[p] = @ \ {x},
                                            ![w].size = @ - 1]
    /\ queues_info' = [queues_info EXCEPT ![x.queue_id].pri[0].size = @ - 1,
                                          ![x.queue_id].size = @ - 1]
    /\ UNCHANGED <<now, capacity, queue_rate_pps>>
PopBackKeepsElement(w) ==
  \E p \in Priorities : \E x \in workers_info[w].queues[p] :
    /\ Served(w, p, x)
    /\ workers_info' = [workers_info EXCEPT ![w].size = @ - 1]
    /\ queues_info' = [queues_info EXCEPT ![x.queue_id].pri[p].size = @ - 1,
                                          ![x.queue_id].size = @ - 1]
    /\ UNCHANGED <<now, capacity, queue_rate_pps>>

\* pop_back(w), when it returns an element.  When nothing is due it returns
\* without writing anything, which is a stuttering step.
PopBack(w) ==
  \E p \in Priorities : \E x \in workers_info[w].queues[p] :
    /\ Served(w, p, x)
    /\ workers_info' = [workers_info EXCEPT ![w].queues[p] = @ \ {x},
                                            ![w].size = @ - 1]
    /\ queues_info' = [queues_info EXCEPT ![x.queue_id].pri[p].size = @ - 1,
                                          ![x.queue_id].size = @ - 1]
    /\ UNCHANGED <<now, capacity, queue_rate_pps>>

-----------------------------------------------------------------------------
\* A priority queue with a new capacity, or a new rate: what is already
\* queued, and the time it will be sent, does not change.
SetCapacityFn(pri, c) == [pri EXCEPT !.capacity = c]
SetRateFn(pri, pps) == [pri EXCEPT !.pkt_delay_time = rate_to_time(pps)]

\* set_capacity(q, p, c)
SetPriorityCapacity(q, p, c) ==
  /\ queues_info' = WithQueue(q, [get_queue(q) EXCEPT !.pri[p] = SetCapacityFn(@, c)])
  /\ UNCHANGED <<now, capacity, queue_rate_pps, workers_info>>

\* set_capacity(q, c)
SetQueueCapacity(q, c) ==
  /\ queues_info' =
       WithQueue(q, [get_queue(q) EXCEPT
                       !.pri = [p \in Priorities |-> SetCapacityFn(@[p], c)]])
  /\ UNCHANGED <<now, capacity, queue_rate_pps, workers_info>>

\* set_capacity_for_all(c)
SetCapacityForAll(c) ==
  /\ queues_info' =
       [q \in DOMAIN queues_info |-> [queues_info[q] EXCEPT
          !.pri = [p \in Priorities |-> SetCapacityFn(@[p], c)]]]
  /\ capacity' = c
  /\ UNCHANGED <<now, queue_rate_pps, workers_info>>

\* set_rate(q, p, pps)
SetPriorityRate(q, p, pps) ==
  /\ queues_info' = WithQueue(q, [get_queue(q) EXCEPT !.pri[p] = SetRateFn(@, pps)])
  /\ UNCHANGED <<now, capacity, queue_rate_pps, workers_info>>

\* set_rate(q, pps)
SetQueueRate(q, pps) ==
  /\ queues_info' =
       WithQueue(q, [get_queue(q) EXCEPT
                       !.pri = [p \in Priorities |-> SetRateFn(@[p], pps)]])
  /\ UNCHANGED <<now, capacity, queue_rate_pps, workers_info>>

\* set_rate_for_all(pps)
SetRateForAll(pps) ==
  /\ queues_info' =
       [q \in DOMAIN queues_info |-> [queues_info[q] EXCEPT
          !.pri = [p \in Priorities |-> SetRateFn(@[p], pps)]]]
  /\ queue_rate_pps' = pps
  /\ UNCHANGED <<now, capacity, workers_info>>

\* The simulator advances its clock to a later event.
Tick ==
  /\ now < MaxNow
  /\ now' = now + 1
  /\ UNCHANGED <<capacity, queue_rate_pps, queues_info, workers_info>>

-----------------------------------------------------------------------------
Init ==
  /\ now = 0
  /\ capacity = InitCapacity
  /\ queue_rate_pps = 0
  /\ queues_info = [q \in {} |-> NewQueueInfo]
  /\ workers_info = [w \in Workers |->
                       [size |-> 0, queues |-> [p \in Priorities |-> {}],
                        wrapping_counter |-> 0]]

Push == \E q \in QueueIds, p \in Priorities, item \in Items : PushFront(q, p, item)

Pop == \E w \in Workers : PopBack(w)

Configure ==
  \/ \E q \in QueueIds, p \in Priorities, c \in Capacities :
        SetPriorityCapacity(q, p, c)
  \/ \E q \in QueueIds, c \in Capacities : SetQueueCapacity(q, c)
  \/ \E c \in Capacities : SetCapacityForAll(c)
  \/ \E q \in QueueIds, p \in Priorities, pps \in Rates : SetPriorityRate(q, p, pps)
  \/ \E q \in QueueIds, pps \in Rates : SetQueueRate(q, pps)
  \/ \E pps \in Rates : SetRateForAll(pps)

Next == Push \/ Pop \/ Configure \/ Tick

Spec == Init /\ [][Next]_vars

\* The egress timer keeps calling pop_back for every worker, and simulated
\* time passes as long as events are scheduled.
Fairness == WF_vars(Tick) /\ \A w \in Workers : WF_vars(PopBack(w))

-----------------------------------------------------------------------------
TypeOK ==
  /\ now \in Nat
  /\ capacity \in Nat
  /\ queue_rate_pps \in Nat
  /\ DOMAIN queues_info \subseteq QueueIds
  /\ queues_info \in [DOMAIN queues_info -> QueueInfo]
  /\ workers_info \in [Workers -> WorkerInfo]

\* Everything a worker holds.
Contents(w) == UNION {workers_info[w].queues[p] : p \in Priorities}

\* The three occupancy counters of push_front and pop_back never drift from
\* what is really queued: a worker whose counter read 0 too early would never
\* be served again (the early return of pop_back), and a priority queue whose
\* counter ran high would refuse elements for ever.
SizesMatchContents ==
  /\ \A w \in Workers : workers_info[w].size = Cardinality(Contents(w))
  /\ \A q \in DOMAIN queues_info :
       LET w == map_to_worker(q)
       IN  /\ queues_info[q].size =
                Cardinality({x \in Contents(w) : x.queue_id = q})
           /\ \A p \in Priorities : queues_info[q].pri[p].size =
                Cardinality({x \in workers_info[w].queues[p] : x.queue_id = q})

\* The element that leaves a priority queue is the one that entered it first,
\* although it shares its std::priority_queue with every other port, whatever
\* happens to the rates in between.
Fifo ==
  [][\A w \in Workers, p \in Priorities :
       \A x \in workers_info[w].queues[p] \ workers_info'[w].queues[p] :
         \A y \in workers_info'[w].queues[p] :
           x.queue_id = y.queue_id => x.id < y.id]_vars

\* A priority queue grows only up to the capacity it has when it grows.
GrowsWithinCapacity ==
  [][\A q \in DOMAIN queues_info', p \in Priorities :
       queues_info'[q].pri[p].size > get_queue(q).pri[p].size
         => queues_info'[q].pri[p].size <= queues_info'[q].pri[p].capacity]_vars

\* As long as the rate of a priority queue does not change, the elements it
\* holds are due at least one packet time apart.
SpacedByRate ==
  [][\A w \in Workers, p \in Priorities :
       \A y \in workers_info'[w].queues[p] \ workers_info[w].queues[p] :
         \A x \in workers_info[w].queues[p] :
           x.queue_id = y.queue_id =>
             y.send >= x.send + get_queue(y.queue_id).pri[p].pkt_delay_time]_vars

\* Every element that is due is served, also on the lowest priority: the
\* number of pushes being finite, no higher priority can starve it for ever.
DueIsServed ==
  \A w \in Workers, p \in Priorities, i \in 0 .. MaxPushes - 1 :
    (\E x \in workers_info[w].queues[p] : x.id = i /\ x.send <= now)
      ~> (\A x \in workers_info[w].queues[p] : x.id # i)

-----------------------------------------------------------------------------
(* What the rest of the switch sees: bounded FIFO queues.                  *)

\* The elements of logical queue q and priority p.
Held(q, p) == {x \in workers_info[map_to_worker(q)].queues[p] : x.queue_id = q}

\* How many elements of S have been numbered before x.
Rank(S, x) == Cardinality({y \in S : y.id < x.id})

\* The elements of S in the order they arrived in.
Waiting(S) == [i \in 1 .. Cardinality(S) |-> CHOOSE x \in S : Rank(S, x) = i - 1]

\* Each of them with its number, which no two elements of a worker share.
Shown(S) ==
  LET waiting == Waiting(S)
  IN  [i \in DOMAIN waiting |-> <<waiting[i].e, waiting[i].id>>]

\* The queue of each logical queue and priority, and its limit; a logical queue
\* that has not been created yet will get the default capacity.
ShownQueues == [s \in QueueIds \X Priorities |-> Shown(Held(s[1], s[2]))]
ShownLimits == [s \in QueueIds \X Priorities |-> get_queue(s[1]).pri[s[2]].capacity]

Abs == INSTANCE DropTailQueues WITH
  Items <- Items \X (0 .. MaxPushes),
  InitLimit <- InitCapacity,
  Limits <- Capacities,
  queue <- ShownQueues,
  limit <- ShownLimits

\* NSQueueingLogicPriRL implements the bounded FIFO queues that P4Model is
\* built on: it refuses an element exactly when the queue is at its current
\* capacity, delivers in order, and never loses or duplicates an element.
RefinesDropTail == Abs!Spec
=============================================================================
