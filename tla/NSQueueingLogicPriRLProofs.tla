--------------------- MODULE NSQueueingLogicPriRLProofs ---------------------
(***************************************************************************)
(* The egress buffers for every number of queues, workers and priorities,  *)
(* every capacity and every rate: the counters are right, and every        *)
(* priority queue is a FIFO queue although it shares its heap with others. *)
(***************************************************************************)
EXTENDS NSQueueingLogicPriRL, FiniteSetTheorems, SequenceTheorems, TLAPS

(***************************************************************************)
(* The inductive invariant.  SizesMatchContents keeps the counters from    *)
(* becoming negative, so that the types are right; Distinct and Attributed *)
(* are what makes the counters match; Ordered and SentInTime make the order *)
(* of the heap the order of arrival.                                       *)
(***************************************************************************)

\* An element waits with the worker that serves its logical queue, and has
\* been numbered.
Attributed ==
  \A w \in Workers, p \in Priorities : \A x \in workers_info[w].queues[p] :
    /\ x.queue_id \in DOMAIN queues_info
    /\ map_to_worker(x.queue_id) = w
    /\ x.id < workers_info[w].wrapping_counter

\* A worker gives a number to one element only.
Distinct ==
  \A w \in Workers, p, r \in Priorities :
    \A x \in workers_info[w].queues[p], y \in workers_info[w].queues[r] :
      x.id = y.id => x = y /\ p = r

\* What a worker holds is finite, for Cardinality to mean its size.
Finite == \A w \in Workers : IsFiniteSet(Contents(w))

\* In one priority queue a later element is not due before an earlier one.
Ordered ==
  \A w \in Workers, p \in Priorities :
    \A x, y \in workers_info[w].queues[p] :
      x.queue_id = y.queue_id /\ x.id < y.id => x.send <= y.send

\* The time kept for a priority queue is that of its latest element.
SentInTime ==
  \A w \in Workers, p \in Priorities : \A x \in workers_info[w].queues[p] :
    x.send <= queues_info[x.queue_id].pri[p].last_sent

IInv ==
  /\ TypeOK
  /\ Attributed
  /\ Distinct
  /\ Finite
  /\ Ordered
  /\ SentInTime
  /\ SizesMatchContents

-----------------------------------------------------------------------------
\* The time of a packet is a number of ticks, at any rate.
LEMMA RateToTimeType == \A pps \in Nat : rate_to_time(pps) \in Nat
  BY PriRLAssumption DEF rate_to_time

\* Every logical queue has a worker.
LEMMA MapToWorkerType == \A q \in QueueIds : map_to_worker(q) \in Workers
  BY PriRLAssumption DEF map_to_worker, Workers

\* get_queue returns a logical queue, old or new.
LEMMA GetQueueType ==
  ASSUME TypeOK, NEW q \in QueueIds
  PROVE  /\ get_queue(q) \in QueueInfo
         /\ q \in DOMAIN queues_info => get_queue(q) = queues_info[q]
         /\ q \notin DOMAIN queues_info =>
              /\ get_queue(q).size = 0
              /\ \A p \in Priorities : get_queue(q).pri[p].size = 0
  <1>1. rate_to_time(queue_rate_pps) \in Nat
    BY RateToTimeType DEF TypeOK
  <1>2. NewQueueInfo \in QueueInfo
    BY <1>1 DEF NewQueueInfo, QueueInfo, QueueInfoPri, TypeOK
  <1>3. NewQueueInfo.size = 0 /\ \A p \in Priorities : NewQueueInfo.pri[p].size = 0
    BY DEF NewQueueInfo
  <1>4. q \in DOMAIN queues_info => queues_info[q] \in QueueInfo
    BY DEF TypeOK
  <1> QED
    BY <1>2, <1>3, <1>4 DEF get_queue

\* The next element of a priority queue is due no earlier than the latest one.
LEMMA NextTpType ==
  ASSUME TypeOK, NEW pri \in QueueInfoPri
  PROVE  get_next_tp(pri) \in Nat /\ get_next_tp(pri) >= pri.last_sent
  BY DEF TypeOK, QueueInfoPri, get_next_tp

\* WithQueue keeps the type.
LEMMA WithQueueType ==
  ASSUME TypeOK, NEW q \in QueueIds, NEW info \in QueueInfo
  PROVE  /\ DOMAIN WithQueue(q, info) = DOMAIN queues_info \cup {q}
         /\ WithQueue(q, info)[q] = info
         /\ \A r \in DOMAIN queues_info \ {q} : WithQueue(q, info)[r] = queues_info[r]
         /\ WithQueue(q, info) \in [DOMAIN queues_info \cup {q} -> QueueInfo]
  BY DEF TypeOK, WithQueue

\* Init establishes the invariant.
LEMMA IInvInit == Init => IInv
  <1> SUFFICES ASSUME Init PROVE IInv
    OBVIOUS
  <1>1. \A w \in Workers, p \in Priorities : workers_info[w].queues[p] = {}
    BY DEF Init
  <1>2. \A w \in Workers : workers_info[w].size = 0 /\ Contents(w) = {}
    BY <1>1 DEF Init, Contents
  <1>3. DOMAIN queues_info = {}
    BY DEF Init
  <1>4. TypeOK
    BY <1>3, PriRLAssumption DEF Init, TypeOK, WorkerInfo
  <1>5. Finite
    BY <1>2, FS_EmptySet DEF Finite
  <1>6. SizesMatchContents
    BY <1>2, <1>3, FS_EmptySet DEF SizesMatchContents
  <1> QED
    BY <1>1, <1>4, <1>5, <1>6 DEF IInv, Attributed, Distinct, Ordered, SentInTime

-----------------------------------------------------------------------------
\* A step that moves no element: it may create logical queues and change
\* their capacities and rates.
Quiet ==
  /\ workers_info' = workers_info
  /\ DOMAIN queues_info \subseteq DOMAIN queues_info'
  /\ \A q \in DOMAIN queues_info' :
       LET old == get_queue(q)
       IN  /\ queues_info'[q].size = old.size
           /\ \A p \in Priorities :
                /\ queues_info'[q].pri[p].size = old.pri[p].size
                /\ queues_info'[q].pri[p].last_sent = old.pri[p].last_sent

\* Such a step keeps the invariant if it keeps the types.
LEMMA QuietKeepsIInv ==
  ASSUME IInv, TypeOK', Quiet
  PROVE  IInv'
  <1>1. \A w \in Workers : Contents(w)' = Contents(w)
    BY DEF Quiet, Contents
  <1>2. Attributed' /\ Distinct' /\ Finite' /\ Ordered'
    BY <1>1 DEF IInv, Quiet, Attributed, Distinct, Finite, Ordered
  <1>3. \A q \in DOMAIN queues_info : get_queue(q) = queues_info[q]
    BY DEF get_queue
  <1>4. SentInTime'
    BY <1>3 DEF IInv, Quiet, SentInTime, Attributed
  <1>5. SizesMatchContents'
    <2>1. \A w \in Workers : workers_info'[w].size = Cardinality(Contents(w)')
      BY <1>1 DEF IInv, Quiet, SizesMatchContents
    <2>2. ASSUME NEW q \in DOMAIN queues_info', q \in DOMAIN queues_info
          PROVE  /\ queues_info'[q].size = queues_info[q].size
                 /\ \A p \in Priorities :
                      queues_info'[q].pri[p].size = queues_info[q].pri[p].size
      BY <2>2, <1>3 DEF Quiet
    <2>3. ASSUME NEW q \in DOMAIN queues_info', q \notin DOMAIN queues_info
          PROVE  /\ queues_info'[q].size = 0
                 /\ {x \in Contents(map_to_worker(q)) : x.queue_id = q} = {}
                 /\ \A p \in Priorities :
                      /\ queues_info'[q].pri[p].size = 0
                      /\ {x \in workers_info[map_to_worker(q)].queues[p] :
                            x.queue_id = q} = {}
      <3>1. q \in QueueIds /\ map_to_worker(q) \in Workers
        BY MapToWorkerType DEF TypeOK
      <3>2. /\ queues_info'[q].size = 0
            /\ \A p \in Priorities : queues_info'[q].pri[p].size = 0
        BY <2>3, <3>1, GetQueueType DEF Quiet, IInv
      <3>3. \A p \in Priorities :
              {x \in workers_info[map_to_worker(q)].queues[p] : x.queue_id = q} = {}
        BY <2>3, <3>1 DEF IInv, Attributed
      <3>4. {x \in Contents(map_to_worker(q)) : x.queue_id = q} = {}
        BY <3>3 DEF Contents
      <3> QED
        BY <3>2, <3>3, <3>4
    <2>4. ASSUME NEW q \in DOMAIN queues_info'
          PROVE  /\ queues_info'[q].size =
                      Cardinality({x \in Contents(map_to_worker(q)) : x.queue_id = q})
                 /\ \A p \in Priorities : queues_info'[q].pri[p].size =
                      Cardinality({x \in workers_info[map_to_worker(q)].queues[p] :
                                     x.queue_id = q})
      <3>1. CASE q \in DOMAIN queues_info
        BY <3>1, <2>2 DEF IInv, SizesMatchContents
      <3>2. CASE q \notin DOMAIN queues_info
        BY <3>2, <2>3, FS_EmptySet
      <3> QED
        BY <3>1, <3>2
    <2>5. \A q \in DOMAIN queues_info' : map_to_worker(q) \in Workers
      BY MapToWorkerType DEF TypeOK
    <2>6. workers_info' = workers_info
      BY DEF Quiet
    <2> QED
      BY <1>1, <2>1, <2>4, <2>5, <2>6 DEF SizesMatchContents
  <1> QED
    BY <1>2, <1>4, <1>5 DEF IInv

-----------------------------------------------------------------------------
\* Giving one logical queue new capacities and rates is such a step.
LEMMA WithQueueIsQuiet ==
  ASSUME IInv, NEW q \in QueueIds, NEW info \in QueueInfo,
         info.size = get_queue(q).size,
         \A p \in Priorities : /\ info.pri[p].size = get_queue(q).pri[p].size
                               /\ info.pri[p].last_sent = get_queue(q).pri[p].last_sent,
         queues_info' = WithQueue(q, info),
         UNCHANGED <<now, capacity, queue_rate_pps, workers_info>>
  PROVE  IInv'
  <1>1. TypeOK
    BY DEF IInv
  <1>2. /\ DOMAIN queues_info' = DOMAIN queues_info \cup {q}
        /\ queues_info'[q] = info
        /\ \A r \in DOMAIN queues_info \ {q} : queues_info'[r] = queues_info[r]
        /\ queues_info' \in [DOMAIN queues_info' -> QueueInfo]
    BY <1>1, WithQueueType
  <1>3. TypeOK'
    BY <1>1, <1>2 DEF TypeOK
  <1>4. \A r \in DOMAIN queues_info : get_queue(r) = queues_info[r]
    BY DEF get_queue
  <1>5. Quiet
    BY <1>2, <1>4 DEF Quiet
  <1> QED
    BY <1>3, <1>5, QuietKeepsIInv

\* A priority queue with another capacity or rate.
LEMMA SetFnType ==
  ASSUME NEW pri \in QueueInfoPri, NEW n \in Nat
  PROVE  /\ SetCapacityFn(pri, n) \in QueueInfoPri
         /\ SetCapacityFn(pri, n).size = pri.size
         /\ SetCapacityFn(pri, n).last_sent = pri.last_sent
         /\ SetRateFn(pri, n) \in QueueInfoPri
         /\ SetRateFn(pri, n).size = pri.size
         /\ SetRateFn(pri, n).last_sent = pri.last_sent
  BY RateToTimeType DEF SetCapacityFn, SetRateFn, QueueInfoPri

\* A logical queue with one of its priority queues, or with all of them,
\* changed by a function that leaves the counter and the time alone.
LEMMA QueueInfoExcept ==
  ASSUME NEW info \in QueueInfo, NEW p \in Priorities, NEW pri \in QueueInfoPri
  PROVE  /\ [info EXCEPT !.pri[p] = pri] \in QueueInfo
         /\ [info EXCEPT !.pri[p] = pri].size = info.size
         /\ [info EXCEPT !.pri[p] = pri].pri[p] = pri
         /\ \A r \in Priorities \ {p} : [info EXCEPT !.pri[p] = pri].pri[r] = info.pri[r]
  BY DEF QueueInfo

LEMMA QueueInfoExceptAll ==
  ASSUME NEW info \in QueueInfo, NEW f \in [Priorities -> QueueInfoPri]
  PROVE  /\ [info EXCEPT !.pri = f] \in QueueInfo
         /\ [info EXCEPT !.pri = f].size = info.size
         /\ [info EXCEPT !.pri = f].pri = f
  BY DEF QueueInfo

\* A step of set_capacity_for_all or set_rate_for_all.
LEMMA ForAllIsQuiet ==
  ASSUME IInv, queue_rate_pps' \in Nat, capacity' \in Nat,
         UNCHANGED <<now, workers_info>>,
         NEW f \in [DOMAIN queues_info -> [Priorities -> QueueInfoPri]],
         \A q \in DOMAIN queues_info, p \in Priorities :
           /\ f[q][p].size = queues_info[q].pri[p].size
           /\ f[q][p].last_sent = queues_info[q].pri[p].last_sent,
         queues_info' = [q \in DOMAIN queues_info |-> [queues_info[q] EXCEPT !.pri = f[q]]]
  PROVE  IInv'
  <1>1. TypeOK
    BY DEF IInv
  <1>2. \A q \in DOMAIN queues_info : queues_info[q] \in QueueInfo
    BY <1>1 DEF TypeOK
  <1>3. /\ DOMAIN queues_info' = DOMAIN queues_info
        /\ \A q \in DOMAIN queues_info :
             /\ queues_info'[q] \in QueueInfo
             /\ queues_info'[q].size = queues_info[q].size
             /\ queues_info'[q].pri = f[q]
    BY <1>2, QueueInfoExceptAll
  <1>4. TypeOK'
    BY <1>1, <1>3 DEF TypeOK
  <1>5. \A r \in DOMAIN queues_info : get_queue(r) = queues_info[r]
    BY DEF get_queue
  <1>6. Quiet
    BY <1>3, <1>5 DEF Quiet
  <1> QED
    BY <1>4, <1>6, QuietKeepsIInv

\* Every call of a set_ function keeps the invariant.
LEMMA ConfigureKeepsIInv ==
  ASSUME IInv, Configure
  PROVE  IInv'
  <1>0. TypeOK
    BY DEF IInv
  <1>a. \A q \in QueueIds : get_queue(q) \in QueueInfo
    BY <1>0, GetQueueType
  <1>b. \A q \in QueueIds : \A p \in Priorities : get_queue(q).pri[p] \in QueueInfoPri
    BY <1>a DEF QueueInfo
  <1>c. \A q \in DOMAIN queues_info :
          queues_info[q] \in QueueInfo /\ \A p \in Priorities : queues_info[q].pri[p] \in QueueInfoPri
    BY <1>0 DEF TypeOK, QueueInfo
  <1>1. ASSUME NEW q \in QueueIds, NEW p \in Priorities, NEW c \in Capacities,
               SetPriorityCapacity(q, p, c)
        PROVE  IInv'
    <2> DEFINE pri == SetCapacityFn(get_queue(q).pri[p], c)
               info == [get_queue(q) EXCEPT !.pri[p] = pri]
    <2>1. /\ pri \in QueueInfoPri
          /\ pri.size = get_queue(q).pri[p].size
          /\ pri.last_sent = get_queue(q).pri[p].last_sent
      BY <1>b, SetFnType, PriRLAssumption
    <2>2. /\ info \in QueueInfo
          /\ info.size = get_queue(q).size
          /\ info.pri[p] = pri
          /\ \A r \in Priorities \ {p} : info.pri[r] = get_queue(q).pri[r]
      BY <1>a, <2>1, QueueInfoExcept
    <2>3. queues_info' = WithQueue(q, info)
      BY <1>1, Zenon DEF SetPriorityCapacity
    <2> HIDE DEF info, pri
    <2>4. \A r \in Priorities : /\ info.pri[r].size = get_queue(q).pri[r].size
                                /\ info.pri[r].last_sent = get_queue(q).pri[r].last_sent
      BY <2>1, <2>2
    <2> QED
      BY <1>1, <2>2, <2>3, <2>4, WithQueueIsQuiet DEF SetPriorityCapacity
  <1>2. ASSUME NEW q \in QueueIds, NEW p \in Priorities, NEW pps \in Rates,
               SetPriorityRate(q, p, pps)
        PROVE  IInv'
    <2> DEFINE pri == SetRateFn(get_queue(q).pri[p], pps)
               info == [get_queue(q) EXCEPT !.pri[p] = pri]
    <2>1. /\ pri \in QueueInfoPri
          /\ pri.size = get_queue(q).pri[p].size
          /\ pri.last_sent = get_queue(q).pri[p].last_sent
      BY <1>b, SetFnType, PriRLAssumption
    <2>2. /\ info \in QueueInfo
          /\ info.size = get_queue(q).size
          /\ info.pri[p] = pri
          /\ \A r \in Priorities \ {p} : info.pri[r] = get_queue(q).pri[r]
      BY <1>a, <2>1, QueueInfoExcept
    <2>3. queues_info' = WithQueue(q, info)
      BY <1>2, Zenon DEF SetPriorityRate
    <2> HIDE DEF info, pri
    <2>4. \A r \in Priorities : /\ info.pri[r].size = get_queue(q).pri[r].size
                                /\ info.pri[r].last_sent = get_queue(q).pri[r].last_sent
      BY <2>1, <2>2
    <2> QED
      BY <1>2, <2>2, <2>3, <2>4, WithQueueIsQuiet DEF SetPriorityRate
  <1>3. ASSUME NEW q \in QueueIds, NEW c \in Capacities, SetQueueCapacity(q, c)
        PROVE  IInv'
    <2> DEFINE f == [p \in Priorities |-> SetCapacityFn(get_queue(q).pri[p], c)]
               info == [get_queue(q) EXCEPT !.pri = f]
    <2>1. \A p \in Priorities : /\ f[p] \in QueueInfoPri
                                /\ f[p].size = get_queue(q).pri[p].size
                                /\ f[p].last_sent = get_queue(q).pri[p].last_sent
      BY <1>b, SetFnType, PriRLAssumption
    <2>2. info \in QueueInfo /\ info.size = get_queue(q).size /\ info.pri = f
      BY <1>a, <2>1, QueueInfoExceptAll
    <2>3. queues_info' = WithQueue(q, info)
      BY <1>3, Zenon DEF SetQueueCapacity
    <2> HIDE DEF info, f
    <2> QED
      BY <1>3, <2>1, <2>2, <2>3, WithQueueIsQuiet DEF SetQueueCapacity
  <1>4. ASSUME NEW q \in QueueIds, NEW pps \in Rates, SetQueueRate(q, pps)
        PROVE  IInv'
    <2> DEFINE f == [p \in Priorities |-> SetRateFn(get_queue(q).pri[p], pps)]
               info == [get_queue(q) EXCEPT !.pri = f]
    <2>1. \A p \in Priorities : /\ f[p] \in QueueInfoPri
                                /\ f[p].size = get_queue(q).pri[p].size
                                /\ f[p].last_sent = get_queue(q).pri[p].last_sent
      BY <1>b, SetFnType, PriRLAssumption
    <2>2. info \in QueueInfo /\ info.size = get_queue(q).size /\ info.pri = f
      BY <1>a, <2>1, QueueInfoExceptAll
    <2>3. queues_info' = WithQueue(q, info)
      BY <1>4, Zenon DEF SetQueueRate
    <2> HIDE DEF info, f
    <2> QED
      BY <1>4, <2>1, <2>2, <2>3, WithQueueIsQuiet DEF SetQueueRate
  <1>5. ASSUME NEW c \in Capacities, SetCapacityForAll(c)
        PROVE  IInv'
    <2> DEFINE f == [q \in DOMAIN queues_info |->
                       [p \in Priorities |-> SetCapacityFn(queues_info[q].pri[p], c)]]
    <2>1. \A q \in DOMAIN queues_info, p \in Priorities :
            /\ f[q][p] \in QueueInfoPri
            /\ f[q][p].size = queues_info[q].pri[p].size
            /\ f[q][p].last_sent = queues_info[q].pri[p].last_sent
      BY <1>c, SetFnType, PriRLAssumption
    <2>2. f \in [DOMAIN queues_info -> [Priorities -> QueueInfoPri]]
      BY <2>1
    <2>3. queues_info' = [q \in DOMAIN queues_info |-> [queues_info[q] EXCEPT !.pri = f[q]]]
      BY <1>5 DEF SetCapacityForAll
    <2>4. capacity' \in Nat /\ queue_rate_pps' \in Nat /\ UNCHANGED <<now, workers_info>>
      BY <1>0, <1>5, PriRLAssumption DEF SetCapacityForAll, TypeOK
    <2> HIDE DEF f
    <2> QED
      BY <2>1, <2>2, <2>3, <2>4, ForAllIsQuiet
  <1>6. ASSUME NEW pps \in Rates, SetRateForAll(pps)
        PROVE  IInv'
    <2> DEFINE f == [q \in DOMAIN queues_info |->
                       [p \in Priorities |-> SetRateFn(queues_info[q].pri[p], pps)]]
    <2>1. \A q \in DOMAIN queues_info, p \in Priorities :
            /\ f[q][p] \in QueueInfoPri
            /\ f[q][p].size = queues_info[q].pri[p].size
            /\ f[q][p].last_sent = queues_info[q].pri[p].last_sent
      BY <1>c, SetFnType, PriRLAssumption
    <2>2. f \in [DOMAIN queues_info -> [Priorities -> QueueInfoPri]]
      BY <2>1
    <2>3. queues_info' = [q \in DOMAIN queues_info |-> [queues_info[q] EXCEPT !.pri = f[q]]]
      BY <1>6 DEF SetRateForAll
    <2>4. capacity' \in Nat /\ queue_rate_pps' \in Nat /\ UNCHANGED <<now, workers_info>>
      BY <1>0, <1>6, PriRLAssumption DEF SetRateForAll, TypeOK
    <2> HIDE DEF f
    <2> QED
      BY <2>1, <2>2, <2>3, <2>4, ForAllIsQuiet
  <1> QED
    BY <1>1, <1>2, <1>3, <1>4, <1>5, <1>6 DEF Configure

\* So do the clock and a push that is refused.
LEMMA TickKeepsIInv ==
  ASSUME IInv, Tick
  PROVE  IInv'
  <1>1. TypeOK'
    BY DEF IInv, Tick, TypeOK
  <1>2. Quiet
    BY DEF Tick, Quiet, get_queue
  <1> QED
    BY <1>1, <1>2, QuietKeepsIInv

LEMMA PushRefusedKeepsIInv ==
  ASSUME IInv, NEW q \in QueueIds, NEW p \in Priorities, PushRefused(q, p)
  PROVE  IInv'
  <1>1. get_queue(q) \in QueueInfo
    BY GetQueueType DEF IInv
  <1> QED
    BY <1>1, WithQueueIsQuiet DEF PushRefused

-----------------------------------------------------------------------------
\* A logical queue with one element more in one of its priority queues.
Counted(old, p, send) ==
  [old EXCEPT !.size = @ + 1, !.pri[p].size = @ + 1, !.pri[p].last_sent = send]

LEMMA CountedType ==
  ASSUME NEW old \in QueueInfo, NEW p \in Priorities, NEW send \in Nat
  PROVE  /\ Counted(old, p, send) \in QueueInfo
         /\ Counted(old, p, send).size = old.size + 1
         /\ Counted(old, p, send).pri[p].size = old.pri[p].size + 1
         /\ Counted(old, p, send).pri[p].last_sent = send
         /\ \A r \in Priorities \ {p} : Counted(old, p, send).pri[r] = old.pri[r]
  <1> DEFINE larger == [old EXCEPT !.size = @ + 1]
             counted == [larger EXCEPT !.pri[p].size = @ + 1]
             info == [counted EXCEPT !.pri[p].last_sent = send]
  <1>1. larger \in QueueInfo /\ larger.size = old.size + 1 /\ larger.pri = old.pri
    BY DEF QueueInfo
  <1>2. /\ counted \in QueueInfo
        /\ counted.size = larger.size
        /\ counted.pri[p].size = larger.pri[p].size + 1
        /\ \A r \in Priorities \ {p} : counted.pri[r] = larger.pri[r]
    <2> HIDE DEF larger
    <2> QED
      BY <1>1 DEF QueueInfo, QueueInfoPri
  <1>3. /\ info \in QueueInfo
        /\ info.size = counted.size
        /\ info.pri[p].size = counted.pri[p].size
        /\ info.pri[p].last_sent = send
        /\ \A r \in Priorities \ {p} : info.pri[r] = counted.pri[r]
    <2> HIDE DEF counted
    <2> QED
      BY <1>2 DEF QueueInfo, QueueInfoPri
  <1>4. info = Counted(old, p, send)
    BY DEF Counted
  <1> HIDE DEF info, counted, larger
  <1> QED
    BY <1>1, <1>2, <1>3, <1>4

\* A push that is accepted: the new element is the latest of its worker, and
\* due no earlier than the others of its priority queue.
LEMMA PushAcceptedKeepsIInv ==
  ASSUME IInv, NEW q \in QueueIds, NEW p \in Priorities, NEW item \in Items,
         PushAccepted(q, p, item)
  PROVE  IInv'
  <1> DEFINE w == map_to_worker(q)
             send == get_next_tp(get_queue(q).pri[p])
             x == [e |-> item, queue_id |-> q, send |-> send,
                   id |-> workers_info[w].wrapping_counter]
             old == get_queue(q)
             info == Counted(old, p, send)
  <1>1. TypeOK /\ w \in Workers /\ old \in QueueInfo /\ old.pri[p] \in QueueInfoPri
    BY MapToWorkerType, GetQueueType DEF IInv, QueueInfo
  <1>2. send \in Nat /\ send >= old.pri[p].last_sent
    BY <1>1, NextTpType
  <1>3. x \in QE
    BY <1>1, <1>2 DEF QE, TypeOK, WorkerInfo
  <1>4. /\ info \in QueueInfo
        /\ info.size = old.size + 1
        /\ info.pri[p].size = old.pri[p].size + 1
        /\ info.pri[p].last_sent = send
        /\ \A r \in Priorities \ {p} : info.pri[r] = old.pri[r]
    BY <1>1, <1>2, CountedType
  <1>5. queues_info' = WithQueue(q, info)
    BY DEF PushAccepted, Counted
  <1>6. /\ DOMAIN queues_info' = DOMAIN queues_info \cup {q}
        /\ queues_info'[q] = info
        /\ \A r \in DOMAIN queues_info \ {q} : queues_info'[r] = queues_info[r]
        /\ queues_info' \in [DOMAIN queues_info' -> QueueInfo]
    BY <1>1, <1>4, <1>5, WithQueueType
  <1>7. /\ workers_info' \in [Workers -> WorkerInfo]
        /\ workers_info'[w].queues[p] = workers_info[w].queues[p] \cup {x}
        /\ \A r \in Priorities \ {p} : workers_info'[w].queues[r] = workers_info[w].queues[r]
        /\ workers_info'[w].wrapping_counter = workers_info[w].wrapping_counter + 1
        /\ workers_info'[w].size = workers_info[w].size + 1
        /\ \A v \in Workers \ {w} : workers_info'[v] = workers_info[v]
    BY <1>1, <1>3 DEF PushAccepted, TypeOK, WorkerInfo
  <1>8. /\ x.queue_id = q
        /\ x.id = workers_info[w].wrapping_counter
        /\ x.send = send
    OBVIOUS
  <1>9. /\ UNCHANGED <<now, capacity, queue_rate_pps>>
        /\ q \in DOMAIN queues_info => old = queues_info[q]
    BY <1>1, GetQueueType DEF PushAccepted
  <1> HIDE DEF x, info, old, send, w
  <1>10. TypeOK'
    BY <1>1, <1>6, <1>7, <1>9 DEF TypeOK
  <1>11. \A v \in Workers, r \in Priorities : \A y \in workers_info[v].queues[r] :
           /\ y.queue_id \in DOMAIN queues_info
           /\ map_to_worker(y.queue_id) = v
           /\ y.id < workers_info[v].wrapping_counter
           /\ y.id \in Nat
           /\ y.send \in Nat
    BY <1>1 DEF IInv, Attributed, TypeOK, WorkerInfo, QE
  <1>12. \A v \in Workers, r \in Priorities : \A y \in workers_info'[v].queues[r] :
           y \in workers_info[v].queues[r] \/ (v = w /\ r = p /\ y = x)
    BY <1>7
  <1>13. workers_info[w].wrapping_counter \in Nat
    BY <1>1 DEF TypeOK, WorkerInfo
  <1>14. Attributed'
    BY <1>1, <1>6, <1>7, <1>8, <1>11, <1>12, <1>13 DEF Attributed, w
  <1>15. Distinct'
    BY <1>7, <1>8, <1>11, <1>12, <1>13 DEF IInv, Distinct
  <1>16. Ordered'
    <2>1. \A y \in workers_info[w].queues[p] : y.queue_id = q => y.send <= send
      BY <1>1, <1>2, <1>9, <1>11 DEF IInv, SentInTime, QueueInfoPri
    <2> QED
      BY <1>2, <1>8, <1>11, <1>12, <1>13, <2>1 DEF IInv, Ordered
  <1>17. SentInTime'
    <2>1. ASSUME NEW v \in Workers, NEW r \in Priorities,
                 NEW y \in workers_info[v].queues[r]
          PROVE  y.send <= queues_info'[y.queue_id].pri[r].last_sent
      <3>1. y.send <= queues_info[y.queue_id].pri[r].last_sent
        BY DEF IInv, SentInTime
      <3>2. CASE y.queue_id # q
        BY <1>6, <1>11, <3>1, <3>2
      <3>3. CASE y.queue_id = q /\ r # p
        BY <1>4, <1>6, <1>9, <1>11, <3>1, <3>3
      <3>4. CASE y.queue_id = q /\ r = p
        BY <1>1, <1>2, <1>4, <1>6, <1>9, <1>11, <3>1, <3>4 DEF QueueInfoPri
      <3> QED
        BY <3>2, <3>3, <3>4
    <2>2. x.send <= queues_info'[x.queue_id].pri[p].last_sent
      BY <1>2, <1>4, <1>6, <1>8
    <2> QED
      BY <1>12, <2>1, <2>2 DEF SentInTime
  <1>18. /\ Contents(w)' = Contents(w) \cup {x}
         /\ \A v \in Workers \ {w} : Contents(v)' = Contents(v)
         /\ x \notin Contents(w)
    <2>1. \A y : y \in Contents(w)' <=> y \in Contents(w) \cup {x}
      BY <1>1, <1>7 DEF Contents
    <2>2. \A v \in Workers \ {w} : Contents(v)' = Contents(v)
      BY <1>7 DEF Contents
    <2>3. x \notin Contents(w)
      BY <1>1, <1>8, <1>11, <1>13 DEF Contents
    <2> QED
      BY <2>1, <2>2, <2>3
  <1>19. Finite'
    BY <1>18, FS_AddElement DEF IInv, Finite
  <1>20. SizesMatchContents'
    <2>1. ASSUME NEW v \in Workers
          PROVE  workers_info'[v].size = Cardinality(Contents(v)')
      BY <1>1, <1>7, <1>18, FS_AddElement DEF IInv, Finite, SizesMatchContents
    <2>2. ASSUME NEW r \in DOMAIN queues_info', r # q
          PROVE  /\ r \in DOMAIN queues_info /\ queues_info'[r] = queues_info[r]
                 /\ map_to_worker(r) \in Workers
                 /\ {y \in Contents(map_to_worker(r))' : y.queue_id = r}
                      = {y \in Contents(map_to_worker(r)) : y.queue_id = r}
                 /\ \A t \in Priorities :
                      {y \in workers_info'[map_to_worker(r)].queues[t] : y.queue_id = r}
                        = {y \in workers_info[map_to_worker(r)].queues[t] : y.queue_id = r}
      <3>1. r \in DOMAIN queues_info /\ queues_info'[r] = queues_info[r]
        BY <1>6, <2>2
      <3>2. map_to_worker(r) \in Workers
        BY <1>1, <3>1, MapToWorkerType DEF TypeOK
      <3>3. {y \in Contents(map_to_worker(r))' : y.queue_id = r}
              = {y \in Contents(map_to_worker(r)) : y.queue_id = r}
        BY <1>8, <1>18, <2>2, <3>2
      <3>4. ASSUME NEW t \in Priorities
            PROVE  {y \in workers_info'[map_to_worker(r)].queues[t] : y.queue_id = r}
                     = {y \in workers_info[map_to_worker(r)].queues[t] : y.queue_id = r}
        BY <1>7, <1>8, <2>2, <3>2
      <3> QED
        BY <3>1, <3>2, <3>3, <3>4
    <2> DEFINE C == {y \in Contents(w) : y.queue_id = q}
               Q(t) == {y \in workers_info[w].queues[t] : y.queue_id = q}
    <2>3. /\ IsFiniteSet(C) /\ old.size = Cardinality(C)
          /\ \A t \in Priorities :
               IsFiniteSet(Q(t)) /\ old.pri[t].size = Cardinality(Q(t))
      <3>1. IsFiniteSet(Contents(w))
        BY <1>1 DEF IInv, Finite
      <3>2. IsFiniteSet(C)
        BY <3>1, FS_Subset
      <3>3. ASSUME NEW t \in Priorities PROVE IsFiniteSet(Q(t))
        <4>1. Q(t) \in SUBSET Contents(w)
          BY DEF Contents
        <4> QED
          BY <3>1, <4>1, FS_Subset
      <3>4. CASE q \in DOMAIN queues_info
        BY <1>9, <3>2, <3>3, <3>4 DEF IInv, SizesMatchContents, w
      <3>5. CASE q \notin DOMAIN queues_info
        <4>1. old.size = 0 /\ \A t \in Priorities : old.pri[t].size = 0
          BY <1>1, <3>5, GetQueueType DEF old
        <4>2. C = {} /\ \A t \in Priorities : Q(t) = {}
          BY <1>1, <1>11, <3>5 DEF Contents
        <4> QED
          BY <4>1, <4>2, FS_EmptySet
      <3> QED
        BY <3>4, <3>5
    <2>4. /\ {y \in Contents(w)' : y.queue_id = q} = C \cup {x}
          /\ x \notin C
          /\ {y \in workers_info'[w].queues[p] : y.queue_id = q} = Q(p) \cup {x}
          /\ x \notin Q(p)
          /\ \A t \in Priorities \ {p} :
               {y \in workers_info'[w].queues[t] : y.queue_id = q} = Q(t)
      <3>1. x \notin Q(p)
        BY <1>18 DEF Contents
      <3> QED
        BY <1>7, <1>8, <1>18, <3>1
    <2> HIDE DEF C, Q
    <2>5. Cardinality(C \cup {x}) = old.size + 1
      BY <2>3, <2>4, FS_AddElement
    <2>6. Cardinality(Q(p) \cup {x}) = old.pri[p].size + 1
      BY <2>3, <2>4, FS_AddElement
    <2>7. /\ queues_info'[q].size = Cardinality({y \in Contents(w)' : y.queue_id = q})
          /\ \A t \in Priorities : queues_info'[q].pri[t].size =
               Cardinality({y \in workers_info'[w].queues[t] : y.queue_id = q})
      <3>1. ASSUME NEW t \in Priorities
            PROVE  queues_info'[q].pri[t].size =
                     Cardinality({y \in workers_info'[w].queues[t] : y.queue_id = q})
        <4>1. CASE t = p
          BY <1>4, <1>6, <2>4, <2>6, <4>1
        <4>2. CASE t # p
          BY <1>4, <1>6, <2>3, <2>4, <4>2
        <4> QED
          BY <4>1, <4>2
      <3> QED
        BY <1>4, <1>6, <2>4, <2>5, <3>1
    <2>8. ASSUME NEW r \in DOMAIN queues_info'
          PROVE  /\ queues_info'[r].size =
                      Cardinality({y \in Contents(map_to_worker(r))' : y.queue_id = r})
                 /\ \A t \in Priorities : queues_info'[r].pri[t].size =
                      Cardinality({y \in workers_info'[map_to_worker(r)].queues[t] :
                                     y.queue_id = r})
      <3>1. CASE r = q
        BY <2>7, <3>1 DEF w
      <3>2. CASE r # q
        BY <2>2, <3>2 DEF IInv, SizesMatchContents
      <3> QED
        BY <3>1, <3>2
    <2> QED
      BY <2>1, <2>8 DEF SizesMatchContents
  <1> QED
    BY <1>10, <1>14, <1>15, <1>16, <1>17, <1>19, <1>20 DEF IInv

-----------------------------------------------------------------------------
\* What pop_back leaves, when it serves element x of priority queue p.
Popped(w, p, x) ==
  /\ Served(w, p, x)
  /\ workers_info' = [workers_info EXCEPT ![w].queues[p] = @ \ {x}, ![w].size = @ - 1]
  /\ queues_info' = [queues_info EXCEPT ![x.queue_id].pri[p].size = @ - 1,
                                        ![x.queue_id].size = @ - 1]
  /\ UNCHANGED <<now, capacity, queue_rate_pps>>

LEMMA PopBackPops ==
  ASSUME NEW w \in Workers, PopBack(w)
  PROVE  \E p \in Priorities : \E x \in workers_info[w].queues[p] : Popped(w, p, x)
  BY DEF PopBack, Popped

\* A worker with one element less.
LEMMA PoppedWorkers ==
  ASSUME TypeOK, NEW w \in Workers, NEW p \in Priorities,
         NEW x \in workers_info[w].queues[p], Popped(w, p, x)
  PROVE  /\ workers_info'[w].queues[p] = workers_info[w].queues[p] \ {x}
         /\ \A r \in Priorities \ {p} : workers_info'[w].queues[r] = workers_info[w].queues[r]
         /\ workers_info'[w].wrapping_counter = workers_info[w].wrapping_counter
         /\ workers_info'[w].size = workers_info[w].size - 1
         /\ \A v \in Workers \ {w} : workers_info'[v] = workers_info[v]
         /\ workers_info[w].size > 0
         /\ workers_info' \in [Workers -> WorkerInfo]
  BY DEF TypeOK, WorkerInfo, Popped, Served

\* A logical queue with one element less in one of its priority queues.
Uncounted(old, p) == [old EXCEPT !.pri[p].size = @ - 1, !.size = @ - 1]

LEMMA UncountedType ==
  ASSUME NEW old \in QueueInfo, NEW p \in Priorities, old.size > 0, old.pri[p].size > 0
  PROVE  /\ Uncounted(old, p) \in QueueInfo
         /\ Uncounted(old, p).size = old.size - 1
         /\ Uncounted(old, p).pri[p].size = old.pri[p].size - 1
         /\ Uncounted(old, p).pri[p].last_sent = old.pri[p].last_sent
         /\ \A r \in Priorities \ {p} : Uncounted(old, p).pri[r] = old.pri[r]
  <1> DEFINE counted == [old EXCEPT !.pri[p].size = @ - 1]
             info == [counted EXCEPT !.size = @ - 1]
  <1>1. /\ counted \in QueueInfo
        /\ counted.size = old.size
        /\ counted.pri[p].size = old.pri[p].size - 1
        /\ counted.pri[p].last_sent = old.pri[p].last_sent
        /\ \A r \in Priorities \ {p} : counted.pri[r] = old.pri[r]
    BY DEF QueueInfo, QueueInfoPri
  <1>2. info \in QueueInfo /\ info.size = counted.size - 1 /\ info.pri = counted.pri
    <2> HIDE DEF counted
    <2> QED
      BY <1>1 DEF QueueInfo
  <1>3. info = Uncounted(old, p)
    BY DEF Uncounted
  <1> HIDE DEF info, counted
  <1> QED
    BY <1>1, <1>2, <1>3

\* Taking an element out of the sets whose sizes the counters hold.
LEMMA PopBackKeepsIInv ==
  ASSUME IInv, NEW w \in Workers, NEW p \in Priorities,
         NEW x \in workers_info[w].queues[p], Popped(w, p, x)
  PROVE  IInv'
  <1> DEFINE q == x.queue_id
             old == queues_info[q]
             C == {y \in Contents(w) : y.queue_id = q}
             Q(t) == {y \in workers_info[w].queues[t] : y.queue_id = q}
  <1>1. /\ TypeOK
        /\ q \in DOMAIN queues_info
        /\ q \in QueueIds
        /\ map_to_worker(q) = w
        /\ old \in QueueInfo
    BY DEF IInv, Attributed, TypeOK
  <1>2. /\ workers_info'[w].queues[p] = workers_info[w].queues[p] \ {x}
        /\ \A r \in Priorities \ {p} : workers_info'[w].queues[r] = workers_info[w].queues[r]
        /\ workers_info'[w].wrapping_counter = workers_info[w].wrapping_counter
        /\ workers_info'[w].size = workers_info[w].size - 1
        /\ \A v \in Workers \ {w} : workers_info'[v] = workers_info[v]
        /\ workers_info' \in [Workers -> WorkerInfo]
    BY <1>1, PoppedWorkers
  <1>3. /\ \A v \in Workers, r \in Priorities :
             workers_info'[v].queues[r] \subseteq workers_info[v].queues[r]
        /\ \A v \in Workers :
             workers_info'[v].wrapping_counter = workers_info[v].wrapping_counter
    BY <1>2
  <1>4. /\ Contents(w)' = Contents(w) \ {x}
        /\ x \in Contents(w)
        /\ \A v \in Workers \ {w} : Contents(v)' = Contents(v)
        /\ \A r \in Priorities \ {p} : x \notin workers_info[w].queues[r]
    <2>1. \A r \in Priorities \ {p} : x \notin workers_info[w].queues[r]
      BY DEF IInv, Distinct
    <2>2. \A y : y \in Contents(w)' <=> y \in Contents(w) \ {x}
      BY <1>2, <2>1 DEF Contents
    <2>3. x \in Contents(w)
      BY DEF Contents
    <2>4. \A v \in Workers \ {w} : Contents(v)' = Contents(v)
      BY <1>2 DEF Contents
    <2> QED
      BY <2>1, <2>2, <2>3, <2>4
  <1>5. /\ IsFiniteSet(C) /\ old.size = Cardinality(C) /\ x \in C
        /\ \A t \in Priorities : IsFiniteSet(Q(t)) /\ old.pri[t].size = Cardinality(Q(t))
        /\ x \in Q(p)
    <2>1. IsFiniteSet(Contents(w))
      BY DEF IInv, Finite
    <2>2. IsFiniteSet(C)
      BY <2>1, FS_Subset
    <2>3. ASSUME NEW t \in Priorities PROVE IsFiniteSet(Q(t))
      <3>1. Q(t) \in SUBSET Contents(w)
        BY DEF Contents
      <3> QED
        BY <2>1, <3>1, FS_Subset
    <2> QED
      BY <1>1, <1>4, <2>2, <2>3 DEF IInv, SizesMatchContents
  <1>6. old.size > 0 /\ old.pri[p].size > 0
    <2>1. Cardinality(C) \in Nat /\ Cardinality(Q(p)) \in Nat
      BY <1>5, FS_CardinalityType
    <2>2. Cardinality(C) # 0 /\ Cardinality(Q(p)) # 0
      BY <1>5, FS_EmptySet
    <2> QED
      BY <1>5, <2>1, <2>2
  <1>7. queues_info' = [queues_info EXCEPT ![q] = Uncounted(old, p)]
    BY <1>1 DEF Popped, Uncounted, TypeOK
  <1>8. /\ DOMAIN queues_info' = DOMAIN queues_info
        /\ queues_info' \in [DOMAIN queues_info' -> QueueInfo]
        /\ queues_info'[q].size = old.size - 1
        /\ queues_info'[q].pri[p].size = old.pri[p].size - 1
        /\ queues_info'[q].pri[p].last_sent = old.pri[p].last_sent
        /\ \A t \in Priorities \ {p} : queues_info'[q].pri[t] = old.pri[t]
        /\ \A r \in DOMAIN queues_info \ {q} : queues_info'[r] = queues_info[r]
    <2> HIDE DEF q, old
    <2> QED
      BY <1>1, <1>6, <1>7, UncountedType DEF TypeOK
  <1>9. TypeOK'
    BY <1>1, <1>2, <1>8 DEF TypeOK, Popped
  <1>10. Attributed'
    BY <1>3, <1>8 DEF IInv, Attributed
  <1>11. Distinct'
    BY <1>3 DEF IInv, Distinct
  <1>12. Ordered'
    BY <1>3 DEF IInv, Ordered
  <1>13. SentInTime'
    <2>1. ASSUME NEW v \in Workers, NEW r \in Priorities,
                 NEW y \in workers_info[v].queues[r]
          PROVE  y.send <= queues_info'[y.queue_id].pri[r].last_sent
      <3>1. /\ y.send <= queues_info[y.queue_id].pri[r].last_sent
            /\ y.queue_id \in DOMAIN queues_info
        BY DEF IInv, SentInTime, Attributed
      <3>2. CASE y.queue_id # q
        BY <1>8, <3>1, <3>2
      <3>3. CASE y.queue_id = q /\ r # p
        BY <1>8, <3>1, <3>3
      <3>4. CASE y.queue_id = q /\ r = p
        BY <1>8, <3>1, <3>4
      <3> QED
        BY <3>2, <3>3, <3>4
    <2> QED
      BY <1>3, <2>1 DEF SentInTime
  <1>14. Finite'
    BY <1>4, FS_RemoveElement DEF IInv, Finite
  <1>15. SizesMatchContents'
    <2>1. ASSUME NEW v \in Workers
          PROVE  workers_info'[v].size = Cardinality(Contents(v)')
      BY <1>2, <1>4, FS_RemoveElement DEF IInv, Finite, SizesMatchContents
    <2>2. ASSUME NEW r \in DOMAIN queues_info', r # q
          PROVE  /\ queues_info'[r].size =
                      Cardinality({y \in Contents(map_to_worker(r))' : y.queue_id = r})
                 /\ \A t \in Priorities : queues_info'[r].pri[t].size =
                      Cardinality({y \in workers_info'[map_to_worker(r)].queues[t] :
                                     y.queue_id = r})
      <3>1. r \in DOMAIN queues_info /\ queues_info'[r] = queues_info[r]
        BY <1>8, <2>2
      <3>2. map_to_worker(r) \in Workers
        BY <1>1, <3>1, MapToWorkerType DEF TypeOK
      <3>3. {y \in Contents(map_to_worker(r))' : y.queue_id = r}
              = {y \in Contents(map_to_worker(r)) : y.queue_id = r}
        BY <1>4, <2>2, <3>2
      <3>4. \A t \in Priorities :
              {y \in workers_info'[map_to_worker(r)].queues[t] : y.queue_id = r}
                = {y \in workers_info[map_to_worker(r)].queues[t] : y.queue_id = r}
        BY <1>2, <2>2, <3>2
      <3> QED
        BY <3>1, <3>3, <3>4 DEF IInv, SizesMatchContents
    <2>3. /\ {y \in Contents(w)' : y.queue_id = q} = C \ {x}
          /\ {y \in workers_info'[w].queues[p] : y.queue_id = q} = Q(p) \ {x}
          /\ \A t \in Priorities \ {p} :
               {y \in workers_info'[w].queues[t] : y.queue_id = q} = Q(t)
      BY <1>2, <1>4
    <2>4. Cardinality(C \ {x}) = old.size - 1
      BY <1>5, FS_RemoveElement
    <2>5. Cardinality(Q(p) \ {x}) = old.pri[p].size - 1
      <3>1. IsFiniteSet(Q(p)) /\ x \in Q(p) /\ old.pri[p].size = Cardinality(Q(p))
        BY <1>5
      <3> HIDE DEF Q, old
      <3>2. Cardinality(Q(p) \ {x}) = Cardinality(Q(p)) - 1
        BY <3>1, FS_RemoveElement
      <3> QED
        BY <3>1, <3>2
    <2>6. ASSUME NEW t \in Priorities
          PROVE  queues_info'[q].pri[t].size =
                   Cardinality({y \in workers_info'[w].queues[t] : y.queue_id = q})
      <3>1. CASE t = p
        BY <1>8, <2>3, <2>5, <3>1
      <3>2. CASE t # p
        BY <1>5, <1>8, <2>3, <3>2
      <3> QED
        BY <3>1, <3>2
    <2>7. queues_info'[q].size = Cardinality({y \in Contents(w)' : y.queue_id = q})
      BY <1>8, <2>3, <2>4
    <2>8. ASSUME NEW r \in DOMAIN queues_info'
          PROVE  /\ queues_info'[r].size =
                      Cardinality({y \in Contents(map_to_worker(r))' : y.queue_id = r})
                 /\ \A t \in Priorities : queues_info'[r].pri[t].size =
                      Cardinality({y \in workers_info'[map_to_worker(r)].queues[t] :
                                     y.queue_id = r})
      <3>1. CASE r = q
        BY <1>1, <2>6, <2>7, <3>1
      <3>2. CASE r # q
        BY <2>2, <3>2
      <3> QED
        BY <3>1, <3>2
    <2> QED
      BY <2>1, <2>8 DEF SizesMatchContents
  <1> QED
    BY <1>9, <1>10, <1>11, <1>12, <1>13, <1>14, <1>15 DEF IInv

\* Every step keeps the invariant.
LEMMA IInvNext == IInv /\ [Next]_vars => IInv'
  <1> SUFFICES ASSUME IInv, [Next]_vars PROVE IInv'
    OBVIOUS
  <1>1. CASE Push
    BY <1>1, PushRefusedKeepsIInv, PushAcceptedKeepsIInv DEF Push, PushFront
  <1>2. CASE Pop
    BY <1>2, PopBackPops, PopBackKeepsIInv DEF Pop
  <1>3. CASE Configure
    BY <1>3, ConfigureKeepsIInv
  <1>4. CASE Tick
    BY <1>4, TickKeepsIInv
  <1>5. CASE UNCHANGED vars
    <2>1. TypeOK'
      BY <1>5 DEF vars, IInv, TypeOK
    <2>2. Quiet
      BY <1>5 DEF vars, Quiet, get_queue
    <2> QED
      BY <2>1, <2>2, QuietKeepsIInv
  <1> QED
    BY <1>1, <1>2, <1>3, <1>4, <1>5 DEF Next

\* The inductive invariant holds in every reachable state.
THEOREM Invariance == Spec => []IInv
  BY IInvInit, IInvNext, PTL DEF Spec

\* Type correctness: no counter ever becomes negative, no logical queue or
\* worker is touched that does not exist.
THEOREM TypeCorrect == Spec => []TypeOK
  BY Invariance, PTL DEF IInv

\* The counters of push_front and pop_back are right, for every number of
\* queues, workers and priorities and under every change of capacity and rate.
THEOREM SizesAreRight == Spec => []SizesMatchContents
  BY Invariance, PTL DEF IInv

-----------------------------------------------------------------------------
\* What a step does to the elements that wait: it leaves them alone, it adds
\* one to the priority queue it was pushed to, or pop_back takes one.
LEMMA StepsOfContents ==
  ASSUME IInv, [Next]_vars
  PROVE  \/ workers_info' = workers_info
         \/ \E q \in QueueIds, p \in Priorities, item \in Items : PushAccepted(q, p, item)
         \/ \E w \in Workers, p \in Priorities :
              \E x \in workers_info[w].queues[p] : Popped(w, p, x)
  <1>1. CASE Push
    BY <1>1 DEF Push, PushFront, PushRefused
  <1>2. CASE Pop
    BY <1>2, PopBackPops DEF Pop
  <1>3. CASE Configure
    BY <1>3 DEF Configure, SetPriorityCapacity, SetQueueCapacity, SetCapacityForAll,
                SetPriorityRate, SetQueueRate, SetRateForAll
  <1>4. CASE Tick
    BY <1>4 DEF Tick
  <1>5. CASE UNCHANGED vars
    BY <1>5 DEF vars
  <1> QED
    BY <1>1, <1>2, <1>3, <1>4, <1>5 DEF Next

\* The element an accepted push adds.
LEMMA PushAcceptedAdds ==
  ASSUME TypeOK, NEW q \in QueueIds, NEW p \in Priorities, NEW item \in Items,
         PushAccepted(q, p, item)
  PROVE  \A w \in Workers, r \in Priorities :
           /\ workers_info[w].queues[r] \subseteq workers_info'[w].queues[r]
           /\ \A y \in workers_info'[w].queues[r] \ workers_info[w].queues[r] :
                /\ r = p
                /\ y.queue_id = q
                /\ y.send = get_next_tp(get_queue(q).pri[p])
  <1>1. map_to_worker(q) \in Workers
    BY MapToWorkerType
  <1> QED
    BY <1>1 DEF PushAccepted, TypeOK, WorkerInfo

\* The heap order is the order of arrival: the element that pop_back serves is
\* the earliest of its logical queue and priority.
LEMMA ServedIsOldest ==
  ASSUME IInv, NEW w \in Workers, NEW p \in Priorities,
         NEW x \in workers_info[w].queues[p], Served(w, p, x),
         NEW y \in workers_info[w].queues[p] \ {x}, x.queue_id = y.queue_id
  PROVE  x.id < y.id
  <1>1. x \in QE /\ y \in QE
    BY DEF IInv, TypeOK, WorkerInfo
  <1>2. x.id # y.id
    BY DEF IInv, Distinct
  <1>3. x.send < y.send \/ (x.send = y.send /\ x.id < y.id)
    BY DEF Served, Before
  <1>4. y.id < x.id => y.send <= x.send
    BY DEF IInv, Ordered
  <1> QED
    BY <1>1, <1>2, <1>3, <1>4 DEF QE

\* Fifo for every configuration: ports and priorities that share a worker, and
\* changes of the rates, never reorder the elements of a queue.
THEOREM QueuesAreFifo == Spec => Fifo
  <1> DEFINE FirstLeaves ==
        \A w \in Workers, p \in Priorities :
          \A x \in workers_info[w].queues[p] \ workers_info'[w].queues[p] :
            \A y \in workers_info'[w].queues[p] :
              x.queue_id = y.queue_id => x.id < y.id
  <1>1. IInv /\ [Next]_vars => FirstLeaves
    <2> SUFFICES ASSUME IInv, [Next]_vars PROVE FirstLeaves
      OBVIOUS
    <2>1. CASE workers_info' = workers_info
      BY <2>1
    <2>2. ASSUME NEW q \in QueueIds, NEW p \in Priorities, NEW item \in Items,
                 PushAccepted(q, p, item)
          PROVE  FirstLeaves
      BY <2>2, PushAcceptedAdds DEF IInv
    <2>3. ASSUME NEW w \in Workers, NEW p \in Priorities,
                 NEW x \in workers_info[w].queues[p], Popped(w, p, x)
          PROVE  FirstLeaves
      <3>1. /\ workers_info'[w].queues[p] = workers_info[w].queues[p] \ {x}
            /\ \A r \in Priorities \ {p} :
                 workers_info'[w].queues[r] = workers_info[w].queues[r]
            /\ \A v \in Workers \ {w} : workers_info'[v] = workers_info[v]
        BY <2>3, PoppedWorkers DEF IInv
      <3>2. \A y \in workers_info[w].queues[p] \ {x} :
              x.queue_id = y.queue_id => x.id < y.id
        BY <2>3, ServedIsOldest DEF Popped
      <3> QED
        BY <3>1, <3>2
    <2> QED
      BY <2>1, <2>2, <2>3, StepsOfContents
  <1> QED
    BY <1>1, Invariance, PTL DEF Spec, Fifo

\* SpacedByRate for every configuration: what a priority queue accepts is due
\* at least one packet time, at its current rate, after all that it holds.
THEOREM QueuesAreSpaced == Spec => SpacedByRate
  <1> DEFINE Spaced ==
        \A w \in Workers, p \in Priorities :
          \A y \in workers_info'[w].queues[p] \ workers_info[w].queues[p] :
            \A x \in workers_info[w].queues[p] :
              x.queue_id = y.queue_id =>
                y.send >= x.send + get_queue(y.queue_id).pri[p].pkt_delay_time
  <1>1. IInv /\ [Next]_vars => Spaced
    <2> SUFFICES ASSUME IInv, [Next]_vars PROVE Spaced
      OBVIOUS
    <2>1. CASE workers_info' = workers_info
      BY <2>1
    <2>2. ASSUME NEW q \in QueueIds, NEW p \in Priorities, NEW item \in Items,
                 PushAccepted(q, p, item)
          PROVE  Spaced
      <3> SUFFICES ASSUME NEW w \in Workers, NEW r \in Priorities,
                          NEW y \in workers_info'[w].queues[r] \ workers_info[w].queues[r],
                          NEW x \in workers_info[w].queues[r], x.queue_id = y.queue_id
                   PROVE  y.send >= x.send + get_queue(y.queue_id).pri[r].pkt_delay_time
        OBVIOUS
      <3>1. r = p /\ y.queue_id = q /\ y.send = get_next_tp(get_queue(q).pri[p])
        BY <2>2, PushAcceptedAdds DEF IInv
      <3>2. /\ q \in DOMAIN queues_info
            /\ x.send <= queues_info[q].pri[p].last_sent
            /\ x.send \in Nat
        BY <3>1 DEF IInv, Attributed, SentInTime, TypeOK, WorkerInfo, QE
      <3> DEFINE pri == get_queue(q).pri[p]
      <3>3. pri \in QueueInfoPri /\ get_queue(q) = queues_info[q]
        BY <3>2, GetQueueType DEF IInv, QueueInfo
      <3>4. /\ pri.last_sent \in Nat
            /\ pri.pkt_delay_time \in Nat
            /\ x.send <= pri.last_sent
            /\ get_next_tp(pri) \in Nat
        BY <3>2, <3>3, NextTpType DEF QueueInfoPri, IInv
      <3>5. get_next_tp(pri) >= pri.last_sent + pri.pkt_delay_time
        BY <3>3 DEF get_next_tp, QueueInfoPri, IInv, TypeOK
      <3>6. y.send >= x.send + pri.pkt_delay_time
        <4>1. y.send = get_next_tp(pri)
          BY <3>1
        <4> HIDE DEF pri
        <4> QED
          BY <4>1, <3>2, <3>4, <3>5
      <3> QED
        BY <3>1, <3>6
    <2>3. ASSUME NEW w \in Workers, NEW p \in Priorities,
                 NEW x \in workers_info[w].queues[p], Popped(w, p, x)
          PROVE  Spaced
      BY <2>3, PoppedWorkers DEF IInv
    <2> QED
      BY <2>1, <2>2, <2>3, StepsOfContents
  <1> QED
    BY <1>1, Invariance, PTL DEF Spec, SpacedByRate

-----------------------------------------------------------------------------
\* The counter of a priority queue, also of one still to be created.
LEMMA CounterIsCardinality ==
  ASSUME IInv, NEW q \in QueueIds, NEW p \in Priorities
  PROVE  /\ IsFiniteSet(Held(q, p))
         /\ get_queue(q).pri[p].size = Cardinality(Held(q, p))
  <1>1. map_to_worker(q) \in Workers
    BY MapToWorkerType
  <1>2. Held(q, p) \subseteq Contents(map_to_worker(q))
    BY DEF Held, Contents
  <1>3. IsFiniteSet(Held(q, p))
    BY <1>1, <1>2, FS_Subset DEF IInv, Finite
  <1>4. CASE q \in DOMAIN queues_info
    BY <1>4, <1>3, GetQueueType DEF IInv, SizesMatchContents, Held
  <1>5. CASE q \notin DOMAIN queues_info
    <2>1. Held(q, p) = {}
      BY <1>1, <1>5 DEF Held, IInv, Attributed
    <2> QED
      BY <1>3, <1>5, <2>1, FS_EmptySet, GetQueueType DEF IInv
  <1> QED
    BY <1>4, <1>5

\* GrowsWithinCapacity for every sequence of capacities: lowering one below
\* what is queued never lets the queue grow beyond it.
THEOREM QueuesGrowWithinCapacity == Spec => GrowsWithinCapacity
  <1> DEFINE Grows(q, p) == queues_info'[q].pri[p].size > get_queue(q).pri[p].size
             Within(q, p) == queues_info'[q].pri[p].size <= queues_info'[q].pri[p].capacity
             GrowsWithin ==
               \A q \in DOMAIN queues_info', p \in Priorities : Grows(q, p) => Within(q, p)
  <1>1. IInv /\ [Next]_vars => GrowsWithin
    <2> SUFFICES ASSUME IInv, [Next]_vars,
                        NEW q \in DOMAIN queues_info', NEW p \in Priorities
                 PROVE  Grows(q, p) => Within(q, p)
      OBVIOUS
    <2>1. IInv'
      BY IInvNext
    <2>2. q \in QueueIds /\ map_to_worker(q) \in Workers
      BY <2>1, MapToWorkerType DEF IInv, TypeOK
    <2>3. /\ IsFiniteSet(Held(q, p))
          /\ get_queue(q).pri[p].size = Cardinality(Held(q, p))
      BY <2>2, CounterIsCardinality
    <2>4. queues_info'[q].pri[p].size = Cardinality(Held(q, p)')
      BY <2>1 DEF IInv, SizesMatchContents, Held
    <2>5. ASSUME Held(q, p)' \subseteq Held(q, p)
          PROVE  ~Grows(q, p)
      <3>1. /\ Cardinality(Held(q, p)') <= Cardinality(Held(q, p))
            /\ Cardinality(Held(q, p)') \in Nat
            /\ Cardinality(Held(q, p)) \in Nat
        BY <2>3, <2>5, FS_Subset, FS_CardinalityType
      <3> QED
        BY <3>1, <2>3, <2>4
    <2>6. CASE workers_info' = workers_info
      BY <2>5, <2>6 DEF Held
    <2>7. ASSUME NEW r \in QueueIds, NEW s \in Priorities, NEW item \in Items,
                 PushAccepted(r, s, item)
          PROVE  Grows(q, p) => Within(q, p)
      <3>1. CASE q = r /\ p = s
        <4>1. get_queue(r) \in QueueInfo /\ get_queue(r).pri[s].size < get_queue(r).pri[s].capacity
          BY <2>7, GetQueueType DEF IInv, PushAccepted
        <4>2. /\ queues_info'[r].pri[s].size = get_queue(r).pri[s].size + 1
              /\ queues_info'[r].pri[s].capacity = get_queue(r).pri[s].capacity
          BY <2>7, <4>1 DEF PushAccepted, WithQueue, QueueInfo, QueueInfoPri
        <4> QED
          BY <3>1, <4>1, <4>2 DEF QueueInfo, QueueInfoPri
      <3>2. CASE ~(q = r /\ p = s)
        <4>1. \A x \in Held(q, p)' : x \in Held(q, p)
          BY <2>2, <2>7, <3>2, PushAcceptedAdds DEF Held, IInv
        <4> QED
          BY <4>1, <2>5
      <3> QED
        BY <3>1, <3>2
    <2>8. ASSUME NEW w \in Workers, NEW r \in Priorities,
                 NEW x \in workers_info[w].queues[r], Popped(w, r, x)
          PROVE  Grows(q, p) => Within(q, p)
      <3>1. Held(q, p)' \subseteq Held(q, p)
        BY <2>2, <2>8, PoppedWorkers DEF Held, IInv
      <3> QED
        BY <3>1, <2>5
    <2> QED
      BY <2>6, <2>7, <2>8, StepsOfContents
  <1> QED
    BY <1>1, Invariance, PTL DEF Spec, GrowsWithinCapacity

-----------------------------------------------------------------------------
(***************************************************************************)
(* The egress buffers implement the bounded FIFO queues of DropTailQueues, *)
(* whatever the constants are.  What is proved or checked of a switch on   *)
(* top of DropTailQueues holds of one on top of NSQueueingLogicPriRL.      *)
(***************************************************************************)

-----------------------------------------------------------------------------
(* The elements of a set in the order of their numbers.                    *)

\* A finite set of elements with different numbers.
Numbered(S) ==
  /\ IsFiniteSet(S)
  /\ \A x \in S : x.id \in Nat /\ x.e \in Items
  /\ \A x, y \in S : x.id = y.id => x = y

LEMMA NumberedSubset ==
  ASSUME NEW S, Numbered(S), NEW T, T \subseteq S
  PROVE  Numbered(T)
  BY FS_Subset DEF Numbered

LEMMA RankBound ==
  ASSUME NEW S, Numbered(S), NEW x \in S
  PROVE  /\ Cardinality(S) \in Nat
         /\ Rank(S, x) \in 0 .. Cardinality(S) - 1
  <1> DEFINE A == {y \in S : y.id < x.id}
  <1>1. IsFiniteSet(S) /\ Cardinality(S) \in Nat
    BY FS_CardinalityType DEF Numbered
  <1>2. IsFiniteSet(S \ {x}) /\ Cardinality(S \ {x}) = Cardinality(S) - 1
    BY <1>1, FS_RemoveElement
  <1>3. A \subseteq S \ {x}
    BY DEF Numbered
  <1>4. IsFiniteSet(A) /\ Cardinality(A) <= Cardinality(S) - 1
    BY <1>2, <1>3, FS_Subset
  <1>5. Cardinality(A) \in Nat
    BY <1>4, FS_CardinalityType
  <1> QED
    BY <1>1, <1>4, <1>5 DEF Rank

LEMMA RankGrows ==
  ASSUME NEW S, Numbered(S), NEW x \in S, NEW y \in S, x.id < y.id
  PROVE  Rank(S, x) < Rank(S, y)
  <1> DEFINE A == {z \in S : z.id < x.id}
             B == {z \in S : z.id < y.id}
  <1>1. IsFiniteSet(S) /\ \A z \in S : z.id \in Nat
    BY DEF Numbered
  <1>2. IsFiniteSet(A) /\ IsFiniteSet(B)
    BY <1>1, FS_Subset
  <1>3. Cardinality(A \cup {x}) = Cardinality(A) + 1
    <2>1. x \notin A
      BY <1>1
    <2> QED
      BY <1>2, <2>1, FS_AddElement
  <1>4. A \cup {x} \subseteq B
    BY <1>1
  <1>5. Cardinality(A \cup {x}) <= Cardinality(B)
    BY <1>2, <1>4, FS_Subset
  <1>6. Cardinality(A) \in Nat /\ Cardinality(B) \in Nat
    BY <1>2, FS_CardinalityType
  <1> QED
    BY <1>3, <1>5, <1>6 DEF Rank

\* Every rank is taken, and by one element only.
LEMMA RankIsOnto ==
  ASSUME NEW S, Numbered(S), NEW i \in 0 .. Cardinality(S) - 1
  PROVE  \E x \in S : Rank(S, x) = i
  <1> DEFINE T == 0 .. Cardinality(S) - 1
             f == [x \in S |-> Rank(S, x)]
  <1>1. IsFiniteSet(S) /\ Cardinality(S) \in Nat
    BY FS_CardinalityType DEF Numbered
  <1>2. f \in [S -> T]
    BY RankBound
  <1>3. ASSUME NEW x \in S, NEW y \in S, f[x] = f[y] PROVE x = y
    <2>1. x.id \in Nat /\ y.id \in Nat /\ (x.id = y.id => x = y)
      BY DEF Numbered
    <2>2. Rank(S, x) = Rank(S, y) /\ Rank(S, x) \in Int
      BY <1>3, RankBound
    <2>3. ~(x.id < y.id) /\ ~(y.id < x.id)
      BY <2>2, RankGrows
    <2> QED
      BY <2>1, <2>3
  <1>4. f \in Injection(S, T)
    BY <1>2, <1>3 DEF Injection, IsInjective
  <1>5. IsFiniteSet(T) /\ Cardinality(T) = Cardinality(S)
    BY <1>1, FS_Interval
  <1> HIDE DEF f, T
  <1>6. f \in Surjection(S, T)
    BY <1>4, <1>5, FS_Injection
  <1>7. \E x \in S : f[x] = i
    BY <1>6 DEF Surjection, T
  <1> QED
    BY <1>7 DEF f

LEMMA RankIsOne ==
  ASSUME NEW S, Numbered(S), NEW x \in S, NEW y \in S, Rank(S, x) = Rank(S, y)
  PROVE  x = y
  <1>1. x.id \in Nat /\ y.id \in Nat /\ (x.id = y.id => x = y) /\ Rank(S, x) \in Int
    BY RankBound DEF Numbered
  <1>2. ~(x.id < y.id) /\ ~(y.id < x.id)
    BY <1>1, RankGrows
  <1> QED
    BY <1>1, <1>2

LEMMA WaitingAt ==
  ASSUME NEW S, Numbered(S), NEW i \in 1 .. Cardinality(S)
  PROVE  /\ DOMAIN Waiting(S) = 1 .. Cardinality(S)
         /\ Waiting(S)[i] \in S
         /\ Rank(S, Waiting(S)[i]) = i - 1
         /\ \A x \in S : Rank(S, x) = i - 1 => Waiting(S)[i] = x
  <1>1. Cardinality(S) \in Nat
    BY FS_CardinalityType DEF Numbered
  <1>2. i - 1 \in 0 .. Cardinality(S) - 1
    BY <1>1
  <1>3. \E x \in S : Rank(S, x) = i - 1
    BY <1>2, RankIsOnto
  <1>4. Waiting(S)[i] \in S /\ Rank(S, Waiting(S)[i]) = i - 1
    BY <1>3 DEF Waiting
  <1>5. \A x \in S : Rank(S, x) = i - 1 => Waiting(S)[i] = x
    BY <1>4, RankIsOne
  <1> QED
    BY <1>4, <1>5 DEF Waiting

-----------------------------------------------------------------------------
(* The sequence that stands for a set of elements.                         *)

LEMMA ShownType ==
  ASSUME NEW S, Numbered(S)
  PROVE  /\ Shown(S) \in Seq(Items \X Nat)
         /\ Len(Shown(S)) = Cardinality(S)
         /\ \A i \in 1 .. Cardinality(S) :
              Shown(S)[i] = <<Waiting(S)[i].e, Waiting(S)[i].id>>
  <1>1. Cardinality(S) \in Nat /\ DOMAIN Waiting(S) = 1 .. Cardinality(S)
    BY FS_CardinalityType DEF Numbered, Waiting
  <1>2. \A i \in 1 .. Cardinality(S) : Waiting(S)[i].e \in Items /\ Waiting(S)[i].id \in Nat
    BY WaitingAt DEF Numbered
  <1>3. Shown(S) = [i \in 1 .. Cardinality(S) |-> <<Waiting(S)[i].e, Waiting(S)[i].id>>]
    BY <1>1 DEF Shown
  <1>4. Shown(S) \in [1 .. Cardinality(S) -> Items \X Nat]
    BY <1>2, <1>3
  <1>5. Shown(S) \in Seq(Items \X Nat)
    BY <1>1, <1>4
  <1>6. Len(Shown(S)) = Cardinality(S)
    BY <1>1, <1>4, <1>5, LenProperties
  <1> QED
    BY <1>3, <1>5, <1>6

LEMMA ShownEmpty == Shown({}) = <<>>
  <1>1. Cardinality({}) = 0 /\ 1 .. 0 = {}
    BY FS_EmptySet
  <1>2. DOMAIN Waiting({}) = {}
    BY <1>1 DEF Waiting
  <1> QED
    BY <1>2 DEF Shown

\* A later element goes to the end.
LEMMA ShownAppend ==
  ASSUME NEW S, NEW z, Numbered(S \cup {z}), \A x \in S : x.id < z.id
  PROVE  Shown(S \cup {z}) = Append(Shown(S), <<z.e, z.id>>)
  <1> DEFINE T == S \cup {z}
             n == Cardinality(S)
             longer == Append(Shown(S), <<z.e, z.id>>)
  <1>1. Numbered(S)
    BY NumberedSubset
  <1>2. z \notin S /\ z.id \in Nat /\ z.e \in Items /\ \A x \in S : x.id \in Nat
    BY DEF Numbered
  <1>3. n \in Nat /\ Cardinality(T) = n + 1
    BY <1>1, <1>2, FS_AddElement, FS_CardinalityType DEF Numbered
  <1>4. \A x \in S : Rank(T, x) = Rank(S, x)
    <2> SUFFICES ASSUME NEW x \in S PROVE {y \in T : y.id < x.id} = {y \in S : y.id < x.id}
      BY DEF Rank
    <2> QED
      BY <1>2
  <1>5. Rank(T, z) = n
    <2>1. {y \in T : y.id < z.id} = S
      BY <1>2
    <2> QED
      BY <2>1 DEF Rank
  <1>6. Shown(T) \in Seq(Items \X Nat) /\ Len(Shown(T)) = n + 1
    BY <1>3, ShownType
  <1>7. Shown(S) \in Seq(Items \X Nat) /\ Len(Shown(S)) = n
    BY <1>1, ShownType
  <1>8. /\ longer \in Seq(Items \X Nat) /\ Len(longer) = n + 1
        /\ \A i \in 1 .. n : longer[i] = Shown(S)[i]
        /\ longer[n + 1] = <<z.e, z.id>>
    <2>1. <<z.e, z.id>> \in Items \X Nat
      BY <1>2
    <2> QED
      BY <1>7, <2>1, AppendProperties
  <1> HIDE DEF longer, n, T
  <1>9. ASSUME NEW i \in 1 .. n + 1 PROVE Shown(T)[i] = longer[i]
    <2>1. CASE i = n + 1
      <3>1. Waiting(T)[i] = z
        <4>1. Rank(T, z) = i - 1 /\ i \in 1 .. Cardinality(T) /\ z \in T
          BY <1>3, <1>5, <2>1 DEF T
        <4> QED
          BY <4>1, WaitingAt DEF T
      <3> QED
        BY <1>3, <1>8, <2>1, <3>1, ShownType DEF T
    <2>2. CASE i \in 1 .. n
      <3>1. Waiting(S)[i] \in S /\ Rank(S, Waiting(S)[i]) = i - 1
        BY <1>1, <2>2, WaitingAt DEF n
      <3>2. Waiting(T)[i] = Waiting(S)[i]
        <4>1. Waiting(S)[i] \in T /\ Rank(T, Waiting(S)[i]) = i - 1 /\ i \in 1 .. Cardinality(T)
          BY <1>3, <1>4, <3>1 DEF T
        <4> QED
          BY <4>1, WaitingAt DEF T
      <3>3. Shown(T)[i] = Shown(S)[i]
        <4>1. Shown(S)[i] = <<Waiting(S)[i].e, Waiting(S)[i].id>>
          BY <1>1, <2>2, ShownType DEF n
        <4>2. Shown(T)[i] = <<Waiting(T)[i].e, Waiting(T)[i].id>>
          BY <1>3, ShownType DEF T
        <4> QED
          BY <3>2, <4>1, <4>2
      <3> QED
        BY <1>8, <2>2, <3>3
    <2> QED
      BY <1>3, <2>1, <2>2
  <1>10. Shown(T) = longer
    BY <1>6, <1>8, <1>9, SeqEqual
  <1> QED
    BY <1>10 DEF T, longer

\* The earliest element is the first.
LEMMA ShownTail ==
  ASSUME NEW S, Numbered(S), NEW x \in S, \A y \in S \ {x} : x.id < y.id
  PROVE  Shown(S) # <<>> /\ Shown(S \ {x}) = Tail(Shown(S))
  <1> DEFINE T == S \ {x}
             n == Cardinality(T)
  <1>1. Numbered(T)
    BY NumberedSubset
  <1>2. n \in Nat /\ Cardinality(S) = n + 1
    <2>1. IsFiniteSet(T) /\ x \notin T /\ S = T \cup {x}
      BY <1>1 DEF Numbered
    <2> QED
      BY <2>1, FS_AddElement, FS_CardinalityType
  <1>3. \A y \in T : Rank(S, y) = Rank(T, y) + 1
    <2> SUFFICES ASSUME NEW y \in T PROVE Rank(S, y) = Rank(T, y) + 1
      OBVIOUS
    <2> DEFINE A == {z \in T : z.id < y.id}
    <2>1. {z \in S : z.id < y.id} = A \cup {x} /\ x \notin A
      OBVIOUS
    <2>2. IsFiniteSet(A)
      BY <1>1, FS_Subset DEF Numbered
    <2>3. Cardinality(A \cup {x}) = Cardinality(A) + 1
      BY <2>1, <2>2, FS_AddElement
    <2> QED
      BY <2>1, <2>3 DEF Rank
  <1>4. Shown(S) \in Seq(Items \X Nat) /\ Len(Shown(S)) = n + 1
    BY <1>2, ShownType
  <1>5. Shown(S) # <<>>
    BY <1>2, <1>4
  <1>6. /\ Tail(Shown(S)) \in Seq(Items \X Nat) /\ Len(Tail(Shown(S))) = n
        /\ \A i \in 1 .. n : Tail(Shown(S))[i] = Shown(S)[i + 1]
    <2> DEFINE s == Shown(S)
    <2>1. s \in Seq(Items \X Nat) /\ s # << >>
      BY <1>4, <1>5
    <2>2. Len(s) = n + 1 /\ n \in Nat
      BY <1>2, <1>4
    <2> HIDE DEF s, n
    <2>3. Tail(s) \in Seq(Items \X Nat) /\ Len(Tail(s)) = Len(s) - 1
      BY <2>1, HeadTailProperties
    <2>4. \A i \in 1 .. Len(Tail(s)) : Tail(s)[i] = s[i + 1]
      BY <2>1, HeadTailProperties
    <2>5. Len(Tail(s)) = n
      BY <2>2, <2>3
    <2> QED
      BY <2>3, <2>4, <2>5 DEF s
  <1>7. Shown(T) \in Seq(Items \X Nat) /\ Len(Shown(T)) = n
    BY <1>1, ShownType
  <1> HIDE DEF n, T
  <1>8. ASSUME NEW i \in 1 .. n PROVE Shown(T)[i] = Tail(Shown(S))[i]
    <2>1. Waiting(T)[i] \in T /\ Rank(T, Waiting(T)[i]) = i - 1
      BY <1>1, WaitingAt DEF n
    <2>2. i + 1 \in 1 .. Cardinality(S) /\ i + 1 - 1 = i - 1 + 1
      BY <1>2
    <2>3. Waiting(S)[i + 1] = Waiting(T)[i]
      <3>1. Waiting(T)[i] \in S /\ Rank(S, Waiting(T)[i]) = i + 1 - 1
        BY <1>3, <2>1, <2>2 DEF T
      <3> QED
        BY <2>2, <3>1, WaitingAt
    <2>4. Shown(T)[i] = <<Waiting(T)[i].e, Waiting(T)[i].id>>
      BY <1>1, ShownType DEF n
    <2>5. Shown(S)[i + 1] = <<Waiting(S)[i + 1].e, Waiting(S)[i + 1].id>>
      BY <2>2, ShownType
    <2> QED
      BY <1>6, <2>3, <2>4, <2>5
  <1>9. Shown(T) = Tail(Shown(S))
    BY <1>6, <1>7, <1>8, SeqEqual
  <1> QED
    BY <1>5, <1>9 DEF T
-----------------------------------------------------------------------------
(* The elements of one logical queue and priority.                         *)

LEMMA HeldIsNumbered ==
  ASSUME IInv, NEW q \in QueueIds, NEW p \in Priorities
  PROVE  Numbered(Held(q, p))
  <1>1. IsFiniteSet(Held(q, p))
    BY CounterIsCardinality
  <1>2. map_to_worker(q) \in Workers
    BY MapToWorkerType
  <1>3. \A x \in Held(q, p) : x \in workers_info[map_to_worker(q)].queues[p]
    BY DEF Held
  <1>4. \A x \in Held(q, p) : x \in QE
    BY <1>2, <1>3 DEF IInv, TypeOK, WorkerInfo
  <1>5. \A x, y \in Held(q, p) : x.id = y.id => x = y
    BY <1>2, <1>3 DEF IInv, Distinct
  <1> QED
    BY <1>1, <1>4, <1>5 DEF Numbered, QE

\* What one call of push_front that is not refused does to all of them.
LEMMA PushHolds ==
  ASSUME IInv, NEW q \in QueueIds, NEW p \in Priorities, NEW item \in Items,
         PushAccepted(q, p, item)
  PROVE  LET id == workers_info[map_to_worker(q)].wrapping_counter
         IN  /\ id \in 0 .. MaxPushes
             /\ \E z : /\ z.e = item /\ z.id = id
                       /\ Held(q, p)' = Held(q, p) \cup {z}
             /\ \A x \in Held(q, p) : x.id < id
             /\ \A r \in QueueIds, o \in Priorities :
                  <<r, o>> # <<q, p>> => Held(r, o)' = Held(r, o)
  <1> DEFINE w == map_to_worker(q)
             id == workers_info[w].wrapping_counter
             z == [e |-> item, queue_id |-> q, send |-> get_next_tp(get_queue(q).pri[p]),
                   id |-> id]
  <1>1. w \in Workers /\ \A r \in QueueIds : map_to_worker(r) \in Workers
    BY MapToWorkerType
  <1>2. id \in Nat /\ id < MaxPushes
    BY <1>1 DEF IInv, TypeOK, WorkerInfo, PushAccepted
  <1>3. /\ workers_info'[w].queues[p] = workers_info[w].queues[p] \cup {z}
        /\ \A o \in Priorities \ {p} :
             workers_info'[w].queues[o] = workers_info[w].queues[o]
        /\ \A v \in Workers \ {w} : workers_info'[v] = workers_info[v]
    BY <1>1 DEF PushAccepted, IInv, TypeOK, WorkerInfo
  <1>4. z.e = item /\ z.id = id /\ z.queue_id = q
    OBVIOUS
  <1> HIDE DEF z
  <1>5. Held(q, p)' = Held(q, p) \cup {z}
    BY <1>3, <1>4 DEF Held
  <1>6. \A x \in Held(q, p) : x.id < id
    BY <1>1 DEF Held, IInv, Attributed
  <1>7. ASSUME NEW r \in QueueIds, NEW o \in Priorities, <<r, o>> # <<q, p>>
        PROVE  Held(r, o)' = Held(r, o)
    <2>1. CASE map_to_worker(r) # w \/ o # p
      BY <1>1, <1>3, <2>1 DEF Held
    <2>2. CASE map_to_worker(r) = w /\ o = p
      <3>1. r # q
        BY <1>7, <2>2
      <3> QED
        BY <1>3, <1>4, <2>2, <3>1 DEF Held
    <2> QED
      BY <2>1, <2>2
  <1>8. id \in 0 .. MaxPushes
    BY <1>2, PriRLAssumption
  <1> QED
    BY <1>4, <1>5, <1>6, <1>7, <1>8

\* What one call of pop_back that returns an element does to all of them.
LEMMA PopHolds ==
  ASSUME IInv, NEW w \in Workers, NEW p \in Priorities,
         NEW x \in workers_info[w].queues[p], Popped(w, p, x)
  PROVE  LET q == x.queue_id
         IN  /\ q \in QueueIds
             /\ x \in Held(q, p)
             /\ Held(q, p)' = Held(q, p) \ {x}
             /\ \A y \in Held(q, p) \ {x} : x.id < y.id
             /\ \A r \in QueueIds, o \in Priorities :
                  <<r, o>> # <<q, p>> => Held(r, o)' = Held(r, o)
  <1> DEFINE q == x.queue_id
  <1>1. q \in QueueIds /\ map_to_worker(q) = w
    BY DEF IInv, Attributed, TypeOK
  <1>2. \A r \in QueueIds : map_to_worker(r) \in Workers
    BY MapToWorkerType
  <1>3. /\ workers_info'[w].queues[p] = workers_info[w].queues[p] \ {x}
        /\ \A o \in Priorities \ {p} :
             workers_info'[w].queues[o] = workers_info[w].queues[o]
        /\ \A v \in Workers \ {w} : workers_info'[v] = workers_info[v]
    BY PoppedWorkers DEF IInv
  <1>4. x \in Held(q, p) /\ Held(q, p)' = Held(q, p) \ {x}
    BY <1>1, <1>3 DEF Held
  <1>5. \A y \in Held(q, p) \ {x} : x.id < y.id
    <2>1. \A y \in Held(q, p) \ {x} :
            y \in workers_info[w].queues[p] \ {x} /\ x.queue_id = y.queue_id
      BY <1>1 DEF Held
    <2> QED
      BY <2>1, ServedIsOldest DEF Popped
  <1>6. ASSUME NEW r \in QueueIds, NEW o \in Priorities, <<r, o>> # <<q, p>>
        PROVE  Held(r, o)' = Held(r, o)
    <2>1. CASE map_to_worker(r) # w \/ o # p
      BY <1>2, <1>3, <2>1 DEF Held
    <2>2. CASE map_to_worker(r) = w /\ o = p
      <3>1. r # q
        BY <1>6, <2>2
      <3> QED
        BY <1>3, <2>2, <3>1 DEF Held
    <2> QED
      BY <2>1, <2>2
  <1> QED
    BY <1>1, <1>4, <1>5, <1>6

-----------------------------------------------------------------------------
(* The state of DropTailQueues that a state of the egress buffers shows.   *)

Slots == QueueIds \X Priorities

LEMMA SlotIsPair ==
  ASSUME NEW s \in Slots
  PROVE  s[1] \in QueueIds /\ s[2] \in Priorities /\ s = <<s[1], s[2]>>
  BY DEF Slots

\* A queue is as long as the counter of push_front says.
LEMMA ShownQueuesType ==
  ASSUME IInv, NEW s \in Slots
  PROVE  /\ ShownQueues[s] = Shown(Held(s[1], s[2]))
         /\ ShownQueues[s] \in Seq(Items \X Nat)
         /\ Len(ShownQueues[s]) = get_queue(s[1]).pri[s[2]].size
  <1>1. s[1] \in QueueIds /\ s[2] \in Priorities
    BY SlotIsPair
  <1>2. ShownQueues[s] = Shown(Held(s[1], s[2]))
    BY DEF ShownQueues, Slots
  <1>3. Numbered(Held(s[1], s[2]))
    BY <1>1, HeldIsNumbered
  <1>4. get_queue(s[1]).pri[s[2]].size = Cardinality(Held(s[1], s[2]))
    BY <1>1, CounterIsCardinality
  <1>5. /\ Shown(Held(s[1], s[2])) \in Seq(Items \X Nat)
        /\ Len(Shown(Held(s[1], s[2]))) = Cardinality(Held(s[1], s[2]))
    BY <1>3, ShownType
  <1> QED
    BY <1>2, <1>4, <1>5

\* The limits, with get_queue expanded: now and one step later.
LEMMA ShownLimitsAre ==
  /\ ShownLimits = [s \in Slots |->
       IF s[1] \in DOMAIN queues_info THEN queues_info[s[1]].pri[s[2]].capacity ELSE capacity]
  /\ ShownLimits' = [s \in Slots |->
       IF s[1] \in DOMAIN queues_info'
         THEN queues_info'[s[1]].pri[s[2]].capacity ELSE capacity']
  <1>1. \A p \in Priorities : NewQueueInfo.pri[p].capacity = capacity
    BY DEF NewQueueInfo
  <1>2. \A p \in Priorities : NewQueueInfo'.pri[p].capacity = capacity'
    BY DEF NewQueueInfo
  <1>3. \A s \in Slots : s[2] \in Priorities
    BY SlotIsPair
  <1>4. \A s \in Slots : get_queue(s[1]).pri[s[2]].capacity =
          IF s[1] \in DOMAIN queues_info THEN queues_info[s[1]].pri[s[2]].capacity ELSE capacity
    BY <1>1, <1>3 DEF get_queue
  <1>5. \A s \in Slots : get_queue(s[1])'.pri[s[2]].capacity =
          IF s[1] \in DOMAIN queues_info'
            THEN queues_info'[s[1]].pri[s[2]].capacity ELSE capacity'
    BY <1>2, <1>3 DEF get_queue
  <1>6. ShownLimits = [s \in Slots |-> get_queue(s[1]).pri[s[2]].capacity]
    BY DEF ShownLimits, Slots
  <1>7. ShownLimits' = [s \in Slots |-> get_queue(s[1])'.pri[s[2]].capacity]
    BY DEF ShownLimits, Slots
  <1> QED
    BY <1>4, <1>5, <1>6, <1>7

\* A step that moves no element shows the same queues.
LEMMA SameQueues ==
  ASSUME UNCHANGED workers_info
  PROVE  UNCHANGED ShownQueues
  BY DEF ShownQueues, Held

\* After a step that writes one logical queue, the other limits are the same.
LEMMA WithQueueLimits ==
  ASSUME NEW q \in QueueIds, NEW info,
         queues_info' = WithQueue(q, info), UNCHANGED capacity
  PROVE  ShownLimits' =
           [s \in Slots |-> IF s[1] = q THEN info.pri[s[2]].capacity ELSE ShownLimits[s]]
  <1>1. /\ DOMAIN queues_info' = DOMAIN queues_info \cup {q}
        /\ queues_info'[q] = info
        /\ \A r \in DOMAIN queues_info \ {q} : queues_info'[r] = queues_info[r]
    BY DEF WithQueue
  <1>2. \A s \in Slots : ShownLimits[s] =
          IF s[1] \in DOMAIN queues_info THEN queues_info[s[1]].pri[s[2]].capacity ELSE capacity
    BY ShownLimitsAre
  <1>3. \A s \in Slots :
          (IF s[1] \in DOMAIN queues_info'
             THEN queues_info'[s[1]].pri[s[2]].capacity ELSE capacity')
          = IF s[1] = q THEN info.pri[s[2]].capacity ELSE ShownLimits[s]
    BY <1>1, <1>2
  <1> QED
    BY <1>3, ShownLimitsAre

\* One that leaves the capacities of that logical queue alone changes none.
LEMMA WithQueueSameLimits ==
  ASSUME NEW q \in QueueIds, NEW info,
         queues_info' = WithQueue(q, info), UNCHANGED capacity,
         \A p \in Priorities : info.pri[p].capacity = get_queue(q).pri[p].capacity
  PROVE  UNCHANGED ShownLimits
  <1>1. ShownLimits = [s \in Slots |-> get_queue(s[1]).pri[s[2]].capacity]
    BY DEF ShownLimits, Slots
  <1>2. \A s \in Slots :
          (IF s[1] = q THEN info.pri[s[2]].capacity ELSE ShownLimits[s])
          = get_queue(s[1]).pri[s[2]].capacity
    BY <1>1, SlotIsPair
  <1> QED
    BY <1>1, <1>2, WithQueueLimits

-----------------------------------------------------------------------------
(* Every step is a step of DropTailQueues or shows nothing.                *)

LEMMA ShowsInit ==
  ASSUME Init
  PROVE  Abs!Init
  <1>1. \A s \in Slots : Held(s[1], s[2]) = {}
    BY SlotIsPair, MapToWorkerType DEF Init, Held
  <1>2. ShownQueues = [s \in Slots |-> <<>>]
    BY <1>1, ShownEmpty DEF ShownQueues, Slots
  <1>3. DOMAIN queues_info = {} /\ capacity = InitCapacity
    BY DEF Init
  <1>4. ShownLimits = [s \in Slots |-> InitCapacity]
    BY <1>3, ShownLimitsAre
  <1> QED
    BY <1>2, <1>4 DEF Abs!Init, Abs!Slots, Slots

\* push_front that is not refused puts the element into its queue.
LEMMA ShowsPut ==
  ASSUME IInv, NEW q \in QueueIds, NEW p \in Priorities, NEW item \in Items,
         PushAccepted(q, p, item)
  PROVE  Abs!Next
  <1> DEFINE s == <<q, p>>
             id == workers_info[map_to_worker(q)].wrapping_counter
             info == [get_queue(q) EXCEPT
                        !.size = @ + 1, !.pri[p].size = @ + 1,
                        !.pri[p].last_sent = get_next_tp(get_queue(q).pri[p])]
  <1>1. s \in Slots /\ s[1] = q /\ s[2] = p
    BY DEF Slots
  <1>2. id \in 0 .. MaxPushes /\ \A x \in Held(q, p) : x.id < id
    BY PushHolds
  <1>3. PICK z : z.e = item /\ z.id = id /\ Held(q, p)' = Held(q, p) \cup {z}
    BY PushHolds
  <1>4. \A r \in QueueIds, o \in Priorities : <<r, o>> # s => Held(r, o)' = Held(r, o)
    BY PushHolds
  <1>5. queues_info' = WithQueue(q, info) /\ UNCHANGED capacity
    BY Zenon DEF PushAccepted
  <1>6. get_queue(q) \in QueueInfo
    BY GetQueueType DEF IInv
  <1>7. \A o \in Priorities : info.pri[o].capacity = get_queue(q).pri[o].capacity
    BY <1>6 DEF QueueInfo, QueueInfoPri
  <1> HIDE DEF info, s, id
  <1>8. Numbered(Held(q, p))
    BY HeldIsNumbered
  <1>9. Numbered(Held(q, p) \cup {z})
    <2>1. z.id \in Nat /\ z.e \in Items
      BY <1>2, <1>3
    <2>2. \A x \in Held(q, p) : x.id # z.id
      BY <1>2, <1>3, <1>8 DEF Numbered
    <2>3. IsFiniteSet(Held(q, p) \cup {z})
      BY <1>8, FS_AddElement DEF Numbered
    <2> QED
      BY <1>8, <2>1, <2>2, <2>3 DEF Numbered
  <1>10. UNCHANGED ShownLimits
    BY <1>5, <1>7, WithQueueSameLimits
  <1>11. Len(ShownQueues[s]) < ShownLimits[s]
    <2>1. ShownLimits[s] = get_queue(q).pri[p].capacity
      BY <1>1 DEF ShownLimits, Slots
    <2>2. get_queue(q).pri[p].size < get_queue(q).pri[p].capacity
      BY DEF PushAccepted
    <2> QED
      BY <1>1, <2>1, <2>2, ShownQueuesType
  <1>12. ShownQueues' = [ShownQueues EXCEPT ![s] = Append(@, <<item, id>>)]
    <2>1. Shown(Held(q, p)') = Append(Shown(Held(q, p)), <<item, id>>)
      BY <1>2, <1>3, <1>9, ShownAppend
    <2>2. ShownQueues' = [t \in Slots |-> Shown(Held(t[1], t[2])')]
      BY DEF ShownQueues, Slots
    <2>3. ShownQueues = [t \in Slots |-> Shown(Held(t[1], t[2]))]
      BY DEF ShownQueues, Slots
    <2>4. ASSUME NEW t \in Slots, t # s PROVE Shown(Held(t[1], t[2])') = ShownQueues[t]
      BY <1>4, <2>3, <2>4, SlotIsPair
    <2>5. Shown(Held(s[1], s[2])') = Append(ShownQueues[s], <<item, id>>)
      BY <1>1, <2>1, <2>3
    <2> QED
      BY <1>1, <2>2, <2>3, <2>4, <2>5
  <1>13. Abs!Put(s, <<item, id>>)
    BY <1>10, <1>11, <1>12 DEF Abs!Put, Abs!Fits, Abs!Offered
  <1>14. <<item, id>> \in Items \X (0 .. MaxPushes)
    BY <1>2
  <1> QED
    BY <1>1, <1>13, <1>14 DEF Abs!Next, Abs!Slots, Slots

\* pop_back serves the first of a queue.
LEMMA ShowsServe ==
  ASSUME IInv, NEW w \in Workers, NEW p \in Priorities,
         NEW x \in workers_info[w].queues[p], Popped(w, p, x)
  PROVE  Abs!Next
  <1> DEFINE q == x.queue_id
             s == <<q, p>>
  <1>1. /\ q \in QueueIds
        /\ x \in Held(q, p)
        /\ Held(q, p)' = Held(q, p) \ {x}
        /\ \A y \in Held(q, p) \ {x} : x.id < y.id
    BY PopHolds
  <1>2. \A r \in QueueIds, o \in Priorities : <<r, o>> # s => Held(r, o)' = Held(r, o)
    BY PopHolds
  <1>3. s \in Slots /\ s[1] = q /\ s[2] = p
    BY <1>1 DEF Slots
  <1>4. Shown(Held(q, p)) # <<>> /\ Shown(Held(q, p)') = Tail(Shown(Held(q, p)))
    BY <1>1, HeldIsNumbered, ShownTail
  <1>5. UNCHANGED ShownLimits
    <2>1. q \in DOMAIN queues_info /\ queues_info[q] \in QueueInfo
      BY DEF IInv, TypeOK, Attributed
    <2>2. /\ DOMAIN queues_info' = DOMAIN queues_info
          /\ \A r \in DOMAIN queues_info : \A o \in Priorities :
               queues_info'[r].pri[o].capacity = queues_info[r].pri[o].capacity
          /\ capacity' = capacity
      BY <2>1 DEF Popped, QueueInfo, QueueInfoPri
    <2>3. \A t \in Slots : t[2] \in Priorities
      BY SlotIsPair
    <2> QED
      BY <2>2, <2>3, ShownLimitsAre
  <1> HIDE DEF q, s
  <1>6. ShownQueues[s] # <<>> /\ ShownQueues' = [ShownQueues EXCEPT ![s] = Tail(@)]
    <2>1. ShownQueues' = [t \in Slots |-> Shown(Held(t[1], t[2])')]
      BY DEF ShownQueues, Slots
    <2>2. ShownQueues = [t \in Slots |-> Shown(Held(t[1], t[2]))]
      BY DEF ShownQueues, Slots
    <2>3. ASSUME NEW t \in Slots, t # s PROVE Shown(Held(t[1], t[2])') = ShownQueues[t]
      BY <1>2, <2>2, <2>3, SlotIsPair
    <2>4. Shown(Held(s[1], s[2])') = Tail(ShownQueues[s]) /\ ShownQueues[s] # <<>>
      BY <1>3, <1>4, <2>2
    <2> QED
      BY <1>3, <2>1, <2>2, <2>3, <2>4
  <1>7. Abs!Serve(s)
    BY <1>5, <1>6 DEF Abs!Serve
  <1> QED
    BY <1>3, <1>7 DEF Abs!Next, Abs!Slots, Slots

\* push_front that is refused, and the clock, show nothing.
LEMMA ShowsRefused ==
  ASSUME NEW q \in QueueIds, NEW p \in Priorities, PushRefused(q, p)
  PROVE  UNCHANGED <<ShownQueues, ShownLimits>>
  <1>1. queues_info' = WithQueue(q, get_queue(q)) /\ UNCHANGED <<capacity, workers_info>>
    BY DEF PushRefused
  <1> QED
    BY <1>1, SameQueues, WithQueueSameLimits

LEMMA ShowsNothing ==
  ASSUME UNCHANGED <<capacity, queues_info, workers_info>>
  PROVE  UNCHANGED <<ShownQueues, ShownLimits>>
  BY SameQueues, ShownLimitsAre

LEMMA SetFnCapacity ==
  ASSUME NEW pri \in QueueInfoPri, NEW n
  PROVE  SetCapacityFn(pri, n).capacity = n /\ SetRateFn(pri, n).capacity = pri.capacity
  BY DEF SetCapacityFn, SetRateFn, QueueInfoPri

\* The set_capacity functions change the limits of one queue, of all those of
\* a logical queue, or of all, those still to be created included; the
\* set_rate functions show nothing.
LEMMA ShowsConfigure ==
  ASSUME IInv, Configure
  PROVE  Abs!Next \/ UNCHANGED <<ShownQueues, ShownLimits>>
  <1>0. TypeOK
    BY DEF IInv
  <1>1. \A q \in QueueIds : get_queue(q) \in QueueInfo
    BY <1>0, GetQueueType
  <1>2. \A q \in QueueIds : \A p \in Priorities : get_queue(q).pri[p] \in QueueInfoPri
    BY <1>1 DEF QueueInfo
  <1>3. \A s \in Slots : ShownLimits[s] = get_queue(s[1]).pri[s[2]].capacity
    BY DEF ShownLimits, Slots
  <1>4. ASSUME NEW q \in QueueIds, NEW p \in Priorities, NEW c \in Capacities,
               SetPriorityCapacity(q, p, c)
        PROVE  Abs!Next
    <2> DEFINE pri == SetCapacityFn(get_queue(q).pri[p], c)
               info == [get_queue(q) EXCEPT !.pri[p] = pri]
    <2>1. pri \in QueueInfoPri /\ pri.capacity = c
      BY <1>2, SetFnType, PriRLAssumption DEF SetCapacityFn, QueueInfoPri
    <2>2. /\ info.pri[p] = pri
          /\ \A r \in Priorities \ {p} : info.pri[r] = get_queue(q).pri[r]
      BY <1>1, <2>1, QueueInfoExcept
    <2>3. queues_info' = WithQueue(q, info)
      BY <1>4, Zenon DEF SetPriorityCapacity
    <2> HIDE DEF info, pri
    <2>4. ShownLimits' =
            [s \in Slots |-> IF s[1] = q THEN info.pri[s[2]].capacity ELSE ShownLimits[s]]
      BY <1>4, <2>3, WithQueueLimits DEF SetPriorityCapacity
    <2>5. \A s \in Slots : (IF s[1] = q THEN info.pri[s[2]].capacity ELSE ShownLimits[s])
            = IF s \in {<<q, p>>} THEN c ELSE ShownLimits[s]
      BY <1>3, <2>1, <2>2, SlotIsPair
    <2>6. ShownLimits' = [s \in Slots |-> IF s \in {<<q, p>>} THEN c ELSE ShownLimits[s]]
      BY <2>4, <2>5
    <2>7. UNCHANGED ShownQueues
      BY <1>4, SameQueues DEF SetPriorityCapacity
    <2>8. Abs!SetLimit({<<q, p>>}, c)
      BY <2>6, <2>7 DEF Abs!SetLimit, Abs!Slots, Slots
    <2>9. <<q, p>> \in Abs!Slots
      BY DEF Abs!Slots
    <2> QED
      BY <2>8, <2>9 DEF Abs!Next
  <1>5. ASSUME NEW q \in QueueIds, NEW c \in Capacities, SetQueueCapacity(q, c)
        PROVE  Abs!Next
    <2> DEFINE f == [p \in Priorities |-> SetCapacityFn(get_queue(q).pri[p], c)]
               info == [get_queue(q) EXCEPT !.pri = f]
    <2>1. \A p \in Priorities : f[p] \in QueueInfoPri /\ f[p].capacity = c
      BY <1>2, SetFnType, PriRLAssumption DEF SetCapacityFn, QueueInfoPri
    <2>2. info.pri = f
      BY <1>1, <2>1, QueueInfoExceptAll
    <2>3. queues_info' = WithQueue(q, info)
      BY <1>5, Zenon DEF SetQueueCapacity
    <2> HIDE DEF info, f
    <2>4. ShownLimits' =
            [s \in Slots |-> IF s[1] = q THEN info.pri[s[2]].capacity ELSE ShownLimits[s]]
      BY <1>5, <2>3, WithQueueLimits DEF SetQueueCapacity
    <2>5. \A s \in Slots : (IF s[1] = q THEN info.pri[s[2]].capacity ELSE ShownLimits[s])
            = IF s \in {q} \X Priorities THEN c ELSE ShownLimits[s]
      <3>1. \A s \in Slots : s[1] = q <=> s \in {q} \X Priorities
        BY DEF Slots
      <3> QED
        BY <2>1, <2>2, <3>1, SlotIsPair
    <2>6. ShownLimits' =
            [s \in Slots |-> IF s \in {q} \X Priorities THEN c ELSE ShownLimits[s]]
      BY <2>4, <2>5
    <2>7. UNCHANGED ShownQueues
      BY <1>5, SameQueues DEF SetQueueCapacity
    <2>8. Abs!SetLimit({q} \X Priorities, c)
      BY <2>6, <2>7 DEF Abs!SetLimit, Abs!Slots, Slots
    <2> QED
      BY <2>8 DEF Abs!Next
  <1>6. ASSUME NEW c \in Capacities, SetCapacityForAll(c)
        PROVE  Abs!Next
    <2>1. /\ DOMAIN queues_info' = DOMAIN queues_info /\ capacity' = c
          /\ \A q \in DOMAIN queues_info : queues_info'[q].pri =
               [p \in Priorities |-> SetCapacityFn(queues_info[q].pri[p], c)]
      <3>1. \A q \in DOMAIN queues_info : queues_info[q] \in QueueInfo
        BY <1>0 DEF TypeOK
      <3> QED
        BY <1>6, <3>1 DEF SetCapacityForAll, QueueInfo
    <2>2. \A q \in DOMAIN queues_info : \A p \in Priorities :
            queues_info[q].pri[p] \in QueueInfoPri
      BY <1>0 DEF TypeOK, QueueInfo
    <2>3. \A q \in DOMAIN queues_info : \A p \in Priorities :
            queues_info'[q].pri[p].capacity = c
      <3>1. \A q \in DOMAIN queues_info : \A p \in Priorities :
              queues_info'[q].pri[p] = SetCapacityFn(queues_info[q].pri[p], c)
        BY <2>1
      <3> QED
        BY <2>2, <3>1, SetFnCapacity
    <2>4. \A s \in Slots : (IF s[1] \in DOMAIN queues_info'
                              THEN queues_info'[s[1]].pri[s[2]].capacity ELSE capacity') = c
      BY <2>1, <2>3, SlotIsPair
    <2>5. ShownLimits' = [s \in Slots |-> IF s \in Slots THEN c ELSE ShownLimits[s]]
      BY <2>4, ShownLimitsAre
    <2>6. UNCHANGED ShownQueues
      BY <1>6, SameQueues DEF SetCapacityForAll
    <2>7. Abs!SetLimit(Abs!Slots, c)
      BY <2>5, <2>6 DEF Abs!SetLimit, Abs!Slots, Slots
    <2> QED
      BY <2>7 DEF Abs!Next
  <1>7. ASSUME NEW q \in QueueIds, NEW p \in Priorities, NEW pps \in Rates,
               SetPriorityRate(q, p, pps)
        PROVE  UNCHANGED <<ShownQueues, ShownLimits>>
    <2> DEFINE pri == SetRateFn(get_queue(q).pri[p], pps)
               info == [get_queue(q) EXCEPT !.pri[p] = pri]
    <2>1. pri \in QueueInfoPri /\ pri.capacity = get_queue(q).pri[p].capacity
      BY <1>2, SetFnType, PriRLAssumption DEF SetRateFn, QueueInfoPri
    <2>2. /\ info.pri[p] = pri
          /\ \A r \in Priorities \ {p} : info.pri[r] = get_queue(q).pri[r]
      BY <1>1, <2>1, QueueInfoExcept
    <2>3. queues_info' = WithQueue(q, info)
      BY <1>7, Zenon DEF SetPriorityRate
    <2> HIDE DEF info, pri
    <2>4. \A r \in Priorities : info.pri[r].capacity = get_queue(q).pri[r].capacity
      BY <2>1, <2>2
    <2> QED
      BY <1>7, <2>3, <2>4, SameQueues, WithQueueSameLimits DEF SetPriorityRate
  <1>8. ASSUME NEW q \in QueueIds, NEW pps \in Rates, SetQueueRate(q, pps)
        PROVE  UNCHANGED <<ShownQueues, ShownLimits>>
    <2> DEFINE f == [p \in Priorities |-> SetRateFn(get_queue(q).pri[p], pps)]
               info == [get_queue(q) EXCEPT !.pri = f]
    <2>1. \A p \in Priorities : /\ f[p] \in QueueInfoPri
                                /\ f[p].capacity = get_queue(q).pri[p].capacity
      BY <1>2, SetFnType, PriRLAssumption DEF SetRateFn, QueueInfoPri
    <2>2. info.pri = f
      BY <1>1, <2>1, QueueInfoExceptAll
    <2>3. queues_info' = WithQueue(q, info)
      BY <1>8, Zenon DEF SetQueueRate
    <2> HIDE DEF info, f
    <2>4. \A r \in Priorities : info.pri[r].capacity = get_queue(q).pri[r].capacity
      BY <2>1, <2>2
    <2> QED
      BY <1>8, <2>3, <2>4, SameQueues, WithQueueSameLimits DEF SetQueueRate
  <1>9. ASSUME NEW pps \in Rates, SetRateForAll(pps)
        PROVE  UNCHANGED <<ShownQueues, ShownLimits>>
    <2>1. /\ DOMAIN queues_info' = DOMAIN queues_info /\ UNCHANGED <<capacity, workers_info>>
          /\ \A q \in DOMAIN queues_info : queues_info'[q].pri =
               [p \in Priorities |-> SetRateFn(queues_info[q].pri[p], pps)]
      <3>1. \A q \in DOMAIN queues_info : queues_info[q] \in QueueInfo
        BY <1>0 DEF TypeOK
      <3> QED
        BY <1>9, <3>1 DEF SetRateForAll, QueueInfo
    <2>2. \A q \in DOMAIN queues_info : \A p \in Priorities :
            queues_info[q].pri[p] \in QueueInfoPri
      BY <1>0 DEF TypeOK, QueueInfo
    <2>3. \A q \in DOMAIN queues_info : \A p \in Priorities :
            queues_info'[q].pri[p].capacity = queues_info[q].pri[p].capacity
      <3>1. \A q \in DOMAIN queues_info : \A p \in Priorities :
              queues_info'[q].pri[p] = SetRateFn(queues_info[q].pri[p], pps)
        BY <2>1
      <3> QED
        BY <2>2, <3>1, SetFnCapacity
    <2>4. \A s \in Slots :
            (IF s[1] \in DOMAIN queues_info'
               THEN queues_info'[s[1]].pri[s[2]].capacity ELSE capacity')
            = IF s[1] \in DOMAIN queues_info
                THEN queues_info[s[1]].pri[s[2]].capacity ELSE capacity
      BY <2>1, <2>3, SlotIsPair
    <2>5. UNCHANGED ShownLimits
      BY <2>4, ShownLimitsAre
    <2> QED
      BY <2>1, <2>5, SameQueues
  <1> QED
    BY <1>4, <1>5, <1>6, <1>7, <1>8, <1>9 DEF Configure

LEMMA ShowsNext ==
  ASSUME IInv, [Next]_vars
  PROVE  [Abs!Next]_(Abs!vars)
  <1> SUFFICES Abs!Next \/ UNCHANGED <<ShownQueues, ShownLimits>>
    BY DEF Abs!vars
  <1>1. CASE Push
    BY <1>1, ShowsPut, ShowsRefused DEF Push, PushFront
  <1>2. CASE Pop
    BY <1>2, PopBackPops, ShowsServe DEF Pop
  <1>3. CASE Configure
    BY <1>3, ShowsConfigure
  <1>4. CASE Tick
    BY <1>4, ShowsNothing DEF Tick
  <1>5. CASE UNCHANGED vars
    BY <1>5, ShowsNothing DEF vars
  <1> QED
    BY <1>1, <1>2, <1>3, <1>4, <1>5 DEF Next

\* RefinesDropTail for every configuration: the heaps that the ports of a
\* worker share, with their clocks and counters, are bounded FIFO queues to
\* whoever pushes and pops.
THEOREM BuffersAreDropTail == Spec => RefinesDropTail
  <1>1. Init => Abs!Init
    BY ShowsInit
  <1>2. IInv /\ [Next]_vars => [Abs!Next]_(Abs!vars)
    BY ShowsNext
  <1> QED
    BY <1>1, <1>2, Invariance, PTL DEF Spec, RefinesDropTail, Abs!Spec
=============================================================================
