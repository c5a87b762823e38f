---------------------------- MODULE LoopTheorems ----------------------------
(***************************************************************************)
(* Induction over the natural numbers, stated of a set, and what it says   *)
(* of loops.                                                               *)
(***************************************************************************)
EXTENDS Loops, WellFoundedInduction, TLAPS

\* A set of natural numbers that is not empty has a least element.
LEMMA LeastNatural ==
  ASSUME NEW S, S \subseteq Nat, S # {}
  PROVE  \E m \in S : \A n \in S : m <= n
  <1>1. \E x \in S : \A y \in S : ~ (<<y, x>> \in OpToRel(<, Nat))
    BY NatLessThanWellFounded, WFMin
  <1>2. \A x, y \in S : <<y, x>> \in OpToRel(<, Nat) <=> y < x
    BY DEF OpToRel
  <1>3. \A x, y \in S : ~(y < x) => x <= y
    OBVIOUS
  <1> QED
    BY <1>1, <1>2, <1>3

\* Induction up to n: a set that has 0 and the successor of each of its
\* elements below n has all numbers up to n.
LEMMA InductionTo ==
  ASSUME NEW n \in Nat, NEW S, 0 \in S, \A k \in 0 .. n - 1 : k \in S => k + 1 \in S
  PROVE  0 .. n \subseteq S
  <1> DEFINE Missing == (0 .. n) \ S
  <1>1. SUFFICES ASSUME Missing # {} PROVE FALSE
    OBVIOUS
  <1>2. PICK m \in Missing : \A k \in Missing : m <= k
    <2>1. Missing \subseteq Nat
      OBVIOUS
    <2> HIDE DEF Missing
    <2> QED
      BY <1>1, <2>1, LeastNatural
  <1>3. m - 1 \in 0 .. n - 1
    BY <1>2
  <1>4. m - 1 \in S
    BY <1>2, <1>3
  <1>5. (m - 1) + 1 \in S
    BY <1>3, <1>4
  <1> QED
    BY <1>2, <1>5

\* v is what Turns asks for: the first value at 0 and at each turn what the
\* step makes of the value before.
AreTurns(v, n, step, first) == v = [k \in 0 .. n |-> IF k = 0 THEN first ELSE step[k][v[k - 1]]]

\* A loop has values.
LEMMA TurnsExist ==
  ASSUME NEW n \in Nat, NEW step, NEW first
  PROVE  \E v : AreTurns(v, n, step, first)
  <1> DEFINE Values(m, v) == AreTurns(v, m, step, first)
             S == {m \in 0 .. n : \E v : Values(m, v)}
  <1>1. 0 \in S
    <2> DEFINE v == [k \in 0 .. 0 |-> first]
    <2>1. Values(0, v)
      BY DEF AreTurns
    <2>2. \E u : Values(0, u)
      BY <2>1
    <2> HIDE DEF Values
    <2> QED
      BY <2>2
  <1>2. ASSUME NEW m \in 0 .. n - 1, m \in S
        PROVE  m + 1 \in S
    <2>1. PICK v : Values(m, v)
      <3> HIDE DEF Values
      <3> QED
        BY <1>2
    <2> DEFINE w == [k \in 0 .. m + 1 |-> IF k = m + 1 THEN step[m + 1][v[m]] ELSE v[k]]
    <2>2. \A k \in 0 .. m : w[k] = v[k]
      OBVIOUS
    <2>3. \A k \in 0 .. m : v[k] = IF k = 0 THEN first ELSE step[k][v[k - 1]]
      BY <2>1 DEF AreTurns
    <2>4. ASSUME NEW k \in 0 .. m + 1
          PROVE  w[k] = IF k = 0 THEN first ELSE step[k][w[k - 1]]
      <3>1. CASE k = m + 1
        <4>1. k # 0 /\ k - 1 = m /\ m \in 0 .. m
          BY <3>1
        <4>2. w[k - 1] = v[m]
          BY <4>1, <2>2
        <4> QED
          BY <3>1, <4>1, <4>2
      <3>2. CASE k # m + 1
        <4>1. k \in 0 .. m /\ w[k] = v[k]
          BY <3>2
        <4>2. k # 0 => w[k - 1] = v[k - 1]
          BY <4>1, <2>2
        <4> QED
          BY <4>1, <4>2, <2>3
      <3> QED
        BY <3>1, <3>2
    <2>5. Values(m + 1, w)
      BY <2>4 DEF AreTurns
    <2>6. \E u : Values(m + 1, u)
      BY <2>5
    <2> HIDE DEF Values
    <2> QED
      BY <2>6
  <1>3. 0 .. n \subseteq S
    <2> HIDE DEF S, Values
    <2> QED
      BY <1>1, <1>2, InductionTo
  <1>4. \E v : Values(n, v)
    <2> HIDE DEF Values
    <2> QED
      BY <1>3
  <1> QED
    BY <1>4

\* The values of a loop are what its step makes of them.
LEMMA TurnsAre ==
  ASSUME NEW n \in Nat, NEW step, NEW first
  PROVE  /\ Turns(n, step, first)[0] = first
         /\ \A k \in 1 .. n : Turns(n, step, first)[k] = step[k][Turns(n, step, first)[k - 1]]
  <1> DEFINE t == Turns(n, step, first)
  <1>1. t = CHOOSE v : AreTurns(v, n, step, first)
    BY DEF Turns, AreTurns
  <1>2. AreTurns(t, n, step, first)
    BY <1>1, TurnsExist
  <1>3. t = [k \in 0 .. n |-> IF k = 0 THEN first ELSE step[k][t[k - 1]]]
    BY <1>2 DEF AreTurns
  <1> HIDE DEF t
  <1>4. t[0] = first
    BY <1>3
  <1>5. \A k \in 1 .. n : t[k] = step[k][t[k - 1]]
    BY <1>3
  <1> QED
    BY <1>4, <1>5 DEF t

\* What is true of the first value and kept by every turn is true of every
\* value.
LEMMA TurnsStayIn ==
  ASSUME NEW n \in Nat, NEW step, NEW first, NEW V, first \in V,
         \A k \in 1 .. n : \A v \in V : step[k][v] \in V
  PROVE  \A k \in 0 .. n : Turns(n, step, first)[k] \in V
  <1> DEFINE t == Turns(n, step, first)
             S == {k \in 0 .. n : t[k] \in V}
  <1>1. 0 \in S
    BY TurnsAre
  <1>2. ASSUME NEW k \in 0 .. n - 1, k \in S
        PROVE  k + 1 \in S
    <2>1. k + 1 \in 1 .. n /\ (k + 1) - 1 = k
      OBVIOUS
    <2>2. t[k + 1] = step[k + 1][t[k]]
      <3> HIDE DEF t
      <3> QED
        BY <2>1, TurnsAre DEF t
    <2> QED
      BY <1>2, <2>1, <2>2
  <1>3. 0 .. n \subseteq S
    <2> HIDE DEF S
    <2> QED
      BY <1>1, <1>2, InductionTo
  <1> QED
    BY <1>3

LEMMA LoopStaysIn ==
  ASSUME NEW n \in Nat, NEW step, NEW first, NEW V, first \in V,
         \A k \in 1 .. n : \A v \in V : step[k][v] \in V
  PROVE  Loop(n, step, first) \in V
  BY TurnsStayIn DEF Loop

\* Loops whose steps do the same with all values that occur are the same.
LEMMA LoopSame ==
  ASSUME NEW n \in Nat, NEW step, NEW other, NEW first, NEW V, first \in V,
         \A k \in 1 .. n : \A v \in V : step[k][v] \in V /\ other[k][v] = step[k][v]
  PROVE  Loop(n, other, first) = Loop(n, step, first)
  <1> DEFINE t == Turns(n, step, first)
             u == Turns(n, other, first)
             S == {k \in 0 .. n : u[k] = t[k]}
  <1>1. /\ t[0] = first /\ u[0] = first
        /\ \A k \in 1 .. n : t[k] = step[k][t[k - 1]] /\ u[k] = other[k][u[k - 1]]
    BY TurnsAre
  <1>2. \A k \in 0 .. n : t[k] \in V
    BY TurnsStayIn
  <1> HIDE DEF t, u
  <1>3. 0 \in S
    BY <1>1
  <1>4. ASSUME NEW k \in 0 .. n - 1, k \in S
        PROVE  k + 1 \in S
    <2>1. k + 1 \in 1 .. n /\ (k + 1) - 1 = k /\ k \in 0 .. n
      OBVIOUS
    <2>2. t[k + 1] = step[k + 1][t[k]] /\ u[k + 1] = other[k + 1][t[k]]
      BY <1>1, <1>4, <2>1
    <2>3. t[k] \in V
      BY <1>2, <2>1
    <2> QED
      BY <2>1, <2>2, <2>3
  <1>5. 0 .. n \subseteq S
    <2> HIDE DEF S
    <2> QED
      BY <1>3, <1>4, InductionTo
  <1>6. u[n] = t[n]
    BY <1>5
  <1> QED
    BY <1>6 DEF t, u, Loop
=============================================================================
