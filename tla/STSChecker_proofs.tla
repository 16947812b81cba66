------------------------- MODULE STSChecker_proofs -------------------------
(***************************************************************************)
(* Facts about the constraints of STSChecker, for every number of buffers, *)
(* every capacity and all bounds.  They speak of the values of one         *)
(* timestep and the backlog before it, so each CP's proof can use them.    *)
(*                                                                         *)
(* And induction over the natural numbers, as facts about sets, for what   *)
(* the CPs compute by a loop over their buffers.                           *)
(***************************************************************************)
EXTENDS STSChecker, WellFoundedInduction, TLAPS

\* The constraints put the offered, enqueued and dropped packets and the
\* backlog flags in the ranges the constructor of STSChecker declares.
LEMMA ArrivalsType ==
  ASSUME NEW pc \in [Bufs -> 0 .. c], NEW i, NEW e, NEW d, NEW b,
         arrivals(pc, i, e, d, b)
  PROVE  /\ i \in [Bufs -> 0 .. MAX_I]
         /\ e \in [Bufs -> 0 .. me]
         /\ d \in [Bufs -> 0 .. me]
         /\ b \in [Bufs -> BOOLEAN]
<1>1. i \in [Bufs -> 0 .. MAX_I] /\ e \in [Bufs -> 0 .. me]
  BY DEF arrivals
<1>2. d \in [Bufs -> 0 .. me]
  BY DEF arrivals
<1>3. b \in [Bufs -> BOOLEAN]
  BY <1>1, ParamsAssumption DEF arrivals, backlogged
<1> QED BY <1>1, <1>2, <1>3

\* The constraints enqs, drops and enq_deq_sum determine what is enqueued and
\* what is dropped from what is offered: as much as fits, and the rest.
LEMMA TakesWhatFits ==
  ASSUME NEW pc \in [Bufs -> 0 .. c], NEW i, NEW e, NEW d, NEW b,
         arrivals(pc, i, e, d, b), NEW n \in Bufs
  PROVE  e[n] = Least(i[n], c - pc[n]) /\ d[n] = i[n] - e[n]
<1>1. i[n] \in 0 .. MAX_I /\ e[n] \in 0 .. me /\ pc[n] \in 0 .. c
  BY DEF arrivals
<1>2. d[n] = i[n] - e[n] /\ d[n] \in 0 .. me
  BY DEF arrivals, enq_deq_sum
<1>3. e[n] + pc[n] <= c
  BY DEF arrivals, enqs
<1>4. b[n] = (pc[n] + e[n] > 0)
  BY DEF arrivals, backlogged
<1>5. IF b[n] THEN d[n] > 0 => pc[n] + e[n] = c ELSE d[n] = 0
  BY DEF arrivals, drops
<1>6. d[n] > 0 => pc[n] + e[n] = c
  BY <1>1, <1>2, <1>5, ParamsAssumption
<1> QED BY <1>1, <1>2, <1>3, <1>6, ParamsAssumption DEF Least

\* The packets that stay are those that were there or came, less those that
\* left, and they fit in the buffer.
LEMMA DeparturesType ==
  ASSUME NEW pc \in [Bufs -> 0 .. c], NEW e \in [Bufs -> 0 .. me], NEW o, NEW pcp,
         departures(pc, e, o, pcp)
  PROVE  /\ pcp \in [Bufs -> 0 .. c]
         /\ \A n \in Bufs : pcp[n] = pc[n] + e[n] - o[n]
BY DEF departures, remaining

\* The backlog before timestep 0 is one the buffers can have.
LEMMA EmptyType == Empty \in [Bufs -> 0 .. c]
BY ParamsAssumption DEF Empty

\* The constraints have a solution for every input of up to me packets per buffer:
\* what fits is enqueued, and as me bounds the input it bounds what is dropped.
LEMMA ArrivalsPossible ==
  ASSUME NEW pc \in [Bufs -> 0 .. c], NEW i \in [Bufs -> 0 .. me]
  PROVE  \E e, d, b : arrivals(pc, i, e, d, b)
<1> DEFINE e == [n \in Bufs |-> Least(i[n], c - pc[n])]
           d == [n \in Bufs |-> enq_deq_sum(i[n], e[n])]
           b == [n \in Bufs |-> backlogged(pc[n], e[n])]
<1>1. ASSUME NEW n \in Bufs
      PROVE  /\ i[n] \in 0 .. MAX_I /\ e[n] \in 0 .. me /\ enqs(pc[n], e[n])
             /\ d[n] \in 0 .. me
             /\ drops(pc[n], e[n], d[n], b[n])
  <2>1. i[n] \in 0 .. me /\ pc[n] \in 0 .. c
    OBVIOUS
  <2>2. /\ e[n] = Least(i[n], c - pc[n]) /\ d[n] = i[n] - e[n]
        /\ b[n] <=> pc[n] + e[n] > 0
    BY DEF enq_deq_sum, backlogged
  <2> HIDE DEF e, d, b
  <2>3. e[n] \in 0 .. me /\ e[n] + pc[n] <= c /\ d[n] \in 0 .. me
    BY <2>1, <2>2, ParamsAssumption DEF Least
  <2>4. d[n] > 0 => pc[n] + e[n] = c
    BY <2>1, <2>2, ParamsAssumption DEF Least
  <2>5. ~b[n] => d[n] = 0
    BY <2>1, <2>2, <2>3, <2>4, ParamsAssumption
  <2> QED BY <2>1, <2>3, <2>4, <2>5, ParamsAssumption DEF enqs, drops
<1>2. arrivals(pc, i, e, d, b)
  <2>1. i \in [Bufs -> 0 .. MAX_I] /\ e \in [Bufs -> 0 .. me]
    BY <1>1
  <2> QED BY <1>1, <2>1 DEF arrivals
<1> QED BY <1>2

\* And for every output that takes a packet from backlogged buffers only.
LEMMA DeparturesPossible ==
  ASSUME NEW pc \in [Bufs -> 0 .. c], NEW i, NEW e, NEW d, NEW b, arrivals(pc, i, e, d, b),
         NEW o \in [Bufs -> 0 .. 1], \A n \in Bufs : o[n] = 1 => b[n]
  PROVE  \E pcp : departures(pc, e, o, pcp)
<1>1. ASSUME NEW n \in Bufs PROVE remaining(pc[n], e[n], o[n]) \in 0 .. c
  <2>1. pc[n] \in 0 .. c /\ e[n] \in 0 .. me /\ o[n] \in 0 .. 1
    BY DEF arrivals
  <2>2. e[n] + pc[n] <= c /\ (b[n] <=> pc[n] + e[n] > 0)
    BY DEF arrivals, enqs, backlogged
  <2>3. o[n] = 1 => pc[n] + e[n] > 0
    BY <2>2
  <2> QED BY <2>1, <2>2, <2>3, ParamsAssumption DEF remaining
<1> QED BY <1>1 DEF departures

-----------------------------------------------------------------------------
(***************************************************************************)
(* Induction, stated about a set T that a proof takes to be the numbers    *)
(* with some property.                                                     *)
(***************************************************************************)

\* A set of natural numbers has a least member.
LEMMA NatMin ==
  ASSUME NEW T \in SUBSET Nat, T # {}
  PROVE  \E m \in T : \A n \in T : m <= n
<1> DEFINE R == OpToRel(<, Nat)
<1>1. IsWellFoundedOn(R, Nat)
  BY NatLessThanWellFounded
<1>2. \A x, y \in Nat : <<x, y>> \in R <=> x < y
  BY DEF OpToRel
<1> HIDE DEF R
<1>3. PICK m \in T : \A n \in T : <<n, m>> \notin R
  BY <1>1, WFMin
<1>4. \A n \in T : m <= n
  <2> SUFFICES ASSUME NEW n \in T PROVE m <= n
    OBVIOUS
  <2>1. m \in Nat /\ n \in Nat
    OBVIOUS
  <2>2. ~(n < m)
    BY <1>2, <1>3, <2>1, Zenon
  <2> QED BY <2>1, <2>2
<1> QED BY <1>4

\* A set that has 0, and with every number below m the next, has all up to m.
LEMMA UpTo ==
  ASSUME NEW m \in Nat, NEW T, 0 \in T,
         \A n \in 0 .. m - 1 : n \in T => n + 1 \in T
  PROVE  \A n \in 0 .. m : n \in T
<1> DEFINE Q == (0 .. m) \ T
<1> SUFFICES ASSUME Q # {} PROVE FALSE
  OBVIOUS
<1>1. Q \in SUBSET Nat
  OBVIOUS
<1>2. PICK x \in Q : \A y \in Q : x <= y
  BY <1>1, NatMin
<1>3. x \in 0 .. m /\ x # 0
  OBVIOUS
<1>4. x - 1 \in T
  BY <1>2, <1>3
<1> QED BY <1>3, <1>4

\* The m steps of a loop over the values S, and what it computes from a.
Loops(m, S) == [1 .. m -> [S -> S]]
Computes(f, m, a, G) == f[0] = a /\ \A n \in 1 .. m : f[n] = G[n][f[n - 1]]

\* A loop computes a value after each of its steps.
LEMMA Recursion ==
  ASSUME NEW m \in Nat, NEW S, NEW a \in S, NEW G \in Loops(m, S)
  PROVE  \E f \in [0 .. m -> S] : Computes(f, m, a, G)
<1> USE DEF Loops, Computes
<1> DEFINE Good(f, k) == f[0] = a /\ \A n \in 1 .. k : f[n] = G[n][f[n - 1]]
           T == {k \in 0 .. m : \E f \in [0 .. k -> S] : Good(f, k)}
<1>1. 0 \in T
  <2>1. [n \in 0 .. 0 |-> a] \in [0 .. 0 -> S] /\ Good([n \in 0 .. 0 |-> a], 0)
    OBVIOUS
  <2>2. 0 \in 0 .. m /\ \E f \in [0 .. 0 -> S] : Good(f, 0)
    <3> HIDE DEF Good
    <3> QED BY <2>1
  <2> QED BY <2>2
<1>2. ASSUME NEW k \in 0 .. m - 1, k \in T PROVE k + 1 \in T
  <2>1. PICK f \in [0 .. k -> S] : Good(f, k)
    BY <1>2
  <2> DEFINE g == [n \in 0 .. k + 1 |-> IF n = k + 1 THEN G[k + 1][f[k]] ELSE f[n]]
  <2>2. g \in [0 .. k + 1 -> S]
    <3>1. k \in 0 .. k /\ k + 1 \in 1 .. m
      OBVIOUS
    <3>2. G[k + 1][f[k]] \in S
      BY <3>1
    <3>3. \A n \in 0 .. k + 1 : n # k + 1 => n \in 0 .. k
      OBVIOUS
    <3> QED BY <3>2, <3>3
  <2>3. g[0] = a /\ g[k + 1] = G[k + 1][g[k]]
    BY <2>1
  <2>4. ASSUME NEW n \in 1 .. k PROVE g[n] = G[n][g[n - 1]]
    BY <2>1
  <2>5. Good(g, k + 1)
    <3> HIDE DEF g
    <3>1. ASSUME NEW n \in 1 .. k + 1 PROVE g[n] = G[n][g[n - 1]]
      <4>1. CASE n \in 1 .. k
        BY <2>4, <4>1
      <4>2. CASE n = k + 1
        BY <2>3, <4>2
      <4> QED BY <4>1, <4>2
    <3> QED BY <2>3, <3>1
  <2>6. k + 1 \in 0 .. m
    OBVIOUS
  <2> QED BY <2>2, <2>5, <2>6
<1>3. \A k \in 0 .. m : k \in T
  BY <1>1, <1>2, UpTo
<1> QED BY <1>3
=============================================================================
