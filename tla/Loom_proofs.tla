---------------------------- MODULE Loom_proofs ----------------------------
(***************************************************************************)
(* The Loom case study, for every number of round robins and every         *)
(* capacity.  The merger is a wire: its buffers, a quarter of the          *)
(* composition's, could be left out of the constraints.  No packet is lost *)
(* on the way, none is excluded by the bounds of the priority CP as long   *)
(* as there are no more round robins than it can enqueue in a timestep,    *)
(* packets of type 2 go first through the whole system, and no CP is idle  *)
(* while it holds a packet.                                                *)
(***************************************************************************)
EXTENDS Loom, SequenceTheorems, TLAPS

\* For the sum of the merger's outputs, which is computed one by one.
Buf == INSTANCE STSChecker_proofs
         WITH num_bufs <- 2, me <- MAX_ENQ, md <- MAX_DEQ, MAX_I <- MAX_ENQ,
              I <- rrC, E <- rrC, D <- rrC, B <- rrC, O <- rrC, C <- rrC

LEMMA BufParams == Buf!ParamsAssumption
BY LoomAssumption DEF Buf!ParamsAssumption

\* Every buffer of the merger is empty.
MergerEmpty == mgC \in [RRs -> {None}]

\* A packet that is offered to an empty buffer of the merger is enqueued, whole.
LEMMA WireEnqueues ==
  ASSUME NEW p \in packet
  PROVE  enqueues(None, p) = {p}
<1>1. p \in [Types -> 0 .. 1] /\ sum(p) \in 0 .. 1
  BY DEF packet, vec, Types, sum
<1>2. ASSUME NEW e \in vec(MAX_ENQ)
      PROVE  arrives(None, p, e) <=> e = p
  <2>1. /\ p[0] \in Nat /\ p[1] \in Nat /\ p[2] \in Nat
        /\ e[0] \in Nat /\ e[1] \in Nat /\ e[2] \in Nat
    BY <1>1 DEF Types, vec
  <2>2. /\ sum(None) = 0
        /\ \A d : sum(d) = d[0] + d[1] + d[2]
    BY DEF sum, None, Types
  <2> DEFINE d == [k \in Types |-> p[k] - e[k]]
  <2>3. d[0] = p[0] - e[0] /\ d[1] = p[1] - e[1] /\ d[2] = p[2] - e[2]
    BY DEF Types
  <2>4. arrives(None, p, e) <=>
          /\ d \in vec(MAX_ENQ)
          /\ sum(e) + 0 <= c
          /\ IF 0 + sum(e) > 0 THEN sum(d) > 0 => 0 + sum(e) = c ELSE sum(d) = 0
    BY <2>2 DEF arrives, RR!enqs, RR!drops, RR!backlogged, RR!enq_deq_sum
  <2> HIDE DEF d
  <2>5. ASSUME arrives(None, p, e) PROVE e = p
    <3>1. d[0] \in Nat /\ d[1] \in Nat /\ d[2] \in Nat
      BY <2>4, <2>5 DEF vec, Types
    <3>2. sum(e) = e[0] + e[1] + e[2] /\ sum(d) = d[0] + d[1] + d[2]
      BY <2>2
    <3>3. sum(e) + sum(d) <= 1
      <4>1. sum(p) = p[0] + p[1] + p[2] /\ sum(p) <= 1
        BY <2>2, <1>1
      <4> QED
        BY <4>1, <3>2, <2>3, <2>1
    <3>4. sum(d) = 0
      BY <3>3, <3>2, <3>1, <2>1, <2>4, <2>5, LoomAssumption
    <3>5. d[0] = 0 /\ d[1] = 0 /\ d[2] = 0
      BY <3>4, <3>2, <3>1
    <3>6. p[0] = e[0] /\ p[1] = e[1] /\ p[2] = e[2]
      BY <3>5, <2>3, <2>1
    <3> QED
      BY <3>6, <1>1 DEF vec, Types
  <2>6. ASSUME e = p PROVE arrives(None, p, e)
    <3>1. d = None
      BY <2>6, <2>1 DEF d, None, Types
    <3>2. d \in vec(MAX_ENQ)
      BY <3>1, LoomAssumption DEF None, vec
    <3> QED
      BY <3>1, <3>2, <2>2, <2>4, <2>6, <1>1, LoomAssumption
  <2> QED
    BY <2>5, <2>6
<1>3. p \in vec(MAX_ENQ)
  BY <1>1, LoomAssumption DEF vec
<1> QED
  BY <1>2, <1>3 DEF enqueues

\* And it is sent on.
LEMMA WireSends ==
  ASSUME NEW p \in packet
  PROVE  merger_out(None, p) = {p} /\ left(None, p, p) = None
<1>1. p \in [Types -> 0 .. 1] /\ sum(p) \in 0 .. 1
  BY DEF packet, vec, Types, sum
<1>2. p[0] \in 0 .. 1 /\ p[1] \in 0 .. 1 /\ p[2] \in 0 .. 1 /\ sum(p) = p[0] + p[1] + p[2]
  BY <1>1 DEF Types, sum
<1>3. left(None, p, p) = None
  BY <1>1 DEF left, None, RR!remaining, Types
<1>4. ASSUME NEW o \in vec(MAX_DEQ)
      PROVE  left(None, p, o) \in vec(c) /\ sum(o) >= sum(p) => o = p
  <2>1. o[0] \in Nat /\ o[1] \in Nat /\ o[2] \in Nat /\ sum(o) = o[0] + o[1] + o[2]
    BY DEF vec, Types, sum
  <2>2. left(None, p, o) = [k \in Types |-> p[k] - o[k]]
    BY <1>1, <2>1 DEF left, None, RR!remaining, Types, vec
  <2>3. ASSUME left(None, p, o) \in vec(c), sum(o) >= sum(p) PROVE o = p
    <3>1. p[0] - o[0] \in Nat /\ p[1] - o[1] \in Nat /\ p[2] - o[2] \in Nat
      BY <2>2, <2>3 DEF vec, Types
    <3>2. p[0] = o[0] /\ p[1] = o[1] /\ p[2] = o[2]
      BY <3>1, <2>1, <2>3, <1>2
    <3> QED
      BY <3>2, <1>1 DEF vec, Types
  <2> QED
    BY <2>3
<1>5. p \in vec(MAX_DEQ) /\ None \in vec(c)
  BY <1>1, LoomAssumption DEF vec, None
<1>6. RR!backlogged(sum(None), sum(p)) <=> sum(p) = 1
  BY <1>1 DEF RR!backlogged, sum, None, Types
<1>7. \A o : o \in merger_out(None, p) <=>
        /\ o \in vec(MAX_DEQ) /\ left(None, p, o) \in vec(c)
        /\ sum(o) \in (IF sum(p) = 1 THEN {1} ELSE 0 .. 3 * MAX_DEQ)
  BY <1>6 DEF merger_out, departures
<1>8. ASSUME NEW o \in merger_out(None, p) PROVE o = p
  <2>1. o \in vec(MAX_DEQ) /\ left(None, p, o) \in vec(c) /\ sum(o) >= sum(p)
    BY <1>7, <1>8, <1>1, LoomAssumption
  <2> QED
    BY <2>1, <1>4
<1>9. p \in merger_out(None, p)
  BY <1>7, <1>5, <1>3, <1>1, LoomAssumption
<1> QED
  BY <1>3, <1>8, <1>9

\* A round robin sends at most one packet: only the buffer with the turn sends.
LEMMA OnePacket ==
  ASSUME NEW s \in Bufs, NEW b, NEW pc, NEW e,
         NEW o0 \in departures(pc[0], e[0], RR!out(b, s)[0]),
         NEW o1 \in departures(pc[1], e[1], RR!out(b, s)[1])
  PROVE  plus(o0, o1) \in packet
<1>1. o0 \in vec(MAX_DEQ) /\ o1 \in vec(MAX_DEQ)
  BY DEF departures
<1>2. /\ o0[0] \in Nat /\ o0[1] \in Nat /\ o0[2] \in Nat
      /\ o1[0] \in Nat /\ o1[1] \in Nat /\ o1[2] \in Nat
  BY <1>1 DEF vec, Types
<1>3. sum(o0) = RR!out(b, s)[0] /\ sum(o1) = RR!out(b, s)[1]
  BY DEF departures
<1>4. /\ RR!out(b, s)[0] = IF b[0] /\ s = 0 THEN 1 ELSE 0
      /\ RR!out(b, s)[1] = IF b[1] /\ s = 1 THEN 1 ELSE 0
  BY DEF RR!out, RR!Bufs
<1>5. sum(o0) + sum(o1) <= 1
  BY <1>3, <1>4 DEF Bufs
<1> DEFINE p == plus(o0, o1)
<1>6. /\ p = [k \in Types |-> o0[k] + o1[k]]
      /\ p[0] = o0[0] + o1[0] /\ p[1] = o0[1] + o1[1] /\ p[2] = o0[2] + o1[2]
  BY DEF plus, Types
<1> HIDE DEF p
<1>7. sum(p) <= 1 /\ p[0] \in 0 .. 1 /\ p[1] \in 0 .. 1 /\ p[2] \in 0 .. 1
  <2>1. p[0] \in Nat /\ p[1] \in Nat /\ p[2] \in Nat
    BY <1>2, <1>6
  <2>2. sum(p) = p[0] + p[1] + p[2]
    BY DEF sum
  <2>3. o0[0] + o0[1] + o0[2] + o1[0] + o1[1] + o1[2] <= 1
    BY <1>2, <1>5 DEF sum
  <2>4. sum(p) <= 1
    BY <2>1, <2>2, <2>3, <1>2, <1>6
  <2> QED
    BY <2>1, <2>2, <2>4
<1>8. p \in vec(1)
  BY <1>6, <1>7 DEF vec, Types
<1> QED
  BY <1>7, <1>8 DEF p, packet

\* A step of the composition leaves the merger empty.
LEMMA MergerStep ==
  ASSUME MergerEmpty, [Next]_vars
  PROVE  MergerEmpty'
<1>1. CASE Branch
  <2> DEFINE r == Len(link) + 1
             sent(e, s, n) == departures(rrC[r][n], e[n], RR!out(backlog(rrC[r], e), s)[n])
  <2>1. PICK e0 \in inputs(0), e1 \in inputs(1), s \in Bufs :
          LET e == both(e0, e1) IN
          /\ \A n \in Bufs : arrives(rrC[r][n], e[n], e[n])
          /\ turn(rrS[r], backlog(rrC[r], e), s)
          /\ \E o0 \in sent(e, s, 0), o1 \in sent(e, s, 1) :
               /\ rrC' = [rrC EXCEPT ![r] = [n \in Bufs |-> left(@[n], e[n], both(o0, o1)[n])]]
               /\ Merger(r, plus(o0, o1))
          /\ rrS' = [rrS EXCEPT ![r] = s]
    BY <1>1, Zenon DEF Branch
  <2>2. PICK p \in packet : Merger(r, p)
    BY <2>1, OnePacket
  <2>3. PICK e \in enqueues(mgC[r], p) : \E o \in merger_out(mgC[r], e) :
          mgC' = [mgC EXCEPT ![r] = left(mgC[r], e, o)]
    BY <2>2 DEF Merger
  <2>4. PICK o \in merger_out(mgC[r], e) : mgC' = [mgC EXCEPT ![r] = left(mgC[r], e, o)]
    BY <2>3
  <2>5. CASE r \in RRs
    <3>1. mgC[r] = None
      BY <2>5 DEF MergerEmpty
    <3>2. e = p
      BY <3>1, WireEnqueues
    <3>3. o = p /\ left(mgC[r], e, o) = None
      BY <3>1, <3>2, WireSends
    <3> QED
      BY <2>4, <3>3 DEF MergerEmpty
  <2>6. CASE r \notin RRs
    BY <2>4, <2>6 DEF MergerEmpty
  <2> QED
    BY <2>5, <2>6
<1>2. CASE Priority \/ UNCHANGED vars
  BY <1>2 DEF Priority, MergerEmpty, vars
<1> QED
  BY <1>1, <1>2 DEF Next

\* The merger is a wire: its buffers are empty after every timestep and pass on
\* what a round robin sends in the same timestep, in the only way the constraints
\* allow.
THEOREM MergerTransparent == Spec => []MergerIsWire
<1>1. Init => MergerEmpty
  BY DEF Init, MergerEmpty
<1>2. MergerEmpty /\ [Next]_vars => MergerEmpty'
  BY MergerStep
<1>3. MergerEmpty => MergerIsWire
  BY WireEnqueues, WireSends DEF MergerEmpty, MergerIsWire
<1> QED
  BY <1>1, <1>2, <1>3, PTL DEF Spec

-----------------------------------------------------------------------------
\* A sum of vectors is one of each type, and no less than any of its parts.
LEMMA Sums ==
  ASSUME NEW u \in [Types -> Nat], NEW v \in [Types -> Nat]
  PROVE  /\ sum(u) \in Nat /\ sum(u) = u[0] + u[1] + u[2]
         /\ plus(u, v) \in [Types -> Nat] /\ sum(plus(u, v)) = sum(u) + sum(v)
         /\ \A k \in Types : plus(u, v)[k] = u[k] + v[k] /\ u[k] <= sum(u)
<1>1. /\ u[0] \in Nat /\ u[1] \in Nat /\ u[2] \in Nat
      /\ v[0] \in Nat /\ v[1] \in Nat /\ v[2] \in Nat
  BY DEF Types
<1>2. /\ plus(u, v) = [k \in Types |-> u[k] + v[k]]
      /\ plus(u, v)[0] = u[0] + v[0] /\ plus(u, v)[1] = u[1] + v[1]
      /\ plus(u, v)[2] = u[2] + v[2]
  BY DEF plus, Types
<1>3. sum(u) = u[0] + u[1] + u[2] /\ sum(v) = v[0] + v[1] + v[2]
  BY DEF sum
<1>4. sum(plus(u, v)) = plus(u, v)[0] + plus(u, v)[1] + plus(u, v)[2]
  BY DEF sum
<1>5. plus(u, v) \in [Types -> Nat]
  BY <1>2
<1>6. sum(plus(u, v)) = sum(u) + sum(v)
  BY <1>1, <1>2, <1>3, <1>4
<1>7. \A k \in Types : u[k] <= sum(u)
  BY <1>1, <1>3 DEF Types
<1> QED BY <1>1, <1>2, <1>3, <1>5, <1>6, <1>7

\* What the classifier is given is no more than one packet for each round robin.
LEMMA MergedType ==
  ASSUME NEW o \in [RRs -> packet]
  PROVE  merged(o) \in [Types -> Nat] /\ sum(merged(o)) <= NumRR
<1> DEFINE V == [Types -> Nat]
           upTo[r \in 0 .. NumRR] == IF r = 0 THEN None ELSE plus(upTo[r - 1], o[r])
           G == [r \in 1 .. NumRR |-> [v \in V |-> plus(v, o[r])]]
<1>1. merged(o) = upTo[NumRR]
  BY DEF merged
<1>2. NumRR \in Nat
  BY LoomAssumption
<1>3. None \in V /\ sum(None) = 0
  BY DEF None, sum, Types
<1>4. ASSUME NEW r \in RRs PROVE o[r] \in V /\ sum(o[r]) <= 1
  BY DEF packet, vec
<1>5. G \in Buf!Loops(NumRR, V)
  BY <1>4, Sums DEF RRs, Buf!Loops
<1>6. PICK f \in [0 .. NumRR -> V] : Buf!Computes(f, NumRR, None, G)
  <2> HIDE DEF G, V, upTo
  <2>1. None \in V
    BY <1>3
  <2> QED BY <1>2, <2>1, <1>5, BufParams, Buf!Recursion, Zenon
<1>7. ASSUME NEW r \in 1 .. NumRR PROVE f[r] = plus(f[r - 1], o[r])
  <2>1. f[r - 1] \in V
    <3>1. r - 1 \in 0 .. NumRR
      BY <1>2
    <3> HIDE DEF V
    <3> QED BY <1>6, <3>1
  <2> HIDE DEF V, upTo
  <2>2. G[r][f[r - 1]] = plus(f[r - 1], o[r])
    BY <2>1
  <2> QED BY <1>6, <2>2 DEF Buf!Computes
<1>8. f = [r \in 0 .. NumRR |-> IF r = 0 THEN None ELSE plus(f[r - 1], o[r])]
  <2> HIDE DEF V, upTo, G
  <2>1. \A r \in 0 .. NumRR : r # 0 => r \in 1 .. NumRR
    BY <1>2
  <2> QED BY <1>6, <1>7, <2>1 DEF Buf!Computes
<1>9. \A r \in 0 .. NumRR : upTo[r] = IF r = 0 THEN None ELSE plus(upTo[r - 1], o[r])
  <2>1. upTo = [r \in 0 .. NumRR |-> IF r = 0 THEN None ELSE plus(upTo[r - 1], o[r])]
    BY <1>8
  <2> HIDE DEF upTo
  <2> QED BY <2>1
<1> HIDE DEF upTo, G
<1> DEFINE T == {r \in 0 .. NumRR : upTo[r] \in V /\ sum(upTo[r]) <= r}
<1>10. 0 \in T
  BY <1>2, <1>3, <1>9
<1>11. ASSUME NEW r \in 0 .. NumRR - 1, r \in T PROVE r + 1 \in T
  <2>1. r + 1 \in RRs /\ r + 1 \in 0 .. NumRR /\ r \in Nat /\ r + 1 # 0 /\ r + 1 - 1 = r
    BY <1>2 DEF RRs
  <2>2. upTo[r + 1] = plus(upTo[r], o[r + 1])
    <3>1. upTo[r + 1] = IF r + 1 = 0 THEN None ELSE plus(upTo[r + 1 - 1], o[r + 1])
      BY <1>9, <2>1
    <3> QED BY <2>1, <3>1
  <2>3. upTo[r] \in V /\ sum(upTo[r]) <= r
    BY <1>11
  <2>4. o[r + 1] \in V /\ sum(o[r + 1]) <= 1
    BY <1>4, <2>1
  <2>5. /\ sum(upTo[r]) \in Nat /\ sum(o[r + 1]) \in Nat
        /\ plus(upTo[r], o[r + 1]) \in V
        /\ sum(plus(upTo[r], o[r + 1])) = sum(upTo[r]) + sum(o[r + 1])
    BY <2>3, <2>4, Sums
  <2>6. upTo[r + 1] \in V /\ sum(upTo[r + 1]) <= r + 1
    <3> HIDE DEF V
    <3> QED BY <2>1, <2>2, <2>3, <2>4, <2>5
  <2> QED BY <2>1, <2>6
<1>12. NumRR \in T
  <2> HIDE DEF T
  <2>1. \A r \in 0 .. NumRR - 1 : r \in T => r + 1 \in T
    BY <1>11
  <2>2. \A r \in 0 .. NumRR : r \in T
    BY <1>2, <1>10, <2>1, BufParams, Buf!UpTo
  <2> QED BY <1>2, <2>2
<1> QED BY <1>1, <1>12

-----------------------------------------------------------------------------
\* A vector within bounds, type by type.
LEMMA Parts ==
  ASSUME NEW b \in Nat, NEW v \in vec(b)
  PROVE  /\ v \in [Types -> Nat] /\ v[0] \in 0 .. b /\ v[1] \in 0 .. b /\ v[2] \in 0 .. b
         /\ sum(v) = v[0] + v[1] + v[2] /\ sum(v) \in Nat
<1>1. v[0] \in 0 .. b /\ v[1] \in 0 .. b /\ v[2] \in 0 .. b
  BY DEF vec, Types
<1>2. v \in [Types -> Nat]
  BY DEF vec
<1> QED BY <1>1, <1>2 DEF sum

\* What is in a buffer that enqueued e and sent o: what was there and came, less
\* what left, which fits.
LEMMA Holds ==
  ASSUME NEW pc \in buffer, NEW e \in vec(MAX_ENQ), sum(e) + sum(pc) <= c,
         NEW n \in Nat, NEW o \in departures(pc, e, n)
  PROVE  /\ left(pc, e, o) \in buffer
         /\ \A k \in Types : left(pc, e, o)[k] = pc[k] + e[k] - o[k] /\ o[k] <= pc[k] + e[k]
         /\ o \in vec(MAX_DEQ) /\ sum(o) = n
<1>1. o \in vec(MAX_DEQ) /\ sum(o) = n /\ left(pc, e, o) \in vec(c)
  BY DEF departures
<1> DEFINE l == left(pc, e, o)
<1>2. /\ l[0] = pc[0] + e[0] - o[0] /\ l[1] = pc[1] + e[1] - o[1]
      /\ l[2] = pc[2] + e[2] - o[2]
  BY DEF left, RR!remaining, Types
<1> HIDE DEF l
<1>3. /\ sum(pc) = pc[0] + pc[1] + pc[2] /\ pc[0] \in Nat /\ pc[1] \in Nat /\ pc[2] \in Nat
  BY Parts, LoomAssumption DEF buffer
<1>4. /\ sum(e) = e[0] + e[1] + e[2] /\ e[0] \in Nat /\ e[1] \in Nat /\ e[2] \in Nat
  BY Parts, LoomAssumption
<1>5. /\ sum(o) = o[0] + o[1] + o[2] /\ o[0] \in Nat /\ o[1] \in Nat /\ o[2] \in Nat
  BY <1>1, Parts, LoomAssumption
<1>6. l \in vec(c) /\ sum(l) = l[0] + l[1] + l[2] /\ l[0] \in Nat /\ l[1] \in Nat /\ l[2] \in Nat
  <2>1. l \in vec(c)
    BY <1>1 DEF l
  <2> QED BY <2>1, Parts, LoomAssumption
<1>7. sum(l) <= c
  BY <1>2, <1>3, <1>4, <1>5, <1>6, LoomAssumption
<1>8. \A k \in Types : l[k] = pc[k] + e[k] - o[k] /\ o[k] <= pc[k] + e[k]
  BY <1>2, <1>3, <1>4, <1>5, <1>6 DEF Types
<1> QED BY <1>1, <1>6, <1>7, <1>8 DEF l, buffer

\* What a buffer drops of the packets i it is offered: the rest, and none of it
\* unless it is full.
LEMMA Drops ==
  ASSUME NEW pc \in buffer, NEW i \in [Types -> Nat], NEW e \in enqueues(pc, i)
  PROVE  /\ e \in vec(MAX_ENQ) /\ sum(e) + sum(pc) <= c
         /\ \A k \in Types : e[k] <= i[k]
         /\ sum(e) < sum(i) => sum(pc) + sum(e) = c
<1> DEFINE d == [k \in Types |-> RR!enq_deq_sum(i[k], e[k])]
<1>1. /\ e \in vec(MAX_ENQ) /\ d \in vec(MAX_ENQ) /\ sum(e) + sum(pc) <= c
      /\ IF sum(pc) + sum(e) > 0 THEN sum(d) > 0 => sum(pc) + sum(e) = c ELSE sum(d) = 0
  BY DEF enqueues, arrives, RR!enqs, RR!drops, RR!backlogged
<1>2. d[0] = i[0] - e[0] /\ d[1] = i[1] - e[1] /\ d[2] = i[2] - e[2]
  BY DEF RR!enq_deq_sum, Types
<1> HIDE DEF d
<1>3. sum(d) = d[0] + d[1] + d[2] /\ d[0] \in Nat /\ d[1] \in Nat /\ d[2] \in Nat
  BY <1>1, Parts, LoomAssumption
<1>4. sum(e) = e[0] + e[1] + e[2] /\ e[0] \in Nat /\ e[1] \in Nat /\ e[2] \in Nat
  BY <1>1, Parts, LoomAssumption
<1>5. sum(i) = i[0] + i[1] + i[2] /\ i[0] \in Nat /\ i[1] \in Nat /\ i[2] \in Nat
  BY DEF sum, Types
<1>6. sum(pc) \in Nat
  BY Parts, LoomAssumption DEF buffer
<1>7. \A k \in Types : e[k] <= i[k]
  BY <1>2, <1>3, <1>4, <1>5 DEF Types
<1>8. sum(d) = sum(i) - sum(e)
  BY <1>2, <1>3, <1>4, <1>5
<1>9. sum(e) < sum(i) => sum(pc) + sum(e) = c
  BY <1>8, <1>1, <1>3, <1>4, <1>5, <1>6
<1> QED BY <1>1, <1>7, <1>9

\* The classifier's output, type by type.
LEMMA Classifies ==
  ASSUME NEW v \in [Types -> Nat]
  PROVE  /\ set_out(v)[0] \in [Types -> Nat] /\ set_out(v)[1] \in [Types -> Nat]
         /\ set_out(v)[0][0] = 0 /\ set_out(v)[0][1] = 0 /\ set_out(v)[0][2] = v[2]
         /\ set_out(v)[1][0] = v[0] /\ set_out(v)[1][1] = v[1] /\ set_out(v)[1][2] = 0
         /\ sum(set_out(v)[0]) = v[2] /\ sum(set_out(v)[1]) = v[0] + v[1]
<1>1. /\ set_out(v)[0] = [v EXCEPT ![0] = 0, ![1] = 0]
      /\ set_out(v)[1] = [v EXCEPT ![2] = 0]
  BY DEF set_out, both, Bufs
<1>2. v[0] \in Nat /\ v[1] \in Nat /\ v[2] \in Nat
  BY DEF Types
<1> QED BY <1>1, <1>2 DEF Types, sum

\* A step of the priority CP, buffer by buffer.
LEMMA PriorityStep ==
  ASSUME NEW pc, NEW i, NEW out \in priority(pc, i)
  PROVE  \E e0 \in enqueues(pc[0], i[0]), e1 \in enqueues(pc[1], i[1]), n0 \in 0 .. 1, n1 \in 0 .. 1 :
         \E o0 \in departures(pc[0], e0, n0), o1 \in departures(pc[1], e1, n1) :
           /\ n0 = IF sum(pc[0]) + sum(e0) > 0 THEN 1 ELSE 0
           /\ n1 = IF sum(pc[1]) + sum(e1) > 0 /\ ~(sum(pc[0]) + sum(e0) > 0) THEN 1 ELSE 0
           /\ out[1] = left(pc[0], e0, o0) /\ out[2] = left(pc[1], e1, o1)
           /\ out[3] = plus(o0, o1)
<1>1. PICK e0 \in enqueues(pc[0], i[0]), e1 \in enqueues(pc[1], i[1]) :
        \E o0 \in departures(pc[0], both(e0, e1)[0], Prio!out(backlog(pc, both(e0, e1)))[0]),
           o1 \in departures(pc[1], both(e0, e1)[1], Prio!out(backlog(pc, both(e0, e1)))[1]) :
          out = <<left(pc[0], e0, o0), left(pc[1], e1, o1), plus(o0, o1)>>
  BY DEF priority
<1>2. /\ both(e0, e1)[0] = e0 /\ both(e0, e1)[1] = e1
      /\ backlog(pc, both(e0, e1))[0] = (sum(pc[0]) + sum(e0) > 0)
      /\ backlog(pc, both(e0, e1))[1] = (sum(pc[1]) + sum(e1) > 0)
  BY DEF both, backlog, Bufs, RR!backlogged
<1> DEFINE n == Prio!out(backlog(pc, both(e0, e1)))
<1>3. /\ n[0] = IF sum(pc[0]) + sum(e0) > 0 THEN 1 ELSE 0
      /\ n[1] = IF sum(pc[1]) + sum(e1) > 0 /\ ~(sum(pc[0]) + sum(e0) > 0) THEN 1 ELSE 0
  <2>1. Prio!Bufs = 0 .. 1
    BY DEF Prio!Bufs
  <2>2. ASSUME NEW b PROVE /\ Prio!out(b)[0] = IF b[0] THEN 1 ELSE 0
                           /\ Prio!out(b)[1] = IF b[1] /\ ~b[0] THEN 1 ELSE 0
    BY <2>1 DEF Prio!out
  <2> QED BY <2>2, <1>2
<1>4. n[0] \in 0 .. 1 /\ n[1] \in 0 .. 1
  BY <1>3
<1>5. PICK o0 \in departures(pc[0], e0, n[0]), o1 \in departures(pc[1], e1, n[1]) :
          out = <<left(pc[0], e0, o0), left(pc[1], e1, o1), plus(o0, o1)>>
  BY <1>1, <1>2
<1> HIDE DEF n
<1>6. out[1] = left(pc[0], e0, o0) /\ out[2] = left(pc[1], e1, o1) /\ out[3] = plus(o0, o1)
  BY <1>5
<1> QED BY <1>3, <1>4, <1>6

-----------------------------------------------------------------------------
\* The classifier separates the types: only type 2 is in the first buffer of the
\* priority CP, and none of it in the second.
Separate == prC[0][0] = 0 /\ prC[0][1] = 0 /\ prC[1][2] = 0

LoomInv == LoomTypeOK /\ MergerEmpty /\ Separate

\* What the round robins sent in this timestep, and its sum.
LEMMA LinkType ==
  ASSUME LoomTypeOK
  PROVE  /\ Len(link) \in 0 .. NumRR /\ link \in Seq(packet)
         /\ link \in [1 .. Len(link) -> packet]
         /\ Len(link) = NumRR => /\ merged(link) \in [Types -> Nat]
                                 /\ sum(merged(link)) <= NumRR
<1>1. PICK n \in 0 .. NumRR : link \in [1 .. n -> packet]
  BY DEF LoomTypeOK
<1>2. n \in Nat
  BY LoomAssumption
<1>3. link \in Seq(packet) /\ Len(link) = n
  BY <1>1, <1>2, SeqDef, LenProperties
<1>4. Len(link) = NumRR => merged(link) \in [Types -> Nat] /\ sum(merged(link)) <= NumRR
  BY <1>1, <1>3, MergedType DEF RRs
<1> QED BY <1>1, <1>3, <1>4

\* What a step of the priority CP does to the packets of each type, v being what
\* the classifier is given and out what the CP holds next and sends.
LEMMA PriorityFlow ==
  ASSUME NEW pc \in [Bufs -> buffer], pc[0][0] = 0, pc[0][1] = 0, pc[1][2] = 0,
         NEW v \in [Types -> Nat], NEW out \in priority(pc, set_out(v))
  PROVE  /\ out[1] \in buffer /\ out[2] \in buffer /\ out[3] \in packet
         /\ out[1][0] = 0 /\ out[1][1] = 0 /\ out[2][2] = 0
         /\ \A k \in Types : out[1][k] + out[2][k] + out[3][k] <= pc[0][k] + pc[1][k] + v[k]
         /\ out[1][2] + out[3][2] < pc[0][2] + v[2] => pc[0][2] + v[2] > c
         /\ out[2][0] + out[2][1] + out[3][0] + out[3][1] < sum(pc[1]) + v[0] + v[1]
              => sum(pc[1]) + v[0] + v[1] > c
         /\ out[3][0] + out[3][1] > 0 => pc[0] = None /\ v[2] = 0
<1> DEFINE i0 == set_out(v)[0]
           i1 == set_out(v)[1]
<1>1. PICK e0 \in enqueues(pc[0], i0), e1 \in enqueues(pc[1], i1),
           n0 \in 0 .. 1, n1 \in 0 .. 1 :
         \E o0 \in departures(pc[0], e0, n0), o1 \in departures(pc[1], e1, n1) :
           /\ n0 = IF sum(pc[0]) + sum(e0) > 0 THEN 1 ELSE 0
           /\ n1 = IF sum(pc[1]) + sum(e1) > 0 /\ ~(sum(pc[0]) + sum(e0) > 0) THEN 1 ELSE 0
           /\ out[1] = left(pc[0], e0, o0) /\ out[2] = left(pc[1], e1, o1)
           /\ out[3] = plus(o0, o1)
  BY PriorityStep
<1>2. PICK o0 \in departures(pc[0], e0, n0), o1 \in departures(pc[1], e1, n1) :
           /\ n0 = IF sum(pc[0]) + sum(e0) > 0 THEN 1 ELSE 0
           /\ n1 = IF sum(pc[1]) + sum(e1) > 0 /\ ~(sum(pc[0]) + sum(e0) > 0) THEN 1 ELSE 0
           /\ out[1] = left(pc[0], e0, o0) /\ out[2] = left(pc[1], e1, o1)
           /\ out[3] = plus(o0, o1)
  BY <1>1
<1>3. /\ pc[0] \in buffer /\ pc[1] \in buffer
      /\ i0 \in [Types -> Nat] /\ i0[0] = 0 /\ i0[1] = 0 /\ i0[2] = v[2] /\ sum(i0) = v[2]
      /\ i1 \in [Types -> Nat] /\ i1[0] = v[0] /\ i1[1] = v[1] /\ i1[2] = 0
      /\ sum(i1) = v[0] + v[1]
      /\ v[0] \in Nat /\ v[1] \in Nat /\ v[2] \in Nat
  BY Classifies DEF Bufs, Types
<1> HIDE DEF i0, i1
\* what is held
<1>4. /\ pc[0][2] \in Nat /\ sum(pc[0]) = pc[0][2] /\ pc[0] \in [Types -> Nat]
      /\ pc[1][0] \in Nat /\ pc[1][1] \in Nat /\ sum(pc[1]) = pc[1][0] + pc[1][1]
  <2>1. pc[0] \in vec(c) /\ pc[1] \in vec(c)
    BY <1>3 DEF buffer
  <2> QED BY <2>1, Parts, LoomAssumption
\* what is enqueued
<1>5. /\ e0 \in vec(MAX_ENQ) /\ sum(e0) + sum(pc[0]) <= c /\ \A k \in Types : e0[k] <= i0[k]
      /\ sum(e0) < sum(i0) => sum(pc[0]) + sum(e0) = c
  BY <1>3, Drops
<1>6. /\ e1 \in vec(MAX_ENQ) /\ sum(e1) + sum(pc[1]) <= c /\ \A k \in Types : e1[k] <= i1[k]
      /\ sum(e1) < sum(i1) => sum(pc[1]) + sum(e1) = c
  BY <1>3, Drops
<1>7. e0[0] = 0 /\ e0[1] = 0 /\ e0[2] \in Nat /\ e0[2] <= v[2] /\ sum(e0) = e0[2]
  <2>1. /\ e0[0] \in Nat /\ e0[1] \in Nat /\ e0[2] \in Nat
        /\ sum(e0) = e0[0] + e0[1] + e0[2]
    BY <1>5, Parts, LoomAssumption
  <2>2. e0[0] <= 0 /\ e0[1] <= 0 /\ e0[2] <= v[2]
    BY <1>3, <1>5 DEF Types
  <2> QED BY <2>1, <2>2
<1>8. /\ e1[0] \in Nat /\ e1[1] \in Nat /\ e1[2] = 0 /\ e1[0] <= v[0] /\ e1[1] <= v[1]
      /\ sum(e1) = e1[0] + e1[1]
  <2>1. /\ e1[0] \in Nat /\ e1[1] \in Nat /\ e1[2] \in Nat
        /\ sum(e1) = e1[0] + e1[1] + e1[2]
    BY <1>6, Parts, LoomAssumption
  <2>2. e1[0] <= v[0] /\ e1[1] <= v[1] /\ e1[2] <= 0
    BY <1>3, <1>6 DEF Types
  <2> QED BY <2>1, <2>2
\* what leaves
<1>9. /\ out[1] \in buffer /\ o0 \in vec(MAX_DEQ) /\ sum(o0) = n0
      /\ \A k \in Types : out[1][k] = pc[0][k] + e0[k] - o0[k] /\ o0[k] <= pc[0][k] + e0[k]
  BY <1>2, <1>3, <1>5, Holds
<1>10. /\ out[2] \in buffer /\ o1 \in vec(MAX_DEQ) /\ sum(o1) = n1
       /\ \A k \in Types : out[2][k] = pc[1][k] + e1[k] - o1[k] /\ o1[k] <= pc[1][k] + e1[k]
  BY <1>2, <1>3, <1>6, Holds
<1>11. /\ o0[0] = 0 /\ o0[1] = 0 /\ o0[2] = n0 /\ out[1][0] = 0 /\ out[1][1] = 0
       /\ out[1][2] = pc[0][2] + e0[2] - n0
  <2>1. /\ o0[0] \in Nat /\ o0[1] \in Nat /\ o0[2] \in Nat
        /\ sum(o0) = o0[0] + o0[1] + o0[2]
    BY <1>9, Parts, LoomAssumption
  <2>2. /\ o0[0] <= pc[0][0] + e0[0] /\ o0[1] <= pc[0][1] + e0[1]
        /\ out[1][0] = pc[0][0] + e0[0] - o0[0] /\ out[1][1] = pc[0][1] + e0[1] - o0[1]
        /\ out[1][2] = pc[0][2] + e0[2] - o0[2]
    BY <1>9 DEF Types
  <2>3. pc[0][0] + e0[0] = 0 /\ pc[0][1] + e0[1] = 0
    BY <1>7
  <2>4. o0[0] <= 0 /\ o0[1] <= 0
    BY <2>2, <2>3, Zenon
  <2>5. o0[0] = 0 /\ o0[1] = 0
    BY <2>1, <2>4
  <2>6. o0[2] = n0
    BY <2>1, <2>5, <1>9
  <2>7. pc[0][0] + e0[0] - o0[0] = 0 /\ pc[0][1] + e0[1] - o0[1] = 0
    BY <2>5, <1>7
  <2> QED BY <2>2, <2>5, <2>6, <2>7, Zenon
<1>12. /\ o1[0] \in Nat /\ o1[1] \in Nat /\ o1[2] = 0 /\ o1[0] + o1[1] = n1
       /\ out[2][0] = pc[1][0] + e1[0] - o1[0] /\ out[2][1] = pc[1][1] + e1[1] - o1[1]
       /\ out[2][2] = 0
  <2>1. /\ o1[0] \in Nat /\ o1[1] \in Nat /\ o1[2] \in Nat
        /\ sum(o1) = o1[0] + o1[1] + o1[2]
    BY <1>10, Parts, LoomAssumption
  <2>2. /\ o1[2] <= pc[1][2] + e1[2]
        /\ out[2][0] = pc[1][0] + e1[0] - o1[0] /\ out[2][1] = pc[1][1] + e1[1] - o1[1]
        /\ out[2][2] = pc[1][2] + e1[2] - o1[2]
    BY <1>10 DEF Types
  <2>3. o1[2] = 0
    BY <2>1, <2>2, <1>8
  <2>4. o1[0] + o1[1] = n1
    BY <2>1, <2>3, <1>10
  <2> QED BY <2>1, <2>2, <2>3, <2>4, <1>8
<1>13. /\ out[3] = [k \in Types |-> o0[k] + o1[k]]
       /\ out[3][0] = o1[0] /\ out[3][1] = o1[1] /\ out[3][2] = n0
  <2>1. out[3] = [k \in Types |-> o0[k] + o1[k]]
    BY <1>2 DEF plus
  <2> QED BY <2>1, <1>11, <1>12 DEF Types
<1>14. n0 + n1 <= 1
  BY <1>2
<1>15. out[3] \in packet
  <2>1. out[3][0] \in 0 .. 1 /\ out[3][1] \in 0 .. 1 /\ out[3][2] \in 0 .. 1
    BY <1>12, <1>13, <1>14
  <2>2. out[3] \in vec(1)
    BY <1>13, <2>1 DEF vec, Types
  <2>3. sum(out[3]) = out[3][0] + out[3][1] + out[3][2]
    BY DEF sum
  <2>4. sum(out[3]) <= 1
    BY <2>1, <2>3, <1>12, <1>13, <1>14
  <2> QED BY <2>2, <2>4 DEF packet
<1>16. \A k \in Types : out[1][k] + out[2][k] + out[3][k] <= pc[0][k] + pc[1][k] + v[k]
  <2>1. out[1][0] + out[2][0] + out[3][0] <= pc[0][0] + pc[1][0] + v[0]
    BY <1>3, <1>4, <1>8, <1>11, <1>12, <1>13
  <2>2. out[1][1] + out[2][1] + out[3][1] <= pc[0][1] + pc[1][1] + v[1]
    BY <1>3, <1>4, <1>8, <1>11, <1>12, <1>13
  <2>3. out[1][2] + out[2][2] + out[3][2] <= pc[0][2] + pc[1][2] + v[2]
    BY <1>3, <1>4, <1>7, <1>11, <1>12, <1>13
  <2> QED BY <2>1, <2>2, <2>3 DEF Types
<1>17. out[1][2] + out[3][2] < pc[0][2] + v[2] => pc[0][2] + v[2] > c
  BY <1>3, <1>4, <1>5, <1>7, <1>11, <1>13, LoomAssumption
<1>18. out[2][0] + out[2][1] + out[3][0] + out[3][1] < sum(pc[1]) + v[0] + v[1]
              => sum(pc[1]) + v[0] + v[1] > c
  BY <1>3, <1>4, <1>6, <1>8, <1>12, <1>13, LoomAssumption
<1>19. ASSUME out[3][0] + out[3][1] > 0 PROVE pc[0] = None /\ v[2] = 0
  <2>1. n1 = 1
    BY <1>19, <1>12, <1>13
  <2>2. ~(pc[0][2] + e0[2] > 0)
    BY <2>1, <1>2, <1>4, <1>7
  <2>3. pc[0][2] = 0 /\ e0[2] = 0
    BY <2>2, <1>4, <1>7
  <2>4. pc[0] = None
    BY <2>3, <1>4 DEF None, Types
  <2>5. v[2] = 0
    BY <2>3, <1>3, <1>4, <1>5, <1>7, LoomAssumption
  <2> QED BY <2>4, <2>5
<1> QED BY <1>9, <1>10, <1>11, <1>12, <1>15, <1>16, <1>17, <1>18, <1>19

\* A step of the priority CP, under the invariant.
LEMMA PriorityTakes ==
  ASSUME LoomInv, Priority
  PROVE  LET v == merged(link)
         IN  /\ Len(link) = NumRR /\ v \in [Types -> Nat] /\ sum(v) <= NumRR
             /\ prC' \in [Bufs -> buffer] /\ O' \in packet /\ Separate'
             /\ \A k \in Types : prC'[0][k] + prC'[1][k] + O'[k] <= prC[0][k] + prC[1][k] + v[k]
             /\ prC'[0][2] + O'[2] < prC[0][2] + v[2] => prC[0][2] + v[2] > c
             /\ prC'[1][0] + prC'[1][1] + O'[0] + O'[1] < sum(prC[1]) + v[0] + v[1]
                  => sum(prC[1]) + v[0] + v[1] > c
             /\ O'[0] + O'[1] > 0 => prC[0] = None /\ v[2] = 0
<1> DEFINE v == merged(link)
<1>1. PICK out \in priority(prC, set_out(v)) : prC' = both(out[1], out[2]) /\ O' = out[3]
  BY DEF Priority
<1>2. prC'[0] = out[1] /\ prC'[1] = out[2] /\ prC' = [n \in Bufs |-> IF n = 0 THEN out[1] ELSE out[2]]
  BY <1>1 DEF both, Bufs
<1>3. Len(link) = NumRR /\ v \in [Types -> Nat] /\ sum(v) <= NumRR
  BY LinkType DEF LoomInv, Priority
<1>4. prC \in [Bufs -> buffer] /\ prC[0][0] = 0 /\ prC[0][1] = 0 /\ prC[1][2] = 0
  BY DEF LoomInv, LoomTypeOK, Separate
<1> HIDE DEF v
<1>5. /\ out[1] \in buffer /\ out[2] \in buffer /\ out[3] \in packet
      /\ out[1][0] = 0 /\ out[1][1] = 0 /\ out[2][2] = 0
      /\ \A k \in Types : out[1][k] + out[2][k] + out[3][k] <= prC[0][k] + prC[1][k] + v[k]
      /\ out[1][2] + out[3][2] < prC[0][2] + v[2] => prC[0][2] + v[2] > c
      /\ out[2][0] + out[2][1] + out[3][0] + out[3][1] < sum(prC[1]) + v[0] + v[1]
           => sum(prC[1]) + v[0] + v[1] > c
      /\ out[3][0] + out[3][1] > 0 => prC[0] = None /\ v[2] = 0
  BY <1>3, <1>4, PriorityFlow
<1>6. prC' \in [Bufs -> buffer]
  BY <1>2, <1>5
<1>7. Separate'
  BY <1>2, <1>5, Zenon DEF Separate
<1> QED BY <1>1, <1>2, <1>3, <1>5, <1>6, <1>7, Zenon DEF v

\* A step of a round robin: it holds what it held and enqueued less what it sent,
\* at most one packet, and the merger passes that on.
LEMMA BranchTakes ==
  ASSUME LoomInv, Branch
  PROVE  /\ rrC' \in [RRs -> [Bufs -> buffer]]
         /\ rrS' \in [RRs -> Bufs \cup {NoTurn}]
         /\ Len(link) < NumRR
         /\ \E p \in packet : link' = Append(link, p)
<1> DEFINE r == Len(link) + 1
           sent(e, s, n) == departures(rrC[r][n], e[n], RR!out(backlog(rrC[r], e), s)[n])
<1>1. PICK e0 \in inputs(0), e1 \in inputs(1), s \in Bufs :
         LET e == both(e0, e1) IN
         /\ \A n \in Bufs : arrives(rrC[r][n], e[n], e[n])
         /\ \E o0 \in sent(e, s, 0), o1 \in sent(e, s, 1) :
              /\ rrC' = [rrC EXCEPT ![r] = [n \in Bufs |-> left(@[n], e[n], both(o0, o1)[n])]]
              /\ Merger(r, plus(o0, o1))
         /\ rrS' = [rrS EXCEPT ![r] = s]
  BY Zenon DEF Branch
<1> DEFINE e == both(e0, e1)
<1>2. PICK o0 \in sent(e, s, 0), o1 \in sent(e, s, 1) :
        /\ rrC' = [rrC EXCEPT ![r] = [n \in Bufs |-> left(rrC[r][n], e[n], both(o0, o1)[n])]]
        /\ Merger(r, plus(o0, o1))
  BY <1>1
<1>3. r \in RRs /\ Len(link) < NumRR
  <2>1. Len(link) \in Nat
    BY LinkType DEF LoomInv
  <2>2. r <= NumRR
    BY DEF Branch
  <2> QED BY <2>1, <2>2, LoomAssumption DEF RRs
<1>4. plus(o0, o1) \in packet
  BY OnePacket
<1>5. /\ e[0] = e0 /\ e[1] = e1 /\ both(o0, o1)[0] = o0 /\ both(o0, o1)[1] = o1
  BY DEF both, Bufs
<1>6. ASSUME NEW n \in Bufs PROVE left(rrC[r][n], e[n], both(o0, o1)[n]) \in buffer
  <2>1. rrC[r][n] \in buffer
    BY <1>3 DEF LoomInv, LoomTypeOK
  <2>2. e[n] \in vec(MAX_ENQ) /\ sum(e[n]) + sum(rrC[r][n]) <= c
    BY <1>1 DEF arrives, RR!enqs
  <2>3. both(o0, o1)[n] \in sent(e, s, n)
    <3>1. n = 0 \/ n = 1
      BY DEF Bufs
    <3> HIDE DEF e, r
    <3> QED BY <1>5, <3>1
  <2>4. RR!out(backlog(rrC[r], e), s)[n] \in Nat
    BY DEF RR!out, RR!Bufs, Bufs
  <2> HIDE DEF e, r
  <2> QED BY <2>1, <2>2, <2>3, <2>4, Holds
<1>7. rrC' \in [RRs -> [Bufs -> buffer]]
  <2>1. [n \in Bufs |-> left(rrC[r][n], e[n], both(o0, o1)[n])] \in [Bufs -> buffer]
    BY <1>6
  <2>2. rrC \in [RRs -> [Bufs -> buffer]]
    BY DEF LoomInv, LoomTypeOK
  <2> HIDE DEF e, r
  <2> QED BY <1>2, <2>1, <2>2
<1>8. rrS' \in [RRs -> Bufs \cup {NoTurn}]
  BY <1>1, <1>3 DEF LoomInv, LoomTypeOK
<1>9. \E p \in packet : link' = Append(link, p)
  <2>1. mgC[r] = None
    BY <1>3 DEF LoomInv, MergerEmpty
  <2>2. PICK q \in enqueues(None, plus(o0, o1)) : \E o \in merger_out(None, q) : link' = Append(link, o)
    BY <1>2, <2>1 DEF Merger
  <2>3. q = plus(o0, o1)
    BY <1>4, <2>2, WireEnqueues
  <2>4. merger_out(None, q) = {plus(o0, o1)}
    BY <1>4, <2>3, WireSends
  <2> QED BY <1>4, <2>2, <2>4
<1> QED BY <1>3, <1>7, <1>8, <1>9

LEMMA LoomInit == Init => LoomInv
<1> SUFFICES ASSUME Init PROVE LoomInv
  OBVIOUS
<1>1. None[0] = 0 /\ None[1] = 0 /\ None[2] = 0 /\ sum(None) = 0
  BY DEF None, Types, sum
<1>2. None \in buffer /\ None \in packet
  BY <1>1, LoomAssumption DEF buffer, packet, vec, None
<1>3. both(None, None) = [n \in Bufs |-> None]
  BY DEF both
<1>4. link \in [1 .. 0 -> packet] /\ 0 \in 0 .. NumRR
  BY LoomAssumption DEF Init
<1>5. link \in UNION {[1 .. n -> packet] : n \in 0 .. NumRR}
  BY <1>4
<1>6. LoomTypeOK
  BY <1>2, <1>3, <1>5 DEF Init, LoomTypeOK
<1>7. Separate
  BY <1>1, <1>3 DEF Init, Separate, Bufs
<1>8. MergerEmpty
  BY DEF Init, MergerEmpty
<1> QED BY <1>6, <1>7, <1>8 DEF LoomInv

LEMMA LoomStep == LoomInv /\ [Next]_vars => LoomInv'
<1> SUFFICES ASSUME LoomInv, [Next]_vars PROVE LoomInv'
  OBVIOUS
<1>1. MergerEmpty'
  BY MergerStep DEF LoomInv
<1>2. mgC' \in [RRs -> buffer]
  <2>1. None \in buffer
    BY LoomAssumption DEF buffer, vec, None, sum, Types
  <2> QED BY <1>1, <2>1 DEF MergerEmpty
<1>3. CASE Branch
  <2>1. /\ rrC' \in [RRs -> [Bufs -> buffer]]
        /\ rrS' \in [RRs -> Bufs \cup {NoTurn}]
        /\ Len(link) < NumRR
    BY <1>3, BranchTakes
  <2>2. PICK p \in packet : link' = Append(link, p)
    BY <1>3, BranchTakes
  <2>3. link' \in UNION {[1 .. n -> packet] : n \in 0 .. NumRR}
    <3>1. link \in Seq(packet) /\ Len(link) \in 0 .. NumRR
      BY LinkType DEF LoomInv
    <3>2. link' \in Seq(packet) /\ Len(link') = Len(link) + 1
      BY <3>1, <2>2, AppendProperties
    <3>3. link' \in [1 .. Len(link') -> packet]
      BY <3>2, LenProperties
    <3>4. Len(link') \in 0 .. NumRR
      BY <3>1, <3>2, <2>1, LoomAssumption
    <3> QED BY <3>3, <3>4
  <2>4. O' \in packet
    BY <1>3, LoomAssumption DEF Branch, packet, vec, None, sum, Types
  <2>5. prC' = prC
    BY <1>3 DEF Branch
  <2> QED BY <2>1, <2>3, <2>4, <2>5, <1>1, <1>2 DEF LoomInv, LoomTypeOK, Separate
<1>4. CASE Priority
  <2>1. prC' \in [Bufs -> buffer] /\ O' \in packet /\ Separate'
    BY <1>4, PriorityTakes
  <2>2. rrC' = rrC /\ rrS' = rrS /\ link' = <<>>
    BY <1>4 DEF Priority
  <2>3. link' \in UNION {[1 .. n -> packet] : n \in 0 .. NumRR}
    <3>1. link' \in [1 .. 0 -> packet] /\ 0 \in 0 .. NumRR
      BY <2>2, LoomAssumption
    <3> QED BY <3>1
  <2> QED BY <2>1, <2>2, <2>3, <1>1, <1>2 DEF LoomInv, LoomTypeOK
<1>5. CASE UNCHANGED vars
  BY <1>5 DEF vars, LoomInv, LoomTypeOK, MergerEmpty, Separate
<1> QED BY <1>3, <1>4, <1>5 DEF Next

LEMMA LoomInvariant == Spec => []LoomInv
<1> QED BY LoomInit, LoomStep, PTL DEF Spec

\* Nothing overflows: every buffer of the composition stays within its capacity,
\* and no link ever carries more than one packet, whatever the number of round
\* robins that share the priority CP.
THEOREM LoomTypes == Spec => []LoomTypeOK
<1>1. LoomInv => LoomTypeOK
  BY DEF LoomInv
<1> QED BY <1>1, LoomInvariant, PTL

\* What the priority CP held, was given and sent, and what it holds, as AccountedStep
\* compares them.
vectors == [Types -> Nat]

LEMMA Accounts ==
  ASSUME NEW p \in vectors, NEW q \in vectors, NEW v \in vectors,
         NEW pp \in vectors, NEW qq \in vectors, NEW o \in vectors,
         p[0] = 0, p[1] = 0, q[2] = 0, pp[0] = 0, pp[1] = 0, qq[2] = 0,
         \A k \in Types : pp[k] + qq[k] + o[k] <= p[k] + q[k] + v[k],
         pp[2] + o[2] < p[2] + v[2] => p[2] + v[2] > c,
         qq[0] + qq[1] + o[0] + o[1] < sum(q) + v[0] + v[1] => sum(q) + v[0] + v[1] > c
  PROVE  LET held(k) == p[k] + q[k] + v[k]
             lost(k) == held(k) - o[k] - pp[k] - qq[k]
         IN  /\ \A k \in Types : lost(k) >= 0
             /\ lost(2) > 0 => p[2] + v[2] > c
             /\ lost(0) + lost(1) > 0 => sum(q) + v[0] + v[1] > c
<1>1. sum(q) = q[0] + q[1] + q[2]
  BY DEF sum
<1>2. c \in Nat
  BY LoomAssumption
<1> DEFINE held(k) == p[k] + q[k] + v[k]
           lost(k) == held(k) - o[k] - pp[k] - qq[k]
<1>3. ASSUME NEW k \in Types PROVE lost(k) >= 0
  <2>1. /\ p[k] \in Nat /\ q[k] \in Nat /\ v[k] \in Nat
        /\ o[k] \in Nat /\ pp[k] \in Nat /\ qq[k] \in Nat
    BY DEF vectors
  <2> QED BY <2>1
<1>4. lost(2) > 0 => p[2] + v[2] > c
  BY <1>2 DEF vectors, Types
<1>5. lost(0) + lost(1) > 0 => sum(q) + v[0] + v[1] > c
  BY <1>1, <1>2 DEF vectors, Types
<1> QED BY <1>3, <1>4, <1>5, Zenon

\* Nothing is lost on the way: of each type, what leaves and what stays is what was
\* there and what the round robins sent, less what a full buffer of the priority CP
\* drops.
THEOREM NothingLost == Spec => Accounted
<1>1. LoomInv /\ [Next]_vars => [AccountedStep]_vars
  <2> SUFFICES ASSUME LoomInv, Next, Len(link) = NumRR PROVE AccountedStep
    BY DEF AccountedStep
  <2>1. Priority
    <3>1. ~Branch
      BY BranchTakes, LoomAssumption
    <3> QED BY <3>1 DEF Next
  <2> DEFINE v == merged(link)
             held(k) == prC[0][k] + prC[1][k] + v[k]
             lost(k) == held(k) - O'[k] - prC'[0][k] - prC'[1][k]
  <2>2. /\ \A k \in Types : prC'[0][k] + prC'[1][k] + O'[k] <= prC[0][k] + prC[1][k] + v[k]
        /\ prC'[0][2] + O'[2] < prC[0][2] + v[2] => prC[0][2] + v[2] > c
        /\ prC'[1][0] + prC'[1][1] + O'[0] + O'[1] < sum(prC[1]) + v[0] + v[1]
             => sum(prC[1]) + v[0] + v[1] > c
        /\ v \in [Types -> Nat]
    BY <2>1, PriorityTakes
  <2>3. /\ prC[0][0] = 0 /\ prC[0][1] = 0 /\ prC[1][2] = 0
        /\ prC'[0][0] = 0 /\ prC'[0][1] = 0 /\ prC'[1][2] = 0
    BY <2>1, PriorityTakes DEF LoomInv, Separate
  <2>4. /\ prC[0] \in vectors /\ prC[1] \in vectors
        /\ prC'[0] \in vectors /\ prC'[1] \in vectors /\ O' \in vectors
    <3>1. prC \in [Bufs -> buffer] /\ prC' \in [Bufs -> buffer] /\ O' \in packet
      BY <2>1, PriorityTakes DEF LoomInv, LoomTypeOK
    <3>2. buffer \subseteq vectors /\ packet \subseteq vectors
      BY DEF buffer, packet, vec, vectors
    <3> QED BY <3>1, <3>2 DEF Bufs
  <2>5. v \in vectors
    BY <2>2 DEF vectors
  <2> HIDE DEF v
  <2> QED BY <2>2, <2>3, <2>4, <2>5, Accounts DEF AccountedStep, v
<1> QED BY <1>1, LoomInvariant, PTL DEF Spec, Accounted

\* Type 2 goes first through the whole system: when a packet of another type
\* leaves, none of type 2 waited in the priority CP and none arrived there.
THEOREM PriorityThroughLoom == Spec => Type2First
<1>1. LoomInv /\ [Next]_vars => [Type2FirstStep]_vars
  <2> SUFFICES ASSUME LoomInv, Next, O'[0] + O'[1] > 0
               PROVE  prC[0] = None /\ merged(link)[2] = 0
    BY DEF Type2FirstStep
  <2>1. ~Branch
    BY DEF Branch, None, Types
  <2>2. Priority
    BY <2>1 DEF Next
  <2> QED BY <2>2, PriorityTakes
<1> QED BY <1>1, LoomInvariant, PTL DEF Spec, Type2First

-----------------------------------------------------------------------------
\* The packets that wait in round robin r, given the round robins' contents, and
\* in the priority CP.
waiting(rrContents, r) == sum(rrContents[r][0]) + sum(rrContents[r][1])
waitingPrio == sum(prC[0]) + sum(prC[1])

\* In a step of a round robin that holds a packet one leaves it, and if it enqueued
\* none it holds one less; in a step of the priority CP that holds a packet or is
\* given one, one leaves the system.
DrainsStep ==
  /\ Len(link') > Len(link) =>
       LET r == Len(link')
       IN  /\ waiting(rrC, r) > 0 => sum(link'[r]) = 1
           /\ Silent => waiting(rrC', r) =
                          IF waiting(rrC, r) > 0 THEN waiting(rrC, r) - 1 ELSE 0
  /\ Len(link) = NumRR =>
       LET w == waitingPrio + sum(merged(link))
       IN  w > 0 => sum(O') = 1 /\ waitingPrio' < w

\* The turn goes to a backlogged buffer whenever there is one.
LEMMA TurnSends ==
  ASSUME NEW b, NEW s \in Bufs, NEW t, turn(t, b, s), b[0] \/ b[1]
  PROVE  b[s]
<1>1. RR!Bufs = 0 .. 1
  BY DEF RR!Bufs
<1>2. \E i \in RR!Bufs : b[i]
  BY <1>1
<1>3. CASE t = NoTurn
  BY <1>2, <1>3 DEF turn, RR!init
<1>4. CASE t # NoTurn
  BY <1>2, <1>4 DEF turn, RR!trs
<1> QED BY <1>3, <1>4

\* A round robin with a backlog sends a packet, and the merger passes it on.
LEMMA BranchSends ==
  ASSUME LoomInv, Branch
  PROVE  LET r == Len(link) + 1
         IN  r \in RRs /\ (waiting(rrC, r) > 0 => \E p \in packet : sum(p) = 1 /\ link' = Append(link, p))
<1> DEFINE r == Len(link) + 1
           sent(e, s, n) == departures(rrC[r][n], e[n], RR!out(backlog(rrC[r], e), s)[n])
<1>1. PICK e0 \in inputs(0), e1 \in inputs(1), s \in Bufs :
         LET e == both(e0, e1) IN
         /\ \A n \in Bufs : arrives(rrC[r][n], e[n], e[n])
         /\ turn(rrS[r], backlog(rrC[r], e), s)
         /\ \E o0 \in sent(e, s, 0), o1 \in sent(e, s, 1) :
              /\ rrC' = [rrC EXCEPT ![r] = [n \in Bufs |-> left(@[n], e[n], both(o0, o1)[n])]]
              /\ Merger(r, plus(o0, o1))
         /\ rrS' = [rrS EXCEPT ![r] = s]
  BY Zenon DEF Branch
<1> DEFINE e == both(e0, e1)
           b == backlog(rrC[r], e)
<1>2. PICK o0 \in sent(e, s, 0), o1 \in sent(e, s, 1) : Merger(r, plus(o0, o1))
  BY <1>1
<1>3. r \in RRs
  <2>1. Len(link) \in Nat
    BY LinkType DEF LoomInv
  <2>2. r <= NumRR
    BY DEF Branch
  <2> QED BY <2>1, <2>2, LoomAssumption DEF RRs
<1>4. plus(o0, o1) \in packet
  BY OnePacket
<1>5. ASSUME waiting(rrC, r) > 0 PROVE sum(plus(o0, o1)) = 1
  <2>1. rrC[r][0] \in buffer /\ rrC[r][1] \in buffer
    BY <1>3 DEF LoomInv, LoomTypeOK, Bufs
  <2>2. e[0] \in vec(MAX_ENQ) /\ e[1] \in vec(MAX_ENQ)
    <3> HIDE DEF e, r
    <3>1. arrives(rrC[r][0], e[0], e[0]) /\ arrives(rrC[r][1], e[1], e[1])
      BY <1>1 DEF Bufs, e, r
    <3> QED BY <3>1 DEF arrives
  <2>3. /\ sum(rrC[r][0]) \in Nat /\ sum(rrC[r][1]) \in Nat
        /\ sum(e[0]) \in Nat /\ sum(e[1]) \in Nat
    BY <2>1, <2>2, Parts, LoomAssumption DEF buffer
  <2>4. b[0] = (sum(rrC[r][0]) + sum(e[0]) > 0) /\ b[1] = (sum(rrC[r][1]) + sum(e[1]) > 0)
    BY DEF backlog, Bufs, RR!backlogged
  <2>5. sum(rrC[r][0]) + sum(rrC[r][1]) > 0
    BY <1>5 DEF waiting
  <2>6. turn(rrS[r], b, s)
    BY <1>1
  <2>7. o0 \in departures(rrC[r][0], e[0], RR!out(b, s)[0])
        /\ o1 \in departures(rrC[r][1], e[1], RR!out(b, s)[1])
    BY <1>2
  <2> HIDE DEF b, e, r, sent
  <2>8. b[0] \/ b[1]
    <3>1. sum(rrC[r][0]) + sum(e[0]) > 0 \/ sum(rrC[r][1]) + sum(e[1]) > 0
      BY <2>3, <2>5
    <3> QED BY <2>4, <3>1, Zenon
  <2>9. b[s]
    BY <2>6, <2>8, TurnSends
  <2>10. RR!out(b, s)[0] + RR!out(b, s)[1] = 1
    <3>1. /\ RR!out(b, s)[0] = IF b[0] /\ s = 0 THEN 1 ELSE 0
          /\ RR!out(b, s)[1] = IF b[1] /\ s = 1 THEN 1 ELSE 0
      BY DEF RR!out, RR!Bufs
    <3>2. s = 0 \/ s = 1
      BY DEF Bufs
    <3> QED BY <3>1, <3>2, <2>9
  <2>11. sum(o0) + sum(o1) = 1
    BY <2>7, <2>10 DEF departures
  <2>12. o0 \in [Types -> Nat] /\ o1 \in [Types -> Nat]
    BY <2>7 DEF departures, vec
  <2> QED BY <2>11, <2>12, Sums
<1>6. link' = Append(link, plus(o0, o1))
  <2>1. mgC[r] = None
    BY <1>3 DEF LoomInv, MergerEmpty
  <2>2. PICK q \in enqueues(None, plus(o0, o1)) : \E o \in merger_out(None, q) : link' = Append(link, o)
    BY <1>2, <2>1 DEF Merger
  <2>3. q = plus(o0, o1)
    BY <1>4, <2>2, WireEnqueues
  <2>4. merger_out(None, q) = {plus(o0, o1)}
    BY <1>4, <2>3, WireSends
  <2> QED BY <2>2, <2>4
<1> QED BY <1>3, <1>4, <1>5, <1>6

\* The priority CP sends a packet if it holds one or is given one: it does not drop
\* everything, because a buffer that drops is full.
LEMMA PrioritySends ==
  ASSUME NEW pc \in [Bufs -> buffer], NEW v \in [Types -> Nat],
         NEW out \in priority(pc, set_out(v)),
         sum(pc[0]) + sum(pc[1]) + sum(v) > 0
  PROVE  sum(out[3]) = 1
<1> DEFINE i0 == set_out(v)[0]
           i1 == set_out(v)[1]
<1>1. PICK e0 \in enqueues(pc[0], i0), e1 \in enqueues(pc[1], i1),
           n0 \in 0 .. 1, n1 \in 0 .. 1 :
         \E o0 \in departures(pc[0], e0, n0), o1 \in departures(pc[1], e1, n1) :
           /\ n0 = IF sum(pc[0]) + sum(e0) > 0 THEN 1 ELSE 0
           /\ n1 = IF sum(pc[1]) + sum(e1) > 0 /\ ~(sum(pc[0]) + sum(e0) > 0) THEN 1 ELSE 0
           /\ out[3] = plus(o0, o1)
  BY PriorityStep
<1>2. PICK o0 \in departures(pc[0], e0, n0), o1 \in departures(pc[1], e1, n1) :
           /\ n0 = IF sum(pc[0]) + sum(e0) > 0 THEN 1 ELSE 0
           /\ n1 = IF sum(pc[1]) + sum(e1) > 0 /\ ~(sum(pc[0]) + sum(e0) > 0) THEN 1 ELSE 0
           /\ out[3] = plus(o0, o1)
  BY <1>1
<1>3. pc[0] \in buffer /\ pc[1] \in buffer
  BY DEF Bufs
<1>4. /\ i0 \in [Types -> Nat] /\ i1 \in [Types -> Nat]
      /\ sum(i0) = v[2] /\ sum(i1) = v[0] + v[1]
      /\ v[0] \in Nat /\ v[1] \in Nat /\ v[2] \in Nat /\ sum(v) = v[0] + v[1] + v[2]
  BY Classifies DEF Types, sum
<1> HIDE DEF i0, i1
<1>5. /\ e0 \in vec(MAX_ENQ) /\ (sum(e0) < sum(i0) => sum(pc[0]) + sum(e0) = c)
      /\ e1 \in vec(MAX_ENQ) /\ (sum(e1) < sum(i1) => sum(pc[1]) + sum(e1) = c)
  BY <1>3, <1>4, Drops
<1>6. /\ sum(pc[0]) \in Nat /\ sum(pc[1]) \in Nat /\ sum(e0) \in Nat /\ sum(e1) \in Nat
  BY <1>3, <1>5, Parts, LoomAssumption DEF buffer
<1>7. sum(pc[0]) + sum(e0) > 0 \/ sum(pc[1]) + sum(e1) > 0
  BY <1>4, <1>5, <1>6, LoomAssumption
<1>8. n0 + n1 = 1
  BY <1>2, <1>7
<1>9. /\ sum(o0) = n0 /\ sum(o1) = n1
      /\ o0 \in [Types -> Nat] /\ o1 \in [Types -> Nat]
  BY DEF departures, vec
<1> QED BY <1>2, <1>8, <1>9, Sums

\* What Drains rests on, in every step: no CP of the composition is idle while it
\* holds a packet.  A round robin with silent inputs holds one packet less after
\* each of its steps until it is empty, and the priority CP then holds less after
\* each of its own.
THEOREM KeepsMoving == Spec => [][DrainsStep]_vars
<1>1. LoomInv /\ LoomInv' /\ [Next]_vars => [DrainsStep]_vars
  <2> SUFFICES ASSUME LoomInv, LoomInv', Next PROVE DrainsStep
    OBVIOUS
  <2>1. Len(link) \in 0 .. NumRR /\ link \in Seq(packet)
    BY LinkType DEF LoomInv
  <2>2. CASE Branch
    <3> DEFINE r == Len(link) + 1
    <3>1. r \in RRs /\ (waiting(rrC, r) > 0 => \E p \in packet : sum(p) = 1 /\ link' = Append(link, p))
      BY <2>2, BranchSends
    <3>2. PICK p \in packet : link' = Append(link, p)
      BY <2>2, BranchTakes
    <3>3. Len(link') = r /\ link'[r] = p
      BY <2>1, <3>2, AppendProperties
    <3>4. ASSUME waiting(rrC, r) > 0 PROVE sum(link'[r]) = 1
      <4>1. PICK q \in packet : sum(q) = 1 /\ link' = Append(link, q)
        BY <3>1, <3>4
      <4>2. link'[r] = q
        BY <2>1, <4>1, AppendProperties
      <4> QED BY <4>1, <4>2
    <3>5. waiting(rrC, r) \in Nat /\ waiting(rrC', r) \in Nat /\ sum(link'[r]) \in Nat
      <4>1. /\ rrC[r][0] \in buffer /\ rrC[r][1] \in buffer
            /\ rrC'[r][0] \in buffer /\ rrC'[r][1] \in buffer
        BY <3>1 DEF LoomInv, LoomTypeOK, Bufs
      <4>2. p \in vec(1)
        BY DEF packet
      <4>3. /\ sum(rrC[r][0]) \in Nat /\ sum(rrC[r][1]) \in Nat
            /\ sum(rrC'[r][0]) \in Nat /\ sum(rrC'[r][1]) \in Nat
        <5> HIDE DEF r
        <5> QED BY <4>1, Parts, LoomAssumption DEF buffer
      <4>4. sum(p) \in Nat
        BY <4>2, Parts
      <4>5. waiting(rrC, r) \in Nat /\ waiting(rrC', r) \in Nat
        <5> HIDE DEF r
        <5> QED BY <4>3 DEF waiting
      <4>6. sum(link'[r]) \in Nat
        <5> HIDE DEF r
        <5> QED BY <4>4, <3>3
      <4> QED BY <4>5, <4>6
    <3>6. Silent => waiting(rrC', r) = waiting(rrC, r) - sum(link'[r])
      BY <2>1, <3>3 DEF Silent, waiting
    <3>7. Silent => waiting(rrC', r) = IF waiting(rrC, r) > 0 THEN waiting(rrC, r) - 1 ELSE 0
      <4> HIDE DEF r
      <4> QED BY <3>4, <3>5, <3>6
    <3>8. Len(link) # NumRR
      BY <2>1, <2>2, BranchTakes
    <3> QED BY <3>3, <3>4, <3>7, <3>8 DEF DrainsStep
  <2>3. CASE Priority
    <3> DEFINE v == merged(link)
    <3>1. ~(Len(link') > Len(link))
      BY <2>1, <2>3 DEF Priority
    <3>2. v \in [Types -> Nat]
      BY <2>3, PriorityTakes
    <3>3. PICK out \in priority(prC, set_out(v)) : O' = out[3]
      BY <2>3 DEF Priority
    <3>4. \A k \in Types : prC'[0][k] + prC'[1][k] + O'[k] <= prC[0][k] + prC[1][k] + v[k]
      BY <2>3, PriorityTakes
    <3>5. prC \in [Bufs -> buffer] /\ prC' \in [Bufs -> buffer] /\ O' \in packet
      BY DEF LoomInv, LoomTypeOK
    <3> HIDE DEF v
    <3>6. ASSUME waitingPrio + sum(v) > 0 PROVE sum(O') = 1 /\ waitingPrio' < waitingPrio + sum(v)
      <4>1. sum(O') = 1
        BY <3>2, <3>3, <3>5, <3>6, PrioritySends DEF waitingPrio
      <4>2. /\ prC[0] \in vec(c) /\ prC[1] \in vec(c) /\ prC'[0] \in vec(c) /\ prC'[1] \in vec(c)
            /\ O' \in vec(1)
        BY <3>5 DEF buffer, packet, Bufs
      <4>3. /\ sum(prC[0]) = prC[0][0] + prC[0][1] + prC[0][2]
            /\ sum(prC[1]) = prC[1][0] + prC[1][1] + prC[1][2]
            /\ sum(prC'[0]) = prC'[0][0] + prC'[0][1] + prC'[0][2]
            /\ sum(prC'[1]) = prC'[1][0] + prC'[1][1] + prC'[1][2]
            /\ sum(O') = O'[0] + O'[1] + O'[2]
            /\ sum(v) = v[0] + v[1] + v[2]
        BY DEF sum
      <4>4. /\ prC[0][0] \in Nat /\ prC[0][1] \in Nat /\ prC[0][2] \in Nat
            /\ prC[1][0] \in Nat /\ prC[1][1] \in Nat /\ prC[1][2] \in Nat
            /\ prC'[0][0] \in Nat /\ prC'[0][1] \in Nat /\ prC'[0][2] \in Nat
            /\ prC'[1][0] \in Nat /\ prC'[1][1] \in Nat /\ prC'[1][2] \in Nat
            /\ O'[0] \in Nat /\ O'[1] \in Nat /\ O'[2] \in Nat
            /\ v[0] \in Nat /\ v[1] \in Nat /\ v[2] \in Nat
        BY <4>2, <3>2 DEF vec, Types
      <4>5. /\ prC'[0][0] + prC'[1][0] + O'[0] <= prC[0][0] + prC[1][0] + v[0]
            /\ prC'[0][1] + prC'[1][1] + O'[1] <= prC[0][1] + prC[1][1] + v[1]
            /\ prC'[0][2] + prC'[1][2] + O'[2] <= prC[0][2] + prC[1][2] + v[2]
        BY <3>4 DEF Types
      <4>6. sum(prC'[0]) + sum(prC'[1]) + sum(O') <= sum(prC[0]) + sum(prC[1]) + sum(v)
        BY <4>3, <4>4, <4>5
      <4>7. sum(prC'[0]) + sum(prC'[1]) < sum(prC[0]) + sum(prC[1]) + sum(v)
        BY <4>1, <4>3, <4>4, <4>6
      <4> QED BY <4>1, <4>7 DEF waitingPrio
    <3> QED BY <3>1, <3>6 DEF DrainsStep, v
  <2> QED BY <2>2, <2>3 DEF Next
<1> QED BY <1>1, LoomInvariant, PTL DEF Spec

-----------------------------------------------------------------------------
\* A buffer can enqueue as much of its input as fits, and drop the rest if the
\* bound on its drops allows it.
LEMMA Enqueuable ==
  ASSUME NEW pc \in buffer, NEW i \in [Types -> Nat], sum(i) <= MAX_ENQ
  PROVE  \E e \in enqueues(pc, i) : TRUE
<1> DEFINE room == c - sum(pc)
           min(x, y) == IF x <= y THEN x ELSE y
           x0 == min(i[0], room)
           x1 == min(i[1], room - x0)
           x2 == min(i[2], room - x0 - x1)
           e == [k \in Types |-> IF k = 0 THEN x0 ELSE IF k = 1 THEN x1 ELSE x2]
           d == [k \in Types |-> i[k] - e[k]]
<1>1. sum(pc) \in Nat /\ sum(pc) <= c /\ c \in Nat /\ c > 0
  BY Parts, LoomAssumption DEF buffer
<1>2. /\ i[0] \in Nat /\ i[1] \in Nat /\ i[2] \in Nat /\ i[0] + i[1] + i[2] <= MAX_ENQ
  BY DEF sum, Types
<1>3. /\ x0 \in Nat /\ x1 \in Nat /\ x2 \in Nat
      /\ x0 <= i[0] /\ x1 <= i[1] /\ x2 <= i[2] /\ x0 + x1 + x2 <= room
      /\ x0 + x1 + x2 < i[0] + i[1] + i[2] => x0 + x1 + x2 = room
  <2>1. x0 \in Nat /\ x0 <= i[0] /\ x0 <= room /\ (x0 = i[0] \/ x0 = room) /\ room \in Nat
    BY <1>1, <1>2
  <2> HIDE DEF x0, room
  <2>2. x1 \in Nat /\ x1 <= i[1] /\ x1 <= room - x0 /\ (x1 = i[1] \/ x1 = room - x0)
    BY <2>1, <1>2
  <2> HIDE DEF x1
  <2>3. /\ x2 \in Nat /\ x2 <= i[2] /\ x2 <= room - x0 - x1
        /\ x2 = i[2] \/ x2 = room - x0 - x1
    BY <2>1, <2>2, <1>2
  <2> HIDE DEF x2
  <2> QED BY <2>1, <2>2, <2>3, <1>2
<1> HIDE DEF x0, x1, x2
<1>4. /\ e[0] = x0 /\ e[1] = x1 /\ e[2] = x2
      /\ e = [k \in Types |-> IF k = 0 THEN x0 ELSE IF k = 1 THEN x1 ELSE x2]
  BY DEF Types
<1> HIDE DEF e
<1>5. /\ d[0] = i[0] - e[0] /\ d[1] = i[1] - e[1] /\ d[2] = i[2] - e[2]
      /\ d = [k \in Types |-> i[k] - e[k]]
  BY DEF Types
<1> HIDE DEF d
<1>6. /\ sum(e) = e[0] + e[1] + e[2] /\ sum(d) = d[0] + d[1] + d[2]
      /\ 0 + sum(pc) = sum(pc)
  <2>1. sum(e) = e[0] + e[1] + e[2] /\ sum(d) = d[0] + d[1] + d[2]
    BY DEF sum
  <2>2. 0 + sum(pc) = sum(pc)
    BY <1>1
  <2> QED BY <2>1, <2>2
<1>7. e \in vec(MAX_ENQ)
  <2>1. x0 \in 0 .. MAX_ENQ /\ x1 \in 0 .. MAX_ENQ /\ x2 \in 0 .. MAX_ENQ
    BY <1>2, <1>3, LoomAssumption
  <2> QED BY <2>1, <1>4 DEF vec
<1>8. d \in vec(MAX_ENQ)
  <2>1. d[0] \in 0 .. MAX_ENQ /\ d[1] \in 0 .. MAX_ENQ /\ d[2] \in 0 .. MAX_ENQ
    BY <1>2, <1>3, <1>4, <1>5, LoomAssumption
  <2>2. \A k \in Types : d[k] \in 0 .. MAX_ENQ
    BY <2>1 DEF Types
  <2>3. d = [k \in Types |-> d[k]]
    BY <1>5
  <2> QED BY <2>2, <2>3 DEF vec
<1>9. sum(e) \in Nat /\ sum(d) \in Nat /\ sum(e) + sum(pc) <= c /\ (sum(d) > 0 => sum(pc) + sum(e) = c)
  BY <1>1, <1>2, <1>3, <1>4, <1>5, <1>6
<1>10. IF sum(pc) + sum(e) > 0 THEN sum(d) > 0 => sum(pc) + sum(e) = c ELSE sum(d) = 0
  BY <1>1, <1>9
<1>11. arrives(pc, i, e)
  BY <1>7, <1>8, <1>9, <1>10 DEF arrives, RR!enqs, RR!drops, RR!backlogged, RR!enq_deq_sum, d
<1> QED BY <1>7, <1>11 DEF enqueues

\* And a packet can leave it if it holds one.
LEMMA Departable ==
  ASSUME NEW pc \in buffer, NEW e \in vec(MAX_ENQ), sum(e) + sum(pc) <= c,
         NEW n \in 0 .. 1, n <= sum(pc) + sum(e)
  PROVE  \E o \in departures(pc, e, n) : TRUE
<1>1. /\ sum(pc) = pc[0] + pc[1] + pc[2] /\ pc[0] \in Nat /\ pc[1] \in Nat /\ pc[2] \in Nat
  BY Parts, LoomAssumption DEF buffer
<1>2. /\ sum(e) = e[0] + e[1] + e[2] /\ e[0] \in Nat /\ e[1] \in Nat /\ e[2] \in Nat
  BY Parts, LoomAssumption
<1>3. PICK t \in Types : n <= pc[t] + e[t]
  <2>1. n <= pc[0] + e[0] \/ n <= pc[1] + e[1] \/ n <= pc[2] + e[2]
    BY <1>1, <1>2
  <2> QED BY <2>1 DEF Types
<1> DEFINE o == [k \in Types |-> IF k = t THEN n ELSE 0]
<1>4. /\ o[0] = (IF t = 0 THEN n ELSE 0) /\ o[1] = (IF t = 1 THEN n ELSE 0)
      /\ o[2] = (IF t = 2 THEN n ELSE 0)
      /\ sum(o) = o[0] + o[1] + o[2]
  BY DEF Types, sum
<1>5. o \in vec(MAX_DEQ)
  BY LoomAssumption DEF vec
<1> DEFINE l == left(pc, e, o)
<1>6. \A k \in Types : l[k] = pc[k] + e[k] - o[k]
  BY DEF left, RR!remaining
<1>7. l = [k \in Types |-> l[k]]
  BY DEF left
<1> HIDE DEF o, l
<1>8. sum(o) = n
  BY <1>4 DEF Types
<1>9. ASSUME NEW k \in Types PROVE l[k] \in 0 .. c
  <2>1. pc[k] \in Nat /\ e[k] \in Nat /\ pc[k] + e[k] <= c
    BY <1>1, <1>2, LoomAssumption DEF Types
  <2>2. o[k] \in Nat /\ o[k] <= pc[k] + e[k]
    BY <2>1, <1>3 DEF o
  <2>3. l[k] = pc[k] + e[k] - o[k]
    BY <1>6
  <2> QED BY <2>1, <2>2, <2>3, LoomAssumption
<1>10. l \in vec(c)
  BY <1>7, <1>9 DEF vec
<1> QED BY <1>5, <1>8, <1>10 DEF departures, l

\* The priority CP has a step for every load of at most one packet from each round
\* robin, as long as a buffer may drop as many: the composition excludes no
\* behaviour of the round robins.
THEOREM NothingExcluded ==
  ASSUME NumRR <= MAX_ENQ
  PROVE  Spec => []PriorityAccepts
<1>1. LoomInv => PriorityAccepts
  <2> SUFFICES ASSUME LoomInv, NEW v \in vec(NumRR), sum(v) <= NumRR
               PROVE  \E out \in priority(prC, set_out(v)) : TRUE
    BY DEF PriorityAccepts
  <2>1. /\ v \in [Types -> Nat] /\ v[0] \in Nat /\ v[1] \in Nat /\ v[2] \in Nat
        /\ sum(v) = v[0] + v[1] + v[2]
    BY Parts, LoomAssumption
  <2> DEFINE i == set_out(v)
  <2>2. /\ i[0] \in [Types -> Nat] /\ i[1] \in [Types -> Nat]
        /\ sum(i[0]) = v[2] /\ sum(i[1]) = v[0] + v[1]
    BY <2>1, Classifies
  <2> HIDE DEF i
  <2>3. sum(i[0]) <= MAX_ENQ /\ sum(i[1]) <= MAX_ENQ
    BY <2>1, <2>2, LoomAssumption
  <2>4. prC[0] \in buffer /\ prC[1] \in buffer
    BY DEF LoomInv, LoomTypeOK, Bufs
  <2>5. PICK e0 \in enqueues(prC[0], i[0]), e1 \in enqueues(prC[1], i[1]) : TRUE
    BY <2>2, <2>3, <2>4, Enqueuable
  <2>6. /\ e0 \in vec(MAX_ENQ) /\ sum(e0) + sum(prC[0]) <= c
        /\ e1 \in vec(MAX_ENQ) /\ sum(e1) + sum(prC[1]) <= c
    BY <2>2, <2>4, Drops
  <2>7. sum(e0) \in Nat /\ sum(e1) \in Nat /\ sum(prC[0]) \in Nat /\ sum(prC[1]) \in Nat
    BY <2>4, <2>6, Parts, LoomAssumption DEF buffer
  <2> DEFINE e == both(e0, e1)
             n == Prio!out(backlog(prC, e))
  <2>8. /\ e[0] = e0 /\ e[1] = e1
        /\ backlog(prC, e)[0] = (sum(prC[0]) + sum(e0) > 0)
        /\ backlog(prC, e)[1] = (sum(prC[1]) + sum(e1) > 0)
    BY DEF both, backlog, Bufs, RR!backlogged
  <2>9. /\ n[0] \in 0 .. 1 /\ n[0] <= sum(prC[0]) + sum(e0)
        /\ n[1] \in 0 .. 1 /\ n[1] <= sum(prC[1]) + sum(e1)
    <3>1. Prio!Bufs = 0 .. 1
      BY DEF Prio!Bufs
    <3>2. ASSUME NEW b PROVE /\ Prio!out(b)[0] = IF b[0] THEN 1 ELSE 0
                             /\ Prio!out(b)[1] = IF b[1] /\ ~b[0] THEN 1 ELSE 0
      BY <3>1 DEF Prio!out
    <3>3. /\ n[0] = IF sum(prC[0]) + sum(e0) > 0 THEN 1 ELSE 0
          /\ n[1] = IF sum(prC[1]) + sum(e1) > 0 /\ ~(sum(prC[0]) + sum(e0) > 0) THEN 1 ELSE 0
      <4> HIDE DEF e
      <4> QED BY <3>2, <2>8
    <3> HIDE DEF n
    <3> QED BY <3>3, <2>7
  <2> HIDE DEF e, n
  <2>10. PICK o0 \in departures(prC[0], e0, n[0]), o1 \in departures(prC[1], e1, n[1]) : TRUE
    BY <2>4, <2>6, <2>9, Departable
  <2> DEFINE sent(m) == departures(prC[m], e[m], n[m])
             outs == {<<left(prC[0], e0, x0), left(prC[1], e1, x1), plus(x0, x1)>> :
                        x0 \in sent(0), x1 \in sent(1)}
  <2>11. o0 \in sent(0) /\ o1 \in sent(1)
    BY <2>8, <2>10
  <2>12. <<left(prC[0], e0, o0), left(prC[1], e1, o1), plus(o0, o1)>> \in outs
    <3> HIDE DEF sent
    <3> QED BY <2>11
  <2>13. outs \subseteq priority(prC, i)
    <3> DEFINE F(f0, f1) ==
                 {<<left(prC[0], f0, x0), left(prC[1], f1, x1), plus(x0, x1)>> :
                    x0 \in departures(prC[0], both(f0, f1)[0],
                                      Prio!out(backlog(prC, both(f0, f1)))[0]),
                    x1 \in departures(prC[1], both(f0, f1)[1],
                                      Prio!out(backlog(prC, both(f0, f1)))[1])}
    <3>1. priority(prC, i) =
            UNION {F(f0, f1) : f0 \in enqueues(prC[0], i[0]), f1 \in enqueues(prC[1], i[1])}
      BY DEF priority
    <3>2. F(e0, e1) = outs
      BY DEF e, n
    <3> HIDE DEF F, outs
    <3>3. F(e0, e1) \in {F(f0, f1) : f0 \in enqueues(prC[0], i[0]), f1 \in enqueues(prC[1], i[1])}
      BY <2>5
    <3> QED BY <3>1, <3>2, <3>3
  <2> HIDE DEF outs
  <2> QED BY <2>12, <2>13 DEF i
<1> QED BY <1>1, LoomInvariant, PTL
=============================================================================
