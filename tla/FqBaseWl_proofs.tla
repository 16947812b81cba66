-------------------------- MODULE FqBaseWl_proofs --------------------------
(***************************************************************************)
(* Fair queueing, for every number of buffers and every capacity: under    *)
(* any traffic the two lists of FqChecker are sound and their positions    *)
(* bounded.  Under its base workload the loaded buffers are backlogged at  *)
(* all times, of which nothing is used of the lists but that a buffer      *)
(* sends at most one packet in a timestep; and from the two together, that *)
(* the lists have no holes, so that some buffer sends whenever one is      *)
(* listed.                                                                 *)
(***************************************************************************)
EXTENDS FqBaseWl, STSChecker_proofs, FiniteSetTheorems

(***************************************************************************)
(* The lists, for any traffic.                                             *)
(***************************************************************************)
Positions == [Bufs -> Nat \cup {-1}]

LEMMA DecType ==
  ASSUME NEW x \in Nat \cup {-1}
  PROVE  /\ dec(x) \in Nat \cup {-1}
         /\ dec(x) = IF x = -1 THEN -1 ELSE x - 1
BY DEF dec

LEMMA ShiftType ==
  ASSUME NEW pos \in Positions
  PROVE  shift(pos) \in Positions /\ \A i \in Bufs : shift(pos)[i] = dec(pos[i])
BY DecType DEF shift, Positions

LEMMA RemoveBufferType ==
  ASSUME NEW pos \in Positions, NEW bp, NEW i
  PROVE  removeBuffer(i, pos, bp) \in Positions
BY DecType DEF removeBuffer, Positions

\* The removal loop is the fold of its body over the buffers.
LEMMA RemovalLoop ==
  ASSUME NEW pos \in Positions, NEW bp
  PROVE  \E r \in [0 .. num_bufs -> Positions] :
           /\ r[0] = pos
           /\ \A i \in Bufs : r[i + 1] = removeBuffer(i, r[i], bp)
           /\ removeInactive(pos, bp) = r[num_bufs]
<1> DEFINE r[n \in 0 .. num_bufs] == IF n = 0 THEN pos ELSE removeBuffer(n - 1, r[n - 1], bp)
           G == [n \in 1 .. num_bufs |-> [p \in Positions |-> removeBuffer(n - 1, p, bp)]]
<1>1. removeInactive(pos, bp) = r[num_bufs]
  BY DEF removeInactive
<1>2. num_bufs \in Nat
  BY ParamsAssumption
<1>3. G \in Loops(num_bufs, Positions)
  BY RemoveBufferType DEF Loops
<1>4. PICK f \in [0 .. num_bufs -> Positions] : Computes(f, num_bufs, pos, G)
  <2> HIDE DEF G, r
  <2> QED BY <1>2, <1>3, Recursion, Zenon
<1>5. ASSUME NEW n \in 1 .. num_bufs PROVE f[n] = removeBuffer(n - 1, f[n - 1], bp)
  <2>1. n - 1 \in 0 .. num_bufs
    BY <1>2
  <2>2. f[n - 1] \in Positions
    BY <1>4, <2>1
  <2>3. G[n][f[n - 1]] = removeBuffer(n - 1, f[n - 1], bp)
    BY <2>2
  <2> HIDE DEF G, r
  <2> QED BY <1>4, <2>3 DEF Computes
<1>6. f = [n \in 0 .. num_bufs |-> IF n = 0 THEN pos ELSE removeBuffer(n - 1, f[n - 1], bp)]
  <2> HIDE DEF G, r
  <2>1. \A n \in 0 .. num_bufs : n # 0 => n \in 1 .. num_bufs
    BY <1>2
  <2>2. f[0] = pos
    BY <1>4 DEF Computes
  <2>3. f \in [0 .. num_bufs -> Positions]
    BY <1>4
  <2> QED BY <1>5, <2>1, <2>2, <2>3
<1>7. r = [n \in 0 .. num_bufs |-> IF n = 0 THEN pos ELSE removeBuffer(n - 1, r[n - 1], bp)]
  BY <1>6
<1> HIDE DEF r, G
<1>8. \A n \in 0 .. num_bufs : r[n] = IF n = 0 THEN pos ELSE removeBuffer(n - 1, r[n - 1], bp)
  BY <1>7
<1>9. r[0] = pos
  BY <1>2, <1>8
<1>10. ASSUME NEW i \in Bufs PROVE r[i + 1] = removeBuffer(i, r[i], bp)
  <2>1. i + 1 \in 0 .. num_bufs /\ i + 1 # 0 /\ (i + 1) - 1 = i
    BY <1>2 DEF Bufs
  <2>2. r[i + 1] = IF i + 1 = 0 THEN pos ELSE removeBuffer((i + 1) - 1, r[(i + 1) - 1], bp)
    BY <1>8, <2>1
  <2> QED BY <2>1, <2>2
<1> DEFINE T == {n \in 0 .. num_bufs : r[n] \in Positions}
<1>11. \A n \in 0 .. num_bufs : n \in T
  <2>1. 0 \in T
    BY <1>2, <1>9
  <2>2. ASSUME NEW n \in 0 .. num_bufs - 1, n \in T PROVE n + 1 \in T
    <3>1. r[n + 1] = removeBuffer(n, r[n], bp) /\ n + 1 \in 0 .. num_bufs
      BY <1>2, <1>10 DEF Bufs
    <3> QED BY <2>2, <3>1, RemoveBufferType
  <2> HIDE DEF T
  <2> QED BY <1>2, <2>1, <2>2, UpTo
<1>12. r \in [0 .. num_bufs -> Positions]
  BY <1>7, <1>11
<1> QED BY <1>1, <1>9, <1>10, <1>12

\* The body moves a buffer up by one or not at all, and removes an empty head.
LEMMA RemoveBufferFacts ==
  ASSUME NEW pos \in Positions, NEW bp, NEW i \in Bufs
  PROVE  /\ \A j \in Bufs : /\ removeBuffer(i, pos, bp)[j] <= pos[j]
                            /\ pos[j] = -1 => removeBuffer(i, pos, bp)[j] = -1
         /\ ~bp[i] /\ pos[i] <= 0 => removeBuffer(i, pos, bp)[i] = -1
<1>1. ASSUME NEW j \in Bufs
      PROVE  /\ removeBuffer(i, pos, bp)[j] \in {pos[j], dec(pos[j])}
             /\ pos[j] \in Nat \cup {-1}
  BY <1>1 DEF removeBuffer, Positions
<1>2. ~bp[i] /\ pos[i] = 0 => removeBuffer(i, pos, bp)[i] = -1
  BY ParamsAssumption DEF removeBuffer, dec, Bufs
<1>3. \A j \in Bufs : /\ removeBuffer(i, pos, bp)[j] <= pos[j]
                      /\ pos[j] = -1 => removeBuffer(i, pos, bp)[j] = -1
  BY <1>1, DecType
<1>4. pos[i] <= 0 => pos[i] = 0 \/ pos[i] = -1
  BY <1>1
<1> QED BY <1>2, <1>3, <1>4

\* The loop moves buffers up only, and leaves no empty buffer that was at the head.
LEMMA RemovalFacts ==
  ASSUME NEW pos \in Positions, NEW bp
  PROVE  /\ removeInactive(pos, bp) \in Positions
         /\ \A i \in Bufs : /\ removeInactive(pos, bp)[i] <= pos[i]
                            /\ ~bp[i] /\ pos[i] <= 0 => removeInactive(pos, bp)[i] = -1
<1>1. PICK r \in [0 .. num_bufs -> Positions] :
        /\ r[0] = pos
        /\ \A i \in Bufs : r[i + 1] = removeBuffer(i, r[i], bp)
        /\ removeInactive(pos, bp) = r[num_bufs]
  BY RemovalLoop
<1>2. num_bufs \in Nat /\ \A i \in Bufs : pos[i] \in Nat \cup {-1}
  BY ParamsAssumption DEF Positions
<1>3. ASSUME NEW n \in 0 .. num_bufs, NEW i \in Bufs PROVE r[n][i] \in Nat \cup {-1}
  BY <1>3 DEF Positions
<1> DEFINE T == {n \in 0 .. num_bufs :
                   \A i \in Bufs : /\ r[n][i] <= pos[i]
                                   /\ ~bp[i] /\ pos[i] <= 0 /\ i < n => r[n][i] = -1}
<1>4. 0 \in T
  BY <1>1, <1>2 DEF Bufs
<1>5. ASSUME NEW n \in 0 .. num_bufs - 1, n \in T PROVE n + 1 \in T
  <2>1. n \in Bufs /\ n \in 0 .. num_bufs /\ n + 1 \in 0 .. num_bufs
    BY <1>2 DEF Bufs
  <2>2. r[n + 1] = removeBuffer(n, r[n], bp) /\ r[n] \in Positions
    BY <1>1, <2>1
  <2>3. ASSUME NEW i \in Bufs
        PROVE  /\ r[n + 1][i] <= pos[i]
               /\ ~bp[i] /\ pos[i] <= 0 /\ i < n + 1 => r[n + 1][i] = -1
    <3>1. /\ r[n + 1][i] <= r[n][i]
          /\ r[n][i] = -1 => r[n + 1][i] = -1
          /\ ~bp[n] /\ r[n][n] <= 0 => r[n + 1][n] = -1
      BY <2>1, <2>2, RemoveBufferFacts
    <3>2. r[n][i] <= pos[i] /\ (~bp[i] /\ pos[i] <= 0 /\ i < n => r[n][i] = -1)
      BY <1>5
    <3>3. r[n + 1][i] \in Nat \cup {-1} /\ r[n][i] \in Nat \cup {-1} /\ i \in Int
      BY <1>3, <2>1 DEF Bufs
    <3>4. i < n + 1 => i < n \/ i = n
      BY <3>3
    <3>5. pos[i] \in Nat \cup {-1}
      BY <1>2
    <3> HIDE DEF T
    <3>6. r[n + 1][i] <= pos[i]
      BY <3>1, <3>2, <3>3, <3>5
    <3>7. ASSUME ~bp[i], pos[i] <= 0, i < n + 1 PROVE r[n + 1][i] = -1
      <4>1. CASE i < n
        BY <3>1, <3>2, <3>7, <4>1
      <4>2. CASE i = n
        <5>1. r[n][n] <= 0
          BY <3>2, <3>3, <3>5, <3>7, <4>2
        <5> QED BY <3>1, <3>7, <4>2, <5>1
      <4> QED BY <3>4, <3>7, <4>1, <4>2
    <3> QED BY <3>6, <3>7
  <2> QED BY <2>1, <2>3
<1>6. \A n \in 0 .. num_bufs : n \in T
  <2> HIDE DEF T
  <2> QED BY <1>2, <1>4, <1>5, UpTo
<1>7. num_bufs \in T /\ num_bufs \in 0 .. num_bufs /\ \A i \in Bufs : i < num_bufs
  BY <1>2, <1>6 DEF Bufs
<1> QED BY <1>1, <1>7

\* The tail of a list is its last position, -1 if the list is empty.
LEMMA TailFacts ==
  ASSUME NEW pos \in Positions
  PROVE  /\ tail(pos) \in Nat \cup {-1}
         /\ \A i \in Bufs : pos[i] <= tail(pos)
         /\ tail(pos) = -1 \/ \E i \in Bufs : pos[i] = tail(pos)
<1> DEFINE S(n) == {pos[i] : i \in {j \in Bufs : j < n}} \cup {-1}
           T == {n \in 0 .. num_bufs : \E x \in S(n) : \A y \in S(n) : x >= y}
<1>1. num_bufs \in Nat /\ \A i \in Bufs : pos[i] \in Nat \cup {-1}
  BY ParamsAssumption DEF Positions
<1>2. 0 \in T
  <2>1. S(0) = {-1}
    BY DEF Bufs
  <2> QED BY <1>1, <2>1
<1>3. ASSUME NEW n \in 0 .. num_bufs - 1, n \in T PROVE n + 1 \in T
  <2>1. PICK x \in S(n) : \A y \in S(n) : x >= y
    BY <1>3
  <2>2. S(n + 1) = S(n) \cup {pos[n]}
    BY <1>1 DEF Bufs
  <2>3. n \in Bufs /\ x \in Nat \cup {-1} /\ n + 1 \in 0 .. num_bufs
    BY <1>1 DEF Bufs
  <2>4. CASE x >= pos[n]
    BY <2>1, <2>2, <2>3, <2>4
  <2>5. CASE ~(x >= pos[n])
    <3>1. \A y \in S(n) : y \in Nat \cup {-1}
      BY <1>1
    <3>2. pos[n] \in S(n + 1) /\ \A y \in S(n + 1) : pos[n] >= y
      <4> HIDE DEF S
      <4> QED BY <1>1, <2>1, <2>2, <2>3, <2>5, <3>1
    <3> QED BY <2>3, <3>2
  <2> QED BY <2>4, <2>5
<1>4. num_bufs \in T
  <2> HIDE DEF T
  <2>1. \A n \in 0 .. num_bufs : n \in T
    BY <1>1, <1>2, <1>3, UpTo
  <2> QED BY <1>1, <2>1
<1>5. S(num_bufs) = {pos[i] : i \in Bufs} \cup {-1}
  BY <1>1 DEF Bufs
<1>6. PICK x \in S(num_bufs) : \A y \in S(num_bufs) : x >= y
  BY <1>4
<1>7. tail(pos) \in S(num_bufs) /\ \A y \in S(num_bufs) : tail(pos) >= y
  <2>1. tail(pos) = CHOOSE z \in S(num_bufs) : \A y \in S(num_bufs) : z >= y
    BY <1>5 DEF tail, Max
  <2> HIDE DEF S
  <2> QED BY <1>6, <2>1
<1> QED BY <1>1, <1>5, <1>7

\* ListsSound, of any lists and backlog.
Sound(n, o, b) ==
  \A i \in Bufs : /\ n[i] >= 0 \/ o[i] >= 0 => b[i]
                  /\ n[i] < 0 \/ o[i] < 0

\* A buffer that runs empty has just sent, and so was at the head of its list.
LEMMA EmptiedAtHead ==
  ASSUME NEW n \in Positions, NEW o \in Positions, NEW b, NEW i \in Bufs,
         Sound(n, o, b), out(n, o)[i] # 0
  PROVE  n[i] <= 0 /\ o[i] <= 0
<1>1. n[i] \in Nat \cup {-1} /\ o[i] \in Nat \cup {-1} /\ (n[i] < 0 \/ o[i] < 0)
  BY DEF Positions, Sound
<1>2. n[i] = 0 \/ o[i] = 0
  BY DEF out, heads
<1> QED BY <1>1, <1>2

LEMMA PushType ==
  ASSUME NEW n \in Positions, NEW b, NEW bp
  PROVE  /\ pushActivated(n, b, bp) \in Positions
         /\ \A i \in Bufs : ~(~b[i] /\ bp[i]) => pushActivated(n, b, bp)[i] = n[i]
<1> DEFINE activated == {i \in Bufs : ~b[i] /\ bp[i]}
           before(i) == {j \in activated : j < i}
<1>1. \A i \in Bufs : Cardinality(before(i)) \in Nat
  <2>1. IsFiniteSet(Bufs)
    BY ParamsAssumption, FS_Interval DEF Bufs
  <2> SUFFICES ASSUME NEW i \in Bufs PROVE Cardinality(before(i)) \in Nat
    OBVIOUS
  <2>2. before(i) \in SUBSET Bufs
    OBVIOUS
  <2> HIDE DEF before
  <2> QED BY <2>1, <2>2, FS_Subset, FS_CardinalityType
<1>2. pushActivated(n, b, bp) = [i \in Bufs |-> IF i \in activated
                                                THEN tail(n) + 1 + Cardinality(before(i))
                                                ELSE n[i]]
  BY DEF pushActivated
<1>3. tail(n) \in Nat \cup {-1} /\ \A i \in Bufs : n[i] \in Nat \cup {-1}
  BY TailFacts DEF Positions
<1>4. \A i \in Bufs : tail(n) + 1 + Cardinality(before(i)) \in Nat
  <2> HIDE DEF before
  <2> QED BY <1>1, <1>3
<1> HIDE DEF before
<1> QED BY <1>2, <1>3, <1>4 DEF Positions

\* One timestep keeps the lists sound, if every buffer that runs empty has sent.
LEMMA ListsStep ==
  ASSUME NEW n \in Positions, NEW o \in Positions,
         NEW b \in [Bufs -> BOOLEAN], NEW bp \in [Bufs -> BOOLEAN],
         Sound(n, o, b), \A i \in Bufs : b[i] /\ ~bp[i] => out(n, o)[i] # 0,
         NEW np, NEW op, trs(n, o, b, bp, np, op)
  PROVE  np \in Positions /\ op \in Positions /\ Sound(np, op, bp)
<1> DEFINE n1 == removeInactive(n, bp)
           o1 == removeInactive(o, bp)
           poppedN == heads(n1)
           n2 == IF poppedN # {} THEN shift(n1) ELSE n1
           n3 == pushActivated(n2, b, bp)
           poppedO == IF \A i \in Bufs : n3[i] < 0 THEN heads(o1) ELSE {}
           o2 == IF poppedO # {} THEN shift(o1) ELSE o1
<1>1. /\ np = n3
      /\ op = [i \in Bufs |-> IF bp[i] /\ i \in poppedN \cup poppedO THEN tail(o2) + 1 ELSE o2[i]]
  BY DEF trs, newList, oldList
<1>2. /\ n1 \in Positions /\ o1 \in Positions
      /\ \A i \in Bufs : n1[i] <= n[i] /\ o1[i] <= o[i]
      /\ \A i \in Bufs : ~bp[i] /\ n[i] <= 0 => n1[i] = -1
      /\ \A i \in Bufs : ~bp[i] /\ o[i] <= 0 => o1[i] = -1
  BY RemovalFacts
<1>3. poppedN = {i \in Bufs : n1[i] = 0} /\ poppedO \subseteq {i \in Bufs : o1[i] = 0}
  BY DEF heads
<1> HIDE DEF n1, o1
<1>4. /\ n2 \in Positions /\ \A i \in Bufs : n2[i] <= n1[i]
      /\ \A i \in poppedN : n2[i] = -1
  <2>1. CASE poppedN = {}
    BY <1>2, <2>1 DEF Positions
  <2>2. CASE poppedN # {}
    <3>1. n2 \in Positions /\ \A i \in Bufs : n2[i] = dec(n1[i]) /\ n1[i] \in Nat \cup {-1}
      BY <1>2, <2>2, ShiftType DEF Positions
    <3> HIDE DEF n2
    <3> QED BY <1>3, <3>1, DecType
  <2> QED BY <2>1, <2>2
<1> HIDE DEF n2, poppedN
<1>5. /\ n3 \in Positions
      /\ \A i \in Bufs : ~(~b[i] /\ bp[i]) => n3[i] = n2[i]
  BY <1>4, PushType
<1> HIDE DEF n3
<1>6. /\ o2 \in Positions /\ \A i \in Bufs : o2[i] <= o1[i]
      /\ \A i \in poppedO : o2[i] = -1
  <2>1. CASE poppedO = {}
    BY <1>2, <2>1 DEF Positions
  <2>2. CASE poppedO # {}
    <3>1. o2 \in Positions /\ \A i \in Bufs : o2[i] = dec(o1[i]) /\ o1[i] \in Nat \cup {-1}
      BY <1>2, <2>2, ShiftType DEF Positions
    <3> HIDE DEF o2
    <3> QED BY <1>3, <3>1, DecType
  <2> QED BY <2>1, <2>2
<1>7. \A i \in poppedO : \A j \in Bufs : n3[j] < 0
  OBVIOUS
<1> HIDE DEF o2, poppedO
<1>8. tail(o2) \in Nat \cup {-1}
  BY <1>6, TailFacts
<1>9. op \in Positions
  <2>1. tail(o2) + 1 \in Nat
    BY <1>8
  <2> QED BY <1>1, <1>6, <2>1 DEF Positions
<1>10. ASSUME NEW i \in Bufs
       PROVE  (np[i] >= 0 \/ op[i] >= 0 => bp[i]) /\ (np[i] < 0 \/ op[i] < 0)
  <2>1. /\ n[i] \in Nat \cup {-1} /\ n1[i] \in Nat \cup {-1} /\ n2[i] \in Nat \cup {-1}
        /\ n3[i] \in Nat \cup {-1} /\ o[i] \in Nat \cup {-1} /\ o1[i] \in Nat \cup {-1}
        /\ o2[i] \in Nat \cup {-1} /\ b[i] \in BOOLEAN /\ bp[i] \in BOOLEAN
    BY <1>2, <1>4, <1>5, <1>6 DEF Positions
  <2>2. (n[i] >= 0 \/ o[i] >= 0 => b[i]) /\ (n[i] < 0 \/ o[i] < 0)
    BY DEF Sound
  <2>3. n2[i] <= n[i] /\ o2[i] <= o[i]
    BY <1>2, <1>4, <1>6, <2>1
  <2>4. op[i] = IF bp[i] /\ i \in poppedN \cup poppedO THEN tail(o2) + 1 ELSE o2[i]
    BY <1>1
  <2>5. CASE ~bp[i]
    <3>1. n[i] <= 0 /\ o[i] <= 0
      <4>1. CASE b[i]
        BY <2>5, <4>1, EmptiedAtHead
      <4>2. CASE ~b[i]
        BY <2>1, <2>2, <4>2
      <4> QED BY <4>1, <4>2
    <3>2. n1[i] = -1 /\ o1[i] = -1
      BY <1>2, <2>5, <3>1
    <3>3. n2[i] = -1 /\ o2[i] = -1
      BY <1>4, <1>6, <2>1, <3>2
    <3> QED BY <1>1, <1>5, <2>4, <2>5, <3>3
  <2>6. CASE bp[i] /\ ~b[i]
    <3>1. n[i] = -1 /\ o[i] = -1
      BY <2>1, <2>2, <2>6
    <3>2. n1[i] = -1 /\ o1[i] = -1 /\ o2[i] = -1
      BY <1>2, <1>6, <2>1, <3>1
    <3>3. i \notin poppedN \cup poppedO
      BY <1>3, <3>2 DEF poppedN
    <3> QED BY <2>4, <2>6, <3>2, <3>3
  <2>7. CASE bp[i] /\ b[i]
    <3>1. n3[i] = n2[i]
      BY <1>5, <2>7
    <3>2. CASE n3[i] < 0
      BY <1>1, <2>7, <3>2
    <3>3. CASE n3[i] >= 0
      <4>1. n[i] >= 0 /\ o2[i] < 0 /\ i \notin poppedN /\ i \notin poppedO
        BY <1>4, <1>7, <2>1, <2>2, <2>3, <3>1, <3>3
      <4> QED BY <2>4, <2>7, <4>1
    <3> QED BY <2>1, <3>2, <3>3
  <2> QED BY <2>1, <2>5, <2>6, <2>7
<1> QED BY <1>1, <1>5, <1>9, <1>10 DEF Sound

\* The inductive invariant of the lists: what is not sent stays, so a buffer that is
\* backlogged and does not send will not run empty.
ListInv ==
  /\ C \in [Bufs -> 0 .. c] /\ B \in [Bufs -> BOOLEAN]
  /\ nq \in Positions /\ oq \in Positions
  /\ Sound(nq, oq, B)
  /\ O = out(nq, oq)
  /\ \A i \in Bufs : B[i] /\ O[i] = 0 => C[i] > 0

\* The buffers' part of a timestep.
LEMMA BuffersStep ==
  ASSUME NEW pc \in [Bufs -> 0 .. c], NEW i, NEW e, NEW d, NEW b, NEW o, NEW pcp,
         arrivals(pc, i, e, d, b), departures(pc, e, o, pcp)
  PROVE  /\ pcp \in [Bufs -> 0 .. c] /\ b \in [Bufs -> BOOLEAN]
         /\ \A n \in Bufs : /\ pc[n] > 0 => b[n]
                            /\ b[n] /\ o[n] = 0 => pcp[n] > 0
<1>1. e \in [Bufs -> 0 .. me] /\ b \in [Bufs -> BOOLEAN]
  BY ArrivalsType
<1>2. pcp \in [Bufs -> 0 .. c] /\ \A n \in Bufs : pcp[n] = pc[n] + e[n] - o[n]
  BY <1>1, DeparturesType
<1>3. ASSUME NEW n \in Bufs PROVE (pc[n] > 0 => b[n]) /\ (b[n] /\ o[n] = 0 => pcp[n] > 0)
  <2>1. pc[n] \in 0 .. c /\ e[n] \in 0 .. me
    BY <1>1
  <2>2. b[n] <=> pc[n] + e[n] > 0
    BY DEF arrivals, backlogged
  <2>3. pc[n] > 0 => pc[n] + e[n] > 0
    BY <2>1, ParamsAssumption
  <2>4. o[n] = 0 => pcp[n] = pc[n] + e[n]
    BY <1>2, <2>1, ParamsAssumption
  <2> QED BY <2>2, <2>3, <2>4
<1> QED BY <1>1, <1>2, <1>3

\* At timestep 0 the list of new buffers has the backlogged ones.
LEMMA InitLists ==
  ASSUME NEW b \in [Bufs -> BOOLEAN], NEW n, NEW o, init(b, n, o)
  PROVE  n \in Positions /\ o \in Positions /\ Sound(n, o, b)
<1> DEFINE before(i) == {j \in Bufs : j < i /\ b[j]}
<1>1. ASSUME NEW i \in Bufs PROVE Cardinality(before(i)) \in Nat
  <2>1. IsFiniteSet(Bufs) /\ before(i) \in SUBSET Bufs
    BY ParamsAssumption, FS_Interval DEF Bufs
  <2> HIDE DEF before
  <2> QED BY <2>1, FS_Subset, FS_CardinalityType
<1>2. n = [i \in Bufs |-> IF b[i] THEN Cardinality(before(i)) ELSE -1] /\ o = NoList
  BY DEF init
<1> HIDE DEF before
<1>3. n \in Positions /\ o \in Positions
  BY <1>1, <1>2 DEF Positions, NoList
<1>4. ASSUME NEW i \in Bufs PROVE ~(o[i] >= 0) /\ o[i] < 0 /\ (n[i] >= 0 => b[i])
  BY <1>2 DEF NoList
<1> QED BY <1>3, <1>4 DEF Sound

LEMMA ListInit == Init => ListInv
<1> SUFFICES ASSUME Init PROVE ListInv
  OBVIOUS
<1>1. /\ arrivals(Empty, I, E, D, B) /\ departures(Empty, E, O, C)
      /\ init(B, nq, oq) /\ O = out(nq, oq)
  BY DEF Init
<1>2. /\ C \in [Bufs -> 0 .. c] /\ B \in [Bufs -> BOOLEAN]
      /\ \A i \in Bufs : B[i] /\ O[i] = 0 => C[i] > 0
  BY <1>1, EmptyType, BuffersStep
<1> QED BY <1>1, <1>2, InitLists DEF ListInv

LEMMA ListNext == ListInv /\ [Next]_fqVars => ListInv'
<1> SUFFICES ASSUME ListInv, [Next]_fqVars PROVE ListInv'
  OBVIOUS
<1>1. CASE Next
  <2>1. /\ arrivals(C, I', E', D', B') /\ departures(C, E', O', C')
        /\ trs(nq, oq, B, B', nq', oq') /\ O' = out(nq', oq')
    BY <1>1 DEF Next, timestep
  <2>2. /\ C' \in [Bufs -> 0 .. c] /\ B' \in [Bufs -> BOOLEAN]
        /\ \A i \in Bufs : C[i] > 0 => B'[i]
        /\ \A i \in Bufs : B'[i] /\ O'[i] = 0 => C'[i] > 0
    BY <2>1, BuffersStep DEF ListInv
  <2>3. \A i \in Bufs : B[i] /\ ~B'[i] => out(nq, oq)[i] # 0
    BY <2>2 DEF ListInv
  <2>4. nq' \in Positions /\ oq' \in Positions /\ Sound(nq', oq', B')
    BY <2>1, <2>2, <2>3, ListsStep DEF ListInv
  <2> QED BY <2>1, <2>2, <2>4 DEF ListInv
<1>2. CASE UNCHANGED fqVars
  BY <1>2 DEF ListInv, fqVars, Sound
<1> QED BY <1>1, <1>2

\* FqChecker never lists a buffer that is empty, nor one as new and old at once: the
\* removal loop, for all that it changes the position it tests, takes out every
\* buffer that ran empty, since only the head of a list can.
THEOREM ListsAreSound == Spec => []ListsSound
<1>1. ListInv => ListsSound
  BY DEF ListInv, Sound, ListsSound
<1> QED BY <1>1, ListInit, ListNext, PTL DEF Spec

\* No traffic is lost to the lists, although two buffers can be their head at once:
\* in every reachable state the constraints of the next timestep have a solution for
\* every input of up to me packets per buffer, because only a backlogged buffer sends.
THEOREM NothingExcluded == Spec => []Receptive
<1>1. ListInv => Receptive
  <2> SUFFICES ASSUME ListInv, NEW inp \in [Bufs -> 0 .. me]
               PROVE  \E e \in [Bufs -> 0 .. me] :
                        LET d == [i \in Bufs |-> enq_deq_sum(inp[i], e[i])]
                            b == [i \in Bufs |-> backlogged(C[i], e[i])]
                            n == newList(nq, B, b)
                            o == oldList(nq, oq, b, n)
                            sends == out(n, o)
                            pcp == [i \in Bufs |-> remaining(C[i], e[i], sends[i])]
                        IN  timestep(inp, e, d, b, n, o, sends, pcp)
    BY DEF Receptive
  <2>1. C \in [Bufs -> 0 .. c]
    BY DEF ListInv
  <2>2. PICK e, d, b : arrivals(C, inp, e, d, b)
    BY <2>1, ArrivalsPossible
  <2>3. e \in [Bufs -> 0 .. me] /\ b \in [Bufs -> BOOLEAN]
    BY <2>1, <2>2, ArrivalsType
  <2> DEFINE n == newList(nq, B, b)
             o == oldList(nq, oq, b, n)
  <2>4. /\ d = [i \in Bufs |-> enq_deq_sum(inp[i], e[i])]
        /\ b = [i \in Bufs |-> backlogged(C[i], e[i])]
    BY <2>2 DEF arrivals
  <2>5. trs(nq, oq, B, b, n, o)
    BY DEF trs
  <2>6. \A i \in Bufs : C[i] > 0 => b[i]
    <3> SUFFICES ASSUME NEW i \in Bufs, C[i] > 0 PROVE b[i]
      OBVIOUS
    <3>1. e[i] \in 0 .. me /\ C[i] \in 0 .. c /\ (b[i] <=> C[i] + e[i] > 0)
      BY <2>1, <2>2 DEF arrivals, backlogged
    <3> QED BY <3>1, ParamsAssumption
  <2>7. \A i \in Bufs : B[i] /\ ~b[i] => out(nq, oq)[i] # 0
    BY <2>6 DEF ListInv
  <2>8. Sound(n, o, b)
    BY <2>3, <2>5, <2>7, ListsStep DEF ListInv
  <2>9. /\ out(n, o) \in [Bufs -> 0 .. 1]
        /\ \A i \in Bufs : out(n, o)[i] = 1 => b[i]
    BY <2>8 DEF out, heads, Sound
  <2>10. PICK pcp : departures(C, e, out(n, o), pcp)
    BY <2>1, <2>2, <2>9, DeparturesPossible
  <2>11. pcp = [i \in Bufs |-> remaining(C[i], e[i], out(n, o)[i])]
    BY <2>10 DEF departures
  <2>12. timestep(inp, e, d, b, n, o, out(n, o), pcp)
    BY <2>2, <2>5, <2>10 DEF timestep
  <2> QED BY <2>3, <2>4, <2>11, <2>12
<1> QED BY <1>1, ListInit, ListNext, PTL DEF Spec

-----------------------------------------------------------------------------
(***************************************************************************)
(* The positions, for any traffic.                                         *)
(***************************************************************************)
vacant(pos, f) == \A i \in Bufs : pos[i] # f

\* The buffers behind position f, and those that are not before it.
behind(pos, f) == {i \in Bufs : pos[i] > f}
rest(pos, f) == {i \in Bufs : ~(0 <= pos[i] /\ pos[i] < f)}

\* A list reaches no further beyond a hole than there are buffers to account for it:
\* each behind the hole, and each that is not before it.
FewHoles(pos) ==
  \A f \in Nat :
    f <= tail(pos) /\ vacant(pos, f) =>
      (tail(pos) - f) + 1 < Cardinality(rest(pos, f)) + Cardinality(behind(pos, f))

\* Sets of buffers.
LEMMA BufSets ==
  ASSUME NEW S \in SUBSET Bufs
  PROVE  /\ IsFiniteSet(S) /\ Cardinality(S) \in Nat /\ Cardinality(S) <= num_bufs
         /\ \A T \in SUBSET S : Cardinality(T) \in Nat /\ Cardinality(T) <= Cardinality(S)
<1>1. IsFiniteSet(Bufs) /\ Cardinality(Bufs) = num_bufs
  BY ParamsAssumption, FS_Interval DEF Bufs
<1>2. IsFiniteSet(S) /\ Cardinality(S) <= num_bufs
  BY <1>1, FS_Subset
<1>3. ASSUME NEW T \in SUBSET S
      PROVE  Cardinality(T) \in Nat /\ Cardinality(T) <= Cardinality(S)
  BY <1>2, FS_Subset, FS_CardinalityType
<1>4. Cardinality(S) \in Nat
  BY <1>2, FS_CardinalityType
<1> QED BY <1>2, <1>3, <1>4

LEMMA DisjointSets ==
  ASSUME NEW S \in SUBSET Bufs, NEW T \in SUBSET Bufs, S \cap T = {}
  PROVE  Cardinality(S \cup T) = Cardinality(S) + Cardinality(T)
<1>1. Cardinality(S \cup T) = Cardinality(S) + Cardinality(T) - Cardinality(S \cap T)
  BY BufSets, FS_Union
<1>2. Cardinality(S \cap T) = 0 /\ Cardinality(S) \in Nat /\ Cardinality(T) \in Nat
  BY BufSets, FS_EmptySet
<1> QED BY <1>1, <1>2

\* Taken positions take as many buffers.
LEMMA Occupied ==
  ASSUME NEW pos, NEW a \in Int, NEW b \in Int, NEW S \in SUBSET Bufs,
         \A p \in a .. b : \E i \in S : pos[i] = p
  PROVE  (b - a) + 1 <= Cardinality(S)
<1> DEFINE f == [p \in a .. b |-> CHOOSE i \in S : pos[i] = p]
<1>1. \A p \in a .. b : f[p] \in S /\ pos[f[p]] = p
  OBVIOUS
<1>2. f \in Injection(a .. b, S)
  <2>1. f \in [a .. b -> S]
    BY <1>1
  <2>2. \A p, q \in a .. b : f[p] = f[q] => p = q
    BY <1>1
  <2> HIDE DEF f
  <2> QED BY <2>1, <2>2 DEF Injection, IsInjective
<1>3. Cardinality(a .. b) <= Cardinality(S)
  <2> HIDE DEF f
  <2> QED BY <1>2, BufSets, FS_Injection
<1>4. Cardinality(S) \in Nat /\ Cardinality(a .. b) = IF a > b THEN 0 ELSE (b - a) + 1
  BY BufSets, FS_Interval
<1> QED BY <1>3, <1>4

\* The buffers of a set have the ranks 0, 1, 2, ...
lower(A, x) == {j \in A : j < x}

LEMMA Ranks ==
  ASSUME NEW A \in SUBSET Bufs
  PROVE  /\ \A i \in A : /\ Cardinality(lower(A, i)) \in Nat
                         /\ Cardinality(lower(A, i)) < Cardinality(A)
         /\ \A r \in Nat : r < Cardinality(A) => \E a \in A : Cardinality(lower(A, a)) = r
<1>1. num_bufs \in Nat /\ \A i \in A : i \in 0 .. num_bufs - 1
  BY ParamsAssumption DEF Bufs
<1>2. ASSUME NEW i \in A
      PROVE  /\ Cardinality(lower(A, i)) \in Nat
             /\ Cardinality(lower(A, i)) < Cardinality(A)
  <2>1. lower(A, i) \in SUBSET Bufs /\ {i} \in SUBSET Bufs /\ lower(A, i) \cap {i} = {}
    BY <1>1 DEF lower
  <2>2. Cardinality(lower(A, i) \cup {i}) = Cardinality(lower(A, i)) + 1
    <3>1. IsFiniteSet(lower(A, i))
      BY <2>1, BufSets
    <3>2. i \notin lower(A, i)
      BY <2>1
    <3> QED BY <3>1, <3>2, FS_AddElement
  <2>3. lower(A, i) \cup {i} \in SUBSET A
    BY DEF lower
  <2> QED BY <2>1, <2>2, <2>3, BufSets
<1> DEFINE T == {x \in 0 .. num_bufs :
                   \A r \in Nat : r < Cardinality(lower(A, x)) =>
                     \E a \in A : Cardinality(lower(A, a)) = r}
<1>3. 0 \in T
  <2>1. lower(A, 0) = {}
    BY <1>1 DEF lower
  <2> QED BY <1>1, <2>1, FS_EmptySet
<1>4. ASSUME NEW x \in 0 .. num_bufs - 1, x \in T PROVE x + 1 \in T
  <2>1. x + 1 \in 0 .. num_bufs /\ lower(A, x) \in SUBSET Bufs
    BY <1>1 DEF lower
  <2>2. CASE x \in A
    <3>0. \A j \in A : j < x + 1 <=> j < x \/ j = x
      BY <1>1
    <3>1. lower(A, x + 1) = lower(A, x) \cup {x} /\ lower(A, x) \cap {x} = {}
      <4>1. ~(x < x)
        BY <1>1, <2>2
      <4> QED BY <2>2, <3>0, <4>1 DEF lower
    <3>2. Cardinality(lower(A, x + 1)) = Cardinality(lower(A, x)) + 1
      <4>1. {x} \in SUBSET Bufs /\ Cardinality({x}) = 1
        BY <2>2, FS_Singleton
      <4> QED BY <2>1, <3>1, <4>1, DisjointSets
    <3>3. Cardinality(lower(A, x)) \in Nat
      BY <2>1, BufSets
    <3>4. ASSUME NEW r \in Nat, r < Cardinality(lower(A, x + 1))
          PROVE  \E a \in A : Cardinality(lower(A, a)) = r
      <4>1. r < Cardinality(lower(A, x)) \/ r = Cardinality(lower(A, x))
        BY <3>2, <3>3, <3>4
      <4> QED BY <1>4, <2>2, <4>1
    <3> QED BY <2>1, <3>4
  <2>3. CASE x \notin A
    <3>1. lower(A, x + 1) = lower(A, x)
      BY <1>1, <2>3 DEF lower
    <3> QED BY <1>4, <2>1, <3>1
  <2> QED BY <2>2, <2>3
<1>5. num_bufs \in T
  <2> HIDE DEF T
  <2>1. \A x \in 0 .. num_bufs : x \in T
    BY <1>1, <1>3, <1>4, UpTo
  <2> QED BY <1>1, <2>1
<1>6. lower(A, num_bufs) = A
  BY <1>1 DEF lower
<1> QED BY <1>2, <1>5, <1>6

\* Where the tail is, of a list in which nothing is behind x.
LEMMA TailAtMost ==
  ASSUME NEW pos \in Positions, NEW x \in Nat \cup {-1}, \A i \in Bufs : pos[i] <= x
  PROVE  tail(pos) <= x
BY TailFacts

LEMMA SetsType ==
  ASSUME NEW pos, NEW f
  PROVE  /\ rest(pos, f) \in SUBSET Bufs /\ behind(pos, f) \in SUBSET Bufs
         /\ Cardinality(rest(pos, f)) \in Nat /\ Cardinality(behind(pos, f)) \in Nat
<1>1. rest(pos, f) \in SUBSET Bufs /\ behind(pos, f) \in SUBSET Bufs
  BY DEF rest, behind
<1> QED BY <1>1, BufSets

\* The first vacant position from f on.
LEMMA NextVacant ==
  ASSUME NEW pos \in Positions, NEW f \in Nat, f <= tail(pos) + 1
  PROVE  \E g \in Nat : /\ f <= g /\ g <= tail(pos) + 1
                        /\ vacant(pos, g)
                        /\ \A p \in f .. g - 1 : \E i \in Bufs : pos[i] = p
<1> DEFINE T == {x \in Nat : f <= x /\ vacant(pos, x)}
<1>1. tail(pos) \in Nat \cup {-1} /\ \A i \in Bufs : pos[i] \in Nat \cup {-1} /\ pos[i] <= tail(pos)
  BY TailFacts DEF Positions
<1>2. tail(pos) + 1 \in T
  BY <1>1 DEF vacant
<1>3. PICK g \in T : \A x \in T : g <= x
  <2> HIDE DEF T
  <2>1. T \in SUBSET Nat
    BY DEF T
  <2> QED BY <1>2, <2>1, NatMin
<1>4. ASSUME NEW p \in f .. g - 1 PROVE \E i \in Bufs : pos[i] = p
  <2>1. p \in Nat /\ ~(g <= p) /\ f <= p
    BY <1>3
  <2>2. p \notin T
    BY <1>3, <2>1
  <2> QED BY <2>1, <2>2 DEF vacant
<1>5. g \in Nat /\ f <= g /\ vacant(pos, g) /\ g <= tail(pos) + 1
  BY <1>2, <1>3
<1> QED BY <1>4, <1>5

\* The removal of a head leaves at most one hole behind each buffer it does not move.
LEMMA HolesRemove ==
  ASSUME NEW pos \in Positions, FewHoles(pos), NEW bp, NEW i \in Bufs, ~bp[i] => pos[i] <= 0
  PROVE  FewHoles(removeBuffer(i, pos, bp))
<1> DEFINE new == removeBuffer(i, pos, bp)
<1>1. i \in Int /\ \A j \in Bufs : j \in Int /\ pos[j] \in Nat \cup {-1}
  BY DEF Positions, Bufs
<1>2. CASE ~(~bp[i] /\ pos[i] >= 0)
  BY <1>2 DEF removeBuffer
<1>3. CASE ~bp[i] /\ pos[i] = 0
  <2>1. \A j \in Bufs : new[j] = IF j <= i THEN dec(pos[j]) ELSE pos[j]
    BY <1>3 DEF removeBuffer
  <2>2. new \in Positions
    BY RemoveBufferType
  <2>3. \A j \in Bufs : /\ new[j] \in Nat \cup {-1}
                        /\ new[j] = pos[j] \/ new[j] = pos[j] - 1
                        /\ pos[j] = -1 => new[j] = -1
    BY <1>1, <2>1, <2>2, DecType DEF Positions
  <2>4. new[i] = -1
    BY <1>1, <1>3, <2>1, DecType
  <2> HIDE DEF new
  <2>5. tail(pos) \in Nat \cup {-1} /\ \A j \in Bufs : pos[j] <= tail(pos)
    BY TailFacts
  <2>6. tail(new) \in Nat \cup {-1} /\ tail(new) <= tail(pos)
    <3>1. \A j \in Bufs : new[j] <= tail(pos)
      BY <1>1, <2>3, <2>5
    <3> QED BY <2>2, <2>5, <3>1, TailFacts, TailAtMost
  <2> SUFFICES ASSUME NEW f \in Nat, f <= tail(new), vacant(new, f)
               PROVE  (tail(new) - f) + 1 < Cardinality(rest(new, f)) + Cardinality(behind(new, f))
    BY DEF FewHoles, new
  <2>7. PICK g \in Nat : /\ f <= g /\ g <= tail(pos) + 1
                         /\ vacant(pos, g)
                         /\ \A p \in f .. g - 1 : \E j \in Bufs : pos[j] = p
    <3>1. f <= tail(pos) + 1
      BY <2>5, <2>6
    <3> QED BY <3>1, NextVacant
  <2> DEFINE Btw == {j \in Bufs : f < pos[j] /\ pos[j] < g}
             R == rest(pos, g)
             Q == behind(pos, g)
  <2>8. ASSUME NEW j \in Bufs, pos[j] > f PROVE new[j] > f
    BY <1>1, <2>3, <2>8 DEF vacant
  <2>9. Q \in SUBSET behind(new, f) /\ Btw \in SUBSET behind(new, f)
    <3>1. \A j \in Bufs : pos[j] > g => pos[j] > f
      BY <1>1, <2>7
    <3> QED BY <2>8, <3>1 DEF behind
  <2>10. R \cup (Btw \cup {i}) \in SUBSET rest(new, f)
    <3>1. ASSUME NEW j \in R PROVE j \in rest(new, f)
      <4>1. j \in Bufs /\ (pos[j] = -1 \/ pos[j] > f \/ pos[j] = g)
        BY <1>1, <2>7 DEF rest
      <4>2. pos[j] # g
        BY <2>7, <4>1 DEF vacant
      <4>3. CASE pos[j] = -1
        BY <2>3, <4>1, <4>3 DEF rest
      <4>4. CASE pos[j] > f
        BY <2>3, <2>8, <4>1, <4>4 DEF rest
      <4> QED BY <4>1, <4>2, <4>3, <4>4
    <3>2. ASSUME NEW j \in Btw PROVE j \in rest(new, f)
      BY <2>3, <2>8 DEF rest
    <3>3. i \in rest(new, f)
      BY <2>4 DEF rest
    <3> HIDE DEF R, Btw
    <3> QED BY <3>1, <3>2, <3>3
  <2>11. R \in SUBSET Bufs /\ Q \in SUBSET Bufs /\ Btw \in SUBSET Bufs /\ {i} \in SUBSET Bufs
    BY DEF rest, behind
  <2>12. CASE g = f
    <3>1. Cardinality(R) <= Cardinality(rest(new, f)) /\ Cardinality(Q) <= Cardinality(behind(new, f))
      BY <2>9, <2>10, BufSets, SetsType
    <3>2. f <= tail(pos)
      BY <2>5, <2>6
    <3>3. (tail(pos) - f) + 1 < Cardinality(R) + Cardinality(Q)
      BY <2>7, <2>12, <3>2 DEF FewHoles
    <3>4. /\ Cardinality(R) \in Nat /\ Cardinality(Q) \in Nat
          /\ Cardinality(rest(new, f)) \in Nat /\ Cardinality(behind(new, f)) \in Nat
      BY SetsType
    <3> HIDE DEF R, Q
    <3> QED BY <2>5, <2>6, <3>1, <3>3, <3>4
  <2>13. CASE f < g
    <3>1. \A p \in f + 1 .. g - 1 : \E j \in Btw : pos[j] = p
      BY <2>7, <2>13
    <3>2. ((g - 1) - (f + 1)) + 1 <= Cardinality(Btw)
      <4>1. f + 1 \in Int /\ g - 1 \in Int
        OBVIOUS
      <4> HIDE DEF Btw
      <4> QED BY <2>11, <3>1, <4>1, Occupied
    <3>3. Cardinality(R \cup (Btw \cup {i})) = Cardinality(R) + (Cardinality(Btw) + 1)
      <4>1. Btw \cap {i} = {} /\ R \cap (Btw \cup {i}) = {}
        <5>1. i \notin Btw /\ i \notin R
          BY <1>3, <2>7, <2>13 DEF rest
        <5>2. ASSUME NEW j \in Btw PROVE j \notin R
          <6>1. pos[j] \in Nat \cup {-1} /\ f < pos[j] /\ pos[j] < g
            BY <1>1
          <6>2. 0 <= pos[j]
            BY <6>1
          <6> QED BY <6>1, <6>2 DEF rest
        <5> HIDE DEF R, Btw
        <5> QED BY <5>1, <5>2
      <4>2. Cardinality(Btw \cup {i}) = Cardinality(Btw) + 1
        <5>1. Cardinality({i}) = 1
          BY FS_Singleton
        <5> HIDE DEF Btw
        <5> QED BY <2>11, <4>1, <5>1, DisjointSets
      <4>3. Btw \cup {i} \in SUBSET Bufs
        OBVIOUS
      <4> HIDE DEF R, Btw
      <4> QED BY <2>11, <4>1, <4>2, <4>3, DisjointSets
    <3>4. /\ Cardinality(R) + (Cardinality(Btw) + 1) <= Cardinality(rest(new, f))
          /\ Cardinality(Q) <= Cardinality(behind(new, f))
          /\ Cardinality(Btw) <= Cardinality(behind(new, f))
      <4> HIDE DEF R, Btw, Q
      <4> QED BY <2>9, <2>10, <3>3, BufSets, SetsType
    <3>5. /\ Cardinality(R) \in Nat /\ Cardinality(Q) \in Nat /\ Cardinality(Btw) \in Nat
          /\ Cardinality(rest(new, f)) \in Nat /\ Cardinality(behind(new, f)) \in Nat
      <4> HIDE DEF Btw
      <4> QED BY <2>11, BufSets, SetsType
    <3>6. CASE g <= tail(pos)
      <4>1. (tail(pos) - g) + 1 < Cardinality(R) + Cardinality(Q)
        BY <2>7, <3>6 DEF FewHoles
      <4> HIDE DEF R, Btw, Q
      <4> QED BY <2>5, <2>6, <2>7, <2>13, <3>2, <3>4, <3>5, <4>1
    <3>7. CASE g = tail(pos) + 1
      <4>1. tail(new) # f
        BY <2>2, <2>6, TailFacts DEF vacant
      <4>2. g - f >= 2
        BY <2>5, <2>6, <2>7, <2>13, <3>7, <4>1
      <4> HIDE DEF R, Btw, Q
      <4> QED BY <2>5, <2>6, <2>7, <2>13, <3>2, <3>4, <3>5, <3>7, <4>2
    <3> QED BY <2>5, <2>7, <3>6, <3>7
  <2> QED BY <2>7, <2>12, <2>13
<1> QED BY <1>1, <1>2, <1>3

LEMMA HolesRemoval ==
  ASSUME NEW pos \in Positions, FewHoles(pos), NEW bp, \A i \in Bufs : ~bp[i] => pos[i] <= 0
  PROVE  FewHoles(removeInactive(pos, bp))
<1>1. PICK r \in [0 .. num_bufs -> Positions] :
        /\ r[0] = pos
        /\ \A i \in Bufs : r[i + 1] = removeBuffer(i, r[i], bp)
        /\ removeInactive(pos, bp) = r[num_bufs]
  BY RemovalLoop
<1>2. num_bufs \in Nat /\ \A i \in Bufs : pos[i] \in Nat \cup {-1}
  BY ParamsAssumption DEF Positions
<1> DEFINE T == {n \in 0 .. num_bufs : FewHoles(r[n]) /\ \A i \in Bufs : r[n][i] <= pos[i]}
<1>3. 0 \in T
  BY <1>1, <1>2
<1>4. ASSUME NEW n \in 0 .. num_bufs - 1, n \in T PROVE n + 1 \in T
  <2>1. n \in Bufs /\ n + 1 \in 0 .. num_bufs /\ n \in 0 .. num_bufs
    BY <1>2 DEF Bufs
  <2>2. r[n + 1] = removeBuffer(n, r[n], bp) /\ r[n] \in Positions /\ r[n + 1] \in Positions
    BY <1>1, <2>1
  <2>3. FewHoles(r[n]) /\ \A i \in Bufs : r[n][i] <= pos[i]
    BY <1>4
  <2>4. \A i \in Bufs : /\ r[n][i] \in Nat \cup {-1} /\ r[n + 1][i] \in Nat \cup {-1}
                        /\ r[n + 1][i] <= r[n][i]
    BY <2>1, <2>2, RemoveBufferFacts DEF Positions
  <2>5. ~bp[n] => r[n][n] <= 0
    BY <1>2, <2>1, <2>3, <2>4
  <2>6. FewHoles(r[n + 1])
    BY <2>1, <2>2, <2>3, <2>5, HolesRemove
  <2>7. \A i \in Bufs : r[n + 1][i] <= pos[i]
    BY <1>2, <2>3, <2>4
  <2> QED BY <2>1, <2>6, <2>7
<1>5. num_bufs \in T
  <2> HIDE DEF T
  <2>1. \A n \in 0 .. num_bufs : n \in T
    BY <1>2, <1>3, <1>4, UpTo
  <2> QED BY <1>2, <2>1
<1> QED BY <1>1, <1>5

\* All moving up by one, the head leaves no hole.
LEMMA HolesShift ==
  ASSUME NEW pos \in Positions, FewHoles(pos)
  PROVE  FewHoles(shift(pos))
<1> DEFINE new == shift(pos)
<1>1. \A i \in Bufs : pos[i] \in Nat \cup {-1}
  BY DEF Positions
<1>2. new \in Positions /\ \A i \in Bufs : new[i] = IF pos[i] = -1 THEN -1 ELSE pos[i] - 1
  BY <1>1, ShiftType, DecType
<1> HIDE DEF new
<1>3. tail(pos) \in Nat \cup {-1} /\ \A i \in Bufs : pos[i] <= tail(pos)
  BY TailFacts
<1>4. tail(new) \in Nat \cup {-1} /\ (tail(new) = -1 \/ \E i \in Bufs : new[i] = tail(new))
  BY <1>2, TailFacts
<1>5. tail(new) = -1 \/ tail(new) <= tail(pos) - 1
  BY <1>1, <1>2, <1>3, <1>4
<1> SUFFICES ASSUME NEW f \in Nat, f <= tail(new), vacant(new, f)
             PROVE  (tail(new) - f) + 1 < Cardinality(rest(new, f)) + Cardinality(behind(new, f))
  BY DEF FewHoles, new
<1>6. f + 1 \in Nat /\ f + 1 <= tail(pos) /\ vacant(pos, f + 1)
  BY <1>1, <1>2, <1>3, <1>4, <1>5 DEF vacant
<1>7. (tail(pos) - (f + 1)) + 1 < Cardinality(rest(pos, f + 1)) + Cardinality(behind(pos, f + 1))
  BY <1>6 DEF FewHoles
<1>8. ASSUME NEW i \in Bufs, pos[i] > f + 1 PROVE new[i] > f
  BY <1>1, <1>2, <1>8
<1>9. ASSUME NEW i \in Bufs, ~(0 <= pos[i] /\ pos[i] < f + 1)
      PROVE  ~(0 <= new[i] /\ new[i] < f)
  BY <1>1, <1>2, <1>9
<1>10. /\ rest(pos, f + 1) \in SUBSET rest(new, f)
       /\ behind(pos, f + 1) \in SUBSET behind(new, f)
  BY <1>8, <1>9 DEF rest, behind
<1>11. /\ Cardinality(rest(pos, f + 1)) <= Cardinality(rest(new, f))
       /\ Cardinality(behind(pos, f + 1)) <= Cardinality(behind(new, f))
  BY <1>10, BufSets, SetsType
<1> QED BY <1>3, <1>4, <1>5, <1>6, <1>7, <1>11, SetsType

\* Buffers put behind the tail, each at a position of its own or all at the first.
LEMMA HolesAppend ==
  ASSUME NEW pos \in Positions, FewHoles(pos), NEW A \in SUBSET Bufs, NEW new \in Positions,
         NEW k \in Nat, k <= Cardinality(A),
         \A i \in A : pos[i] = -1 /\ new[i] > tail(pos) /\ new[i] <= tail(pos) + k,
         \A i \in Bufs : i \notin A => new[i] = pos[i],
         \A p \in tail(pos) + 1 .. tail(pos) + k : \E i \in A : new[i] = p
  PROVE  FewHoles(new)
<1>1. /\ tail(pos) \in Nat \cup {-1} /\ \A i \in Bufs : pos[i] <= tail(pos)
      /\ \A i \in Bufs : pos[i] \in Nat \cup {-1} /\ new[i] \in Nat \cup {-1}
  BY TailFacts DEF Positions
<1>2. tail(new) \in Nat \cup {-1} /\ tail(new) <= tail(pos) + k
  <2>1. \A i \in Bufs : new[i] <= tail(pos) + k
    BY <1>1
  <2>2. tail(pos) + k \in Nat \cup {-1}
    BY <1>1
  <2> QED BY <2>1, <2>2, TailFacts, TailAtMost
<1> SUFFICES ASSUME NEW f \in Nat, f <= tail(new), vacant(new, f)
             PROVE  (tail(new) - f) + 1 < Cardinality(rest(new, f)) + Cardinality(behind(new, f))
  BY DEF FewHoles
<1>3. f <= tail(pos)
  <2> SUFFICES ASSUME f > tail(pos) PROVE FALSE
    BY <1>1
  <2>1. f \in tail(pos) + 1 .. tail(pos) + k
    BY <1>1, <1>2
  <2> QED BY <2>1 DEF vacant
<1>4. vacant(pos, f)
  BY <1>1 DEF vacant
<1>5. (tail(pos) - f) + 1 < Cardinality(rest(pos, f)) + Cardinality(behind(pos, f))
  BY <1>3, <1>4 DEF FewHoles
<1>6. \A i \in A : new[i] > f /\ ~(pos[i] > f)
  BY <1>1, <1>3
<1>7. rest(pos, f) \in SUBSET rest(new, f)
  BY <1>1, <1>6 DEF rest
<1>8. behind(pos, f) \cup A \in SUBSET behind(new, f) /\ behind(pos, f) \cap A = {}
  BY <1>6 DEF behind
<1>9. /\ Cardinality(rest(pos, f)) <= Cardinality(rest(new, f))
      /\ Cardinality(behind(pos, f)) + Cardinality(A) <= Cardinality(behind(new, f))
  <2>1. Cardinality(rest(pos, f)) <= Cardinality(rest(new, f))
    BY <1>7, BufSets, SetsType
  <2>2. Cardinality(behind(pos, f) \cup A) <= Cardinality(behind(new, f))
    BY <1>8, BufSets, SetsType
  <2>3. Cardinality(behind(pos, f) \cup A) = Cardinality(behind(pos, f)) + Cardinality(A)
    BY <1>8, SetsType, DisjointSets
  <2> QED BY <2>1, <2>2, <2>3
<1>10. Cardinality(A) \in Nat
  BY BufSets
<1> QED BY <1>1, <1>2, <1>5, <1>9, <1>10, SetsType

\* A list with few holes has its tail where TypeOK says.
LEMMA HolesBound ==
  ASSUME NEW pos \in Positions, FewHoles(pos)
  PROVE  pos \in [Bufs -> -1 .. LastPosition]
<1>1. /\ tail(pos) \in Nat \cup {-1} /\ \A i \in Bufs : pos[i] <= tail(pos)
      /\ \A i \in Bufs : pos[i] \in Nat \cup {-1}
      /\ num_bufs \in Nat \ {0} /\ LastPosition = 2 * num_bufs - 2
  BY TailFacts, ParamsAssumption DEF Positions, LastPosition
<1>2. PICK g \in Nat : /\ 0 <= g /\ g <= tail(pos) + 1
                       /\ vacant(pos, g)
                       /\ \A p \in 0 .. g - 1 : \E i \in Bufs : pos[i] = p
  BY <1>1, NextVacant
<1> DEFINE S == {i \in Bufs : 0 <= pos[i] /\ pos[i] < g}
           R == rest(pos, g)
           Q == behind(pos, g)
<1>3. S \in SUBSET Bufs /\ R \in SUBSET Bufs /\ Q \in SUBSET R /\ S \cap R = {} /\ S \cup R = Bufs
  BY <1>1 DEF rest, behind
<1>4. \A p \in 0 .. g - 1 : \E i \in S : pos[i] = p
  BY <1>2
<1> HIDE DEF S, R
<1>5. ((g - 1) - 0) + 1 <= Cardinality(S)
  <2>1. 0 \in Int /\ g - 1 \in Int
    OBVIOUS
  <2> QED BY <1>3, <1>4, <2>1, Occupied
<1>6. Cardinality(S) + Cardinality(R) <= num_bufs
  <2>1. Cardinality(S \cup R) = Cardinality(S) + Cardinality(R)
    BY <1>3, DisjointSets
  <2>2. Cardinality(S \cup R) <= num_bufs
    BY <1>3, BufSets
  <2> QED BY <2>1, <2>2
<1>7. /\ Cardinality(S) \in Nat /\ Cardinality(R) \in Nat /\ Cardinality(Q) \in Nat
      /\ Cardinality(Q) <= Cardinality(R)
  BY <1>3, BufSets
<1>8. tail(pos) <= 2 * num_bufs - 2
  <2>1. CASE g = tail(pos) + 1
    <3> HIDE DEF Q
    <3> QED BY <1>1, <1>5, <1>6, <1>7, <2>1
  <2>2. CASE g <= tail(pos)
    <3>1. (tail(pos) - g) + 1 < Cardinality(R) + Cardinality(Q)
      BY <1>2, <2>2 DEF FewHoles, R
    <3> HIDE DEF Q
    <3> QED BY <1>1, <1>5, <1>6, <1>7, <2>2, <3>1
  <2> QED BY <1>1, <1>2, <2>1, <2>2
<1>9. \A i \in Bufs : pos[i] \in -1 .. LastPosition
  BY <1>1, <1>8
<1> QED BY <1>9 DEF Positions

\* Buffers that become backlogged are put behind the tail one by one.
LEMMA HolesPush ==
  ASSUME NEW n \in Positions, FewHoles(n), NEW b, NEW bp, \A i \in Bufs : ~b[i] => n[i] = -1
  PROVE  FewHoles(pushActivated(n, b, bp))
<1> DEFINE A == {i \in Bufs : ~b[i] /\ bp[i]}
           new == pushActivated(n, b, bp)
<1>1. new = [i \in Bufs |-> IF i \in A THEN tail(n) + 1 + Cardinality(lower(A, i)) ELSE n[i]]
  BY DEF pushActivated, lower
<1>2. A \in SUBSET Bufs /\ new \in Positions
  BY PushType
<1>3. \A i \in A : n[i] = -1
  OBVIOUS
<1> HIDE DEF A, new
<1>4. Cardinality(A) \in Nat /\ tail(n) \in Nat \cup {-1}
  BY <1>2, BufSets, TailFacts
<1>5. \A i \in A : /\ Cardinality(lower(A, i)) \in Nat
                   /\ Cardinality(lower(A, i)) < Cardinality(A)
                   /\ new[i] = tail(n) + 1 + Cardinality(lower(A, i))
  BY <1>1, <1>2, Ranks
<1>6. ASSUME NEW i \in A PROVE new[i] > tail(n) /\ new[i] <= tail(n) + Cardinality(A)
  BY <1>4, <1>5
<1>7. \A i \in Bufs : i \notin A => new[i] = n[i]
  BY <1>1
<1>8. ASSUME NEW p \in tail(n) + 1 .. tail(n) + Cardinality(A) PROVE \E i \in A : new[i] = p
  <2>1. p - (tail(n) + 1) \in Nat /\ p - (tail(n) + 1) < Cardinality(A)
    BY <1>4
  <2>2. PICK a \in A : Cardinality(lower(A, a)) = p - (tail(n) + 1)
    BY <1>2, <2>1, Ranks
  <2> QED BY <1>4, <1>5, <2>2
<1>9. FewHoles(new)
  BY <1>2, <1>3, <1>4, <1>6, <1>7, <1>8, HolesAppend
<1> QED BY <1>9 DEF new

\* At timestep 0 there are none.
LEMMA HolesInit ==
  ASSUME NEW b \in [Bufs -> BOOLEAN], NEW n, NEW o, init(b, n, o)
  PROVE  FewHoles(n) /\ FewHoles(o)
<1> DEFINE A == {i \in Bufs : b[i]}
<1>1. /\ n = [i \in Bufs |-> IF b[i] THEN Cardinality(lower(A, i)) ELSE -1]
      /\ o = NoList
  <2>1. \A i \in Bufs : {j \in Bufs : j < i /\ b[j]} = lower(A, i)
    BY DEF lower
  <2> QED BY <2>1 DEF init
<1>2. NoList \in Positions /\ \A i \in Bufs : NoList[i] = -1
  BY DEF NoList, Positions
<1>3. tail(NoList) = -1
  BY <1>2, TailFacts
<1>4. FewHoles(NoList)
  BY <1>3 DEF FewHoles
<1>5. A \in SUBSET Bufs /\ n \in Positions
  BY InitLists
<1>6. \A i \in A : n[i] = Cardinality(lower(A, i))
  BY <1>1
<1>7. \A i \in Bufs : i \notin A => n[i] = NoList[i]
  BY <1>1, <1>2
<1> HIDE DEF A
<1>8. \A i \in A : n[i] > -1 /\ n[i] <= -1 + Cardinality(A)
  BY <1>5, <1>6, Ranks, BufSets
<1>9. ASSUME NEW p \in -1 + 1 .. -1 + Cardinality(A) PROVE \E i \in A : n[i] = p
  <2>1. p \in Nat /\ p < Cardinality(A)
    BY <1>5, BufSets
  <2> QED BY <1>5, <1>6, <2>1, Ranks
<1>10. Cardinality(A) \in Nat
  BY <1>5, BufSets
<1>11. FewHoles(n)
  BY <1>2, <1>3, <1>4, <1>5, <1>7, <1>8, <1>9, <1>10, HolesAppend
<1> QED BY <1>1, <1>4, <1>11

\* One timestep.
LEMMA HolesStep ==
  ASSUME NEW n \in Positions, NEW o \in Positions,
         NEW b \in [Bufs -> BOOLEAN], NEW bp \in [Bufs -> BOOLEAN],
         Sound(n, o, b), \A i \in Bufs : b[i] /\ ~bp[i] => out(n, o)[i] # 0,
         NEW np, NEW op, trs(n, o, b, bp, np, op), FewHoles(n), FewHoles(o)
  PROVE  FewHoles(np) /\ FewHoles(op)
<1> DEFINE n1 == removeInactive(n, bp)
           o1 == removeInactive(o, bp)
           poppedN == heads(n1)
           n2 == IF poppedN # {} THEN shift(n1) ELSE n1
           n3 == pushActivated(n2, b, bp)
           poppedO == IF \A i \in Bufs : n3[i] < 0 THEN heads(o1) ELSE {}
           o2 == IF poppedO # {} THEN shift(o1) ELSE o1
           P == {i \in Bufs : bp[i] /\ i \in poppedN \cup poppedO}
<1>1. /\ np = n3
      /\ op = [i \in Bufs |-> IF bp[i] /\ i \in poppedN \cup poppedO THEN tail(o2) + 1 ELSE o2[i]]
  BY DEF trs, newList, oldList
<1>2. n1 \in Positions /\ o1 \in Positions /\ \A i \in Bufs : n1[i] <= n[i] /\ o1[i] <= o[i]
  BY RemovalFacts
<1>3. ASSUME NEW i \in Bufs, ~bp[i] PROVE n[i] <= 0 /\ o[i] <= 0
  <2>1. n[i] \in Nat \cup {-1} /\ o[i] \in Nat \cup {-1}
    BY DEF Positions
  <2>2. CASE b[i]
    BY <1>3, <2>2, EmptiedAtHead
  <2>3. CASE ~b[i]
    BY <2>1, <2>3 DEF Sound
  <2> QED BY <2>2, <2>3
<1>4. FewHoles(n1) /\ FewHoles(o1)
  BY <1>3, HolesRemoval
<1>5. poppedN = {i \in Bufs : n1[i] = 0} /\ poppedO \subseteq {i \in Bufs : o1[i] = 0}
  BY DEF heads
<1> HIDE DEF n1, o1
<1>6. n2 \in Positions /\ FewHoles(n2) /\ \A i \in Bufs : n2[i] <= n1[i]
  <2>1. CASE poppedN = {}
    BY <1>2, <1>4, <2>1 DEF Positions
  <2>2. CASE poppedN # {}
    <3>1. n2 \in Positions /\ \A i \in Bufs : n2[i] = dec(n1[i]) /\ n1[i] \in Nat \cup {-1}
      BY <1>2, <2>2, ShiftType DEF Positions
    <3>2. FewHoles(n2)
      BY <1>2, <1>4, <2>2, HolesShift
    <3> HIDE DEF n2
    <3> QED BY <3>1, <3>2, DecType
  <2> QED BY <2>1, <2>2
<1> HIDE DEF n2, poppedN
<1>7. FewHoles(n3)
  <2>1. ASSUME NEW i \in Bufs, ~b[i] PROVE n2[i] = -1
    <3>1. n[i] \in Nat \cup {-1} /\ n1[i] \in Nat \cup {-1} /\ n2[i] \in Nat \cup {-1}
      BY <1>2, <1>6 DEF Positions
    <3>2. ~(n[i] >= 0)
      BY <2>1 DEF Sound
    <3> QED BY <1>2, <1>6, <3>1, <3>2
  <2> QED BY <1>6, <2>1, HolesPush
<1> HIDE DEF n3
<1>8. /\ o2 \in Positions /\ FewHoles(o2) /\ \A i \in Bufs : o2[i] <= o1[i]
      /\ \A i \in poppedO : o2[i] = -1
  <2>1. CASE poppedO = {}
    BY <1>2, <1>4, <2>1 DEF Positions
  <2>2. CASE poppedO # {}
    <3>1. o2 \in Positions /\ \A i \in Bufs : o2[i] = dec(o1[i]) /\ o1[i] \in Nat \cup {-1}
      BY <1>2, <2>2, ShiftType DEF Positions
    <3>2. FewHoles(o2)
      BY <1>2, <1>4, <2>2, HolesShift
    <3> HIDE DEF o2
    <3> QED BY <1>5, <3>1, <3>2, DecType
  <2> QED BY <2>1, <2>2
<1> HIDE DEF o2, poppedO
<1>9. \A i \in P : o2[i] = -1
  <2> SUFFICES ASSUME NEW i \in P, i \in poppedN PROVE o2[i] = -1
    BY <1>8
  <2>1. /\ n[i] \in Nat \cup {-1} /\ n1[i] \in Nat \cup {-1} /\ o[i] \in Nat \cup {-1}
        /\ o1[i] \in Nat \cup {-1} /\ o2[i] \in Nat \cup {-1}
    BY <1>2, <1>8 DEF Positions
  <2>2. n[i] >= 0
    BY <1>2, <1>5, <2>1
  <2>3. o[i] < 0
    BY <2>1, <2>2 DEF Sound
  <2> QED BY <1>2, <1>8, <2>1, <2>3
<1>10. P \in SUBSET Bufs /\ op = [i \in Bufs |-> IF i \in P THEN tail(o2) + 1 ELSE o2[i]]
  BY <1>1
<1> HIDE DEF P
<1>11. FewHoles(op)
  <2>1. op \in Positions
    BY ListsStep
  <2>2. CASE P = {}
    BY <1>8, <1>10, <2>2 DEF Positions
  <2>3. CASE P # {}
    <3>1. tail(o2) \in Nat \cup {-1}
      BY <1>8, TailFacts
    <3>2. 1 <= Cardinality(P) /\ 1 \in Nat
      <4>1. Cardinality(P) \in Nat /\ Cardinality(P) # 0
        BY <1>10, <2>3, BufSets, FS_EmptySet
      <4> QED BY <4>1
    <3>3. \A i \in P : o2[i] = -1 /\ op[i] > tail(o2) /\ op[i] <= tail(o2) + 1
      BY <1>9, <1>10, <3>1
    <3>4. \A i \in Bufs : i \notin P => op[i] = o2[i]
      BY <1>10
    <3>5. \A p \in tail(o2) + 1 .. tail(o2) + 1 : \E i \in P : op[i] = p
      BY <1>10, <2>3, <3>1
    <3> QED BY <1>8, <1>10, <2>1, <3>2, <3>3, <3>4, <3>5, HolesAppend
  <2> QED BY <2>2, <2>3
<1> QED BY <1>1, <1>7, <1>11

\* FqChecker::out has a buffer send one packet or none.
LEMMA OutType ==
  ASSUME NEW n, NEW o
  PROVE  out(n, o) \in [Bufs -> 0 .. 1]
BY DEF out

PosInv == bounds /\ FewHoles(nq) /\ FewHoles(oq)

\* The buffers' arrays after a timestep.
LEMMA BoundsStep ==
  ASSUME NEW pc \in [Bufs -> 0 .. c], NEW i, NEW e, NEW d, NEW b, NEW n, NEW o, NEW pcp,
         arrivals(pc, i, e, d, b), departures(pc, e, out(n, o), pcp)
  PROVE  /\ i \in [Bufs -> 0 .. MAX_I] /\ e \in [Bufs -> 0 .. me] /\ d \in [Bufs -> 0 .. me]
         /\ b \in [Bufs -> BOOLEAN] /\ out(n, o) \in [Bufs -> 0 .. md]
         /\ pcp \in [Bufs -> 0 .. c]
<1>1. out(n, o) \in [Bufs -> 0 .. md]
  BY OutType, ParamsAssumption
<1> QED BY <1>1, ArrivalsType, DeparturesType

LEMMA PosInit == Init => PosInv
<1> SUFFICES ASSUME Init PROVE PosInv
  OBVIOUS
<1>1. /\ arrivals(Empty, I, E, D, B) /\ departures(Empty, E, out(nq, oq), C)
      /\ init(B, nq, oq) /\ O = out(nq, oq)
  BY DEF Init
<1>2. bounds
  BY <1>1, EmptyType, BoundsStep DEF bounds
<1>3. B \in [Bufs -> BOOLEAN]
  BY <1>2 DEF bounds
<1> QED BY <1>1, <1>2, <1>3, HolesInit DEF PosInv

LEMMA PosNext == ListInv /\ PosInv /\ [Next]_fqVars => PosInv'
<1> SUFFICES ASSUME ListInv, PosInv, [Next]_fqVars PROVE PosInv'
  OBVIOUS
<1>1. CASE Next
  <2>1. /\ arrivals(C, I', E', D', B') /\ departures(C, E', out(nq', oq'), C')
        /\ trs(nq, oq, B, B', nq', oq') /\ O' = out(nq', oq')
    BY <1>1 DEF Next, timestep
  <2>2. bounds'
    BY <2>1, BoundsStep DEF bounds, ListInv
  <2>3. B' \in [Bufs -> BOOLEAN] /\ \A i \in Bufs : C[i] > 0 => B'[i]
    BY <2>1, BuffersStep DEF ListInv
  <2>4. \A i \in Bufs : B[i] /\ ~B'[i] => out(nq, oq)[i] # 0
    BY <2>3 DEF ListInv
  <2>5. FewHoles(nq') /\ FewHoles(oq')
    BY <2>1, <2>3, <2>4, HolesStep DEF ListInv, PosInv
  <2> QED BY <2>2, <2>5 DEF PosInv
<1>2. CASE UNCHANGED fqVars
  BY <1>2 DEF PosInv, fqVars, bounds
<1> QED BY <1>1, <1>2

\* The positions that FqChecker leaves without a bound have one, for any number of
\* buffers and any traffic: the holes which the removal loop and the heads that leave
\* nobody behind them make in a list are never more than the buffers behind them and out
\* of their way.  And the arrays of the buffers are in their ranges.
THEOREM PositionsBounded == Spec => []TypeOK
<1>1. ListInv /\ PosInv => TypeOK
  BY HolesBound DEF ListInv, PosInv, TypeOK
<1> QED BY <1>1, ListInit, ListNext, PosInit, PosNext, PTL DEF Spec

-----------------------------------------------------------------------------
(***************************************************************************)
(* The base workload.                                                      *)
(***************************************************************************)
\* A loaded buffer holds at least what it has been offered ahead of base_wl.
Covered == kept => \A n \in Loaded : 0 <= slack[n] /\ slack[n] <= C[n]

IInv ==
  /\ C \in [Bufs -> 0 .. c]
  /\ slack \in [Bufs -> Int]
  /\ kept \in BOOLEAN
  /\ Covered
  /\ LoadedBacklogged

-----------------------------------------------------------------------------
\* The bookkeeping of base_wl is of the right kind.
LEMMA CountType ==
  ASSUME NEW prev \in [Bufs -> Int], NEW ok \in BOOLEAN, NEW i \in [Bufs -> 0 .. MAX_I],
         NEW s, NEW k, count(prev, ok, i, s, k)
  PROVE  s \in [Bufs -> Int] /\ k \in BOOLEAN
<1> DEFINE more == [n \in Bufs |-> prev[n] + i[n] - 1]
<1>1. more \in [Bufs -> Int]
  BY ParamsAssumption
<1>2. k = (ok /\ base_wl(more) /\ \A n \in Loaded : more[n] <= MaxSlack)
  BY DEF count
<1>3. s = IF k THEN [n \in Bufs |-> IF n \in Loaded THEN more[n] ELSE 0] ELSE Empty
  BY DEF count
<1>4. k \in BOOLEAN
  BY <1>2
<1> HIDE DEF more
<1>5. s \in [Bufs -> Int]
  BY <1>1, <1>3 DEF Empty
<1> QED BY <1>4, <1>5

\* One timestep, from buffers that hold pc: if base_wl is still kept, a loaded
\* buffer is backlogged and ends with as much as it is ahead.  A buffer that is
\* not full took all it was offered; one that is full keeps at least c - 1.
LEMMA KeepsBacklog ==
  ASSUME NEW pc \in [Bufs -> 0 .. c], NEW i, NEW e, NEW d, NEW b, NEW o, NEW pcp,
         arrivals(pc, i, e, d, b), departures(pc, e, o, pcp),
         o \in [Bufs -> 0 .. 1],
         NEW prev \in [Bufs -> Int], NEW ok, NEW s, NEW k,
         count(prev, ok, i, s, k),
         \A n \in Loaded : 0 <= prev[n] /\ prev[n] <= pc[n],
         k
  PROVE  \A n \in Loaded : /\ 0 <= s[n] /\ s[n] <= pcp[n]
                           /\ b[n]
<1> DEFINE more == [n \in Bufs |-> prev[n] + i[n] - 1]
<1>1. base_wl(more) /\ \A n \in Loaded : more[n] <= MaxSlack
  BY DEF count
<1>2. s = [n \in Bufs |-> IF n \in Loaded THEN more[n] ELSE 0]
  BY DEF count
<1>3. SUFFICES ASSUME NEW n \in Loaded
               PROVE  0 <= s[n] /\ s[n] <= pcp[n] /\ b[n]
  OBVIOUS
<1>4. n \in Bufs
  BY ParamsAssumption DEF Loaded, Bufs
<1>5. s[n] = prev[n] + i[n] - 1
  BY <1>2, <1>4
<1>6. 0 <= s[n] /\ s[n] <= MaxSlack
  BY <1>1, <1>4, <1>5 DEF base_wl
<1>7. e[n] = Least(i[n], c - pc[n])
  BY <1>4, TakesWhatFits
<1>8. i[n] \in 0 .. MAX_I /\ e[n] \in 0 .. me /\ e \in [Bufs -> 0 .. me]
  BY <1>4, ArrivalsType
<1>9. pcp[n] = pc[n] + e[n] - o[n] /\ o[n] \in 0 .. 1
  BY <1>4, <1>8, DeparturesType
<1>10. b[n] = (pc[n] + e[n] > 0)
  BY <1>4 DEF arrivals, backlogged
<1>11. prev[n] <= pc[n] /\ pc[n] \in 0 .. c /\ prev[n] \in Int
  BY <1>1, <1>4
<1>12. MaxSlack \in 0 .. c - 1
  BY SlackAssumption
<1>13. s[n] <= pcp[n] /\ pc[n] + e[n] > 0
  <2>1. CASE i[n] <= c - pc[n]
    <3>1. e[n] = i[n]
      BY <1>7, <2>1 DEF Least
    <3> QED BY <3>1, <1>5, <1>6, <1>8, <1>9, <1>11, <1>12, ParamsAssumption
  <2>2. CASE ~(i[n] <= c - pc[n])
    <3>1. e[n] = c - pc[n]
      BY <1>7, <2>2 DEF Least
    <3> QED BY <3>1, <1>5, <1>6, <1>8, <1>9, <1>11, <1>12, ParamsAssumption
  <2> QED BY <2>1, <2>2
<1> QED BY <1>6, <1>10, <1>13, Zenon

-----------------------------------------------------------------------------
LEMMA InitInv == WlInit => IInv
<1> SUFFICES ASSUME WlInit PROVE IInv
  OBVIOUS
<1>1. arrivals(Empty, I, E, D, B) /\ O = out(nq, oq) /\ departures(Empty, E, O, C)
  BY DEF WlInit, Init
<1>2. count(Empty, TRUE, I, slack, kept)
  BY DEF WlInit
<1>3. Empty \in [Bufs -> 0 .. c] /\ Empty \in [Bufs -> Int]
  BY EmptyType, ParamsAssumption DEF Empty
<1>4. I \in [Bufs -> 0 .. MAX_I] /\ E \in [Bufs -> 0 .. me]
  BY <1>1, <1>3, ArrivalsType
<1>5. C \in [Bufs -> 0 .. c]
  BY <1>1, <1>3, <1>4, DeparturesType
<1>6. slack \in [Bufs -> Int] /\ kept \in BOOLEAN
  BY <1>2, <1>3, <1>4, CountType
<1>7. O \in [Bufs -> 0 .. 1]
  BY <1>1, OutType
<1>8. \A n \in Loaded : 0 <= Empty[n] /\ Empty[n] <= Empty[n]
  BY ParamsAssumption DEF Empty, Loaded, Bufs
<1>9. ASSUME kept
      PROVE  \A n \in Loaded : 0 <= slack[n] /\ slack[n] <= C[n] /\ B[n]
  BY <1>1, <1>2, <1>3, <1>7, <1>8, <1>9, KeepsBacklog
<1> QED BY <1>5, <1>6, <1>9 DEF IInv, Covered, LoadedBacklogged

LEMMA NextInv == IInv /\ [WlNext]_wlVars => IInv'
<1> SUFFICES ASSUME IInv, [WlNext]_wlVars PROVE IInv'
  OBVIOUS
<1>1. CASE WlNext
  <2>1. /\ arrivals(C, I', E', D', B')
        /\ O' = out(nq', oq')
        /\ departures(C, E', O', C')
    BY <1>1 DEF WlNext, Next, timestep
  <2>2. count(slack, kept, I', slack', kept')
    BY <1>1 DEF WlNext
  <2>3. C \in [Bufs -> 0 .. c] /\ slack \in [Bufs -> Int] /\ kept \in BOOLEAN
    BY DEF IInv
  <2>4. I' \in [Bufs -> 0 .. MAX_I] /\ E' \in [Bufs -> 0 .. me]
    BY <2>1, <2>3, ArrivalsType
  <2>5. C' \in [Bufs -> 0 .. c]
    BY <2>1, <2>3, <2>4, DeparturesType
  <2>6. slack' \in [Bufs -> Int] /\ kept' \in BOOLEAN
    BY <2>2, <2>3, <2>4, CountType
  <2>7. O' \in [Bufs -> 0 .. 1]
    BY <2>1, OutType
  <2>8. ASSUME kept'
        PROVE  \A n \in Loaded : 0 <= slack'[n] /\ slack'[n] <= C'[n] /\ B'[n]
    <3>1. kept
      BY <2>2, <2>8 DEF count
    <3>2. \A n \in Loaded : 0 <= slack[n] /\ slack[n] <= C[n]
      BY <3>1 DEF IInv, Covered
    <3> QED BY <2>1, <2>2, <2>3, <2>7, <2>8, <3>2, KeepsBacklog
  <2> QED BY <2>5, <2>6, <2>8 DEF IInv, Covered, LoadedBacklogged
<1>2. CASE UNCHANGED wlVars
  BY <1>2 DEF IInv, Covered, LoadedBacklogged, wlVars
<1> QED BY <1>1, <1>2

\* FqChecker::base_wl without bursts keeps every buffer but the last backlogged
\* at all times, so the fair-queueing query is asked of buffers that could send.
THEOREM BaseWlKeepsBacklog == WlSpec => []LoadedBacklogged
<1>1. IInv => LoadedBacklogged
  BY DEF IInv
<1> QED BY <1>1, InitInv, NextInv, PTL DEF WlSpec

-----------------------------------------------------------------------------
(***************************************************************************)
(* The lists under the base workload.  Only the last buffer can run empty, *)
(* and everything after it in the list moves up: the positions of a list   *)
(* are all taken, from the head on.                                        *)
(***************************************************************************)
NoGaps(pos) == \A i \in Bufs : pos[i] > 0 => \E j \in Bufs : pos[j] = pos[i] - 1

last == num_bufs - 1

LEMMA LastFacts == last \in Bufs /\ \A i \in Bufs : i <= last /\ (i # last => i \in Loaded)
BY ParamsAssumption DEF last, Bufs, Loaded

\* Such a list has a head.
LEMMA NoGapsHead ==
  ASSUME NEW pos \in Positions, NoGaps(pos), NEW i \in Bufs, pos[i] >= 0
  PROVE  heads(pos) # {}
<1> DEFINE T == {x \in Nat : \E j \in Bufs : pos[j] = x}
<1>1. \A j \in Bufs : pos[j] \in Nat \cup {-1}
  BY DEF Positions
<1>2. T \in SUBSET Nat /\ T # {}
  BY <1>1
<1>3. PICK x \in T : \A y \in T : x <= y
  <2> HIDE DEF T
  <2> QED BY <1>2, NatMin
<1>4. PICK j \in Bufs : pos[j] = x
  OBVIOUS
<1>5. x = 0
  <2> SUFFICES ASSUME x > 0 PROVE FALSE
    BY <1>2
  <2>1. PICK k \in Bufs : pos[k] = x - 1
    BY <1>4 DEF NoGaps
  <2>2. x - 1 \in T
    BY <2>1
  <2>3. x \in Nat /\ x - 1 \in Nat /\ ~(x <= x - 1)
    OBVIOUS
  <2> HIDE DEF T
  <2> QED BY <1>3, <2>2, <2>3
<1> QED BY <1>4, <1>5 DEF heads

LEMMA NoGapsShift ==
  ASSUME NEW pos \in Positions, NoGaps(pos)
  PROVE  NoGaps(shift(pos))
<1> SUFFICES ASSUME NEW i \in Bufs, shift(pos)[i] > 0
             PROVE  \E j \in Bufs : shift(pos)[j] = shift(pos)[i] - 1
  BY DEF NoGaps
<1>1. \A j \in Bufs : pos[j] \in Nat \cup {-1} /\ shift(pos)[j] = dec(pos[j])
  BY ShiftType DEF Positions
<1>2. pos[i] > 1 /\ shift(pos)[i] = pos[i] - 1
  BY <1>1, DecType
<1>3. PICK j \in Bufs : pos[j] = pos[i] - 1
  BY <1>1, <1>2 DEF NoGaps
<1>4. shift(pos)[j] = pos[j] - 1
  BY <1>1, <1>2, <1>3, DecType
<1> QED BY <1>1, <1>2, <1>3, <1>4

\* The removal of the last buffer moves up all of the list.
LEMMA RemovalOfLast ==
  ASSUME NEW pos \in Positions, NEW bp
  PROVE  (\A i \in Loaded : bp[i]) =>
           removeInactive(pos, bp) = pos \/ removeInactive(pos, bp) = shift(pos)
<1>1. PICK r \in [0 .. num_bufs -> Positions] :
        /\ r[0] = pos
        /\ \A i \in Bufs : r[i + 1] = removeBuffer(i, r[i], bp)
        /\ removeInactive(pos, bp) = r[num_bufs]
  BY RemovalLoop
<1> SUFFICES ASSUME \A i \in Loaded : bp[i]
             PROVE  removeInactive(pos, bp) = pos \/ removeInactive(pos, bp) = shift(pos)
  OBVIOUS
<1>2. num_bufs \in Nat \ {0} /\ last \in 0 .. num_bufs /\ last + 1 = num_bufs /\ last \in Nat
  BY ParamsAssumption DEF last
<1> DEFINE T == {n \in 0 .. last : r[n] = pos}
<1>3. 0 \in T
  BY <1>1, <1>2
<1>4. ASSUME NEW n \in 0 .. last - 1, n \in T PROVE n + 1 \in T
  <2>1. n \in Bufs /\ n \in Loaded /\ n + 1 \in 0 .. last
    BY <1>2 DEF Bufs, Loaded, last
  <2>2. r[n + 1] = removeBuffer(n, r[n], bp) /\ bp[n]
    BY <1>1, <2>1
  <2> QED BY <1>4, <2>1, <2>2 DEF removeBuffer
<1>5. r[last] = pos
  <2>1. \A n \in 0 .. last : n \in T
    <3> HIDE DEF T
    <3> QED BY <1>2, <1>3, <1>4, UpTo
  <2> QED BY <1>2, <2>1
<1>6. removeInactive(pos, bp) = removeBuffer(last, pos, bp)
  BY <1>1, <1>2, <1>5, LastFacts
<1>7. removeBuffer(last, pos, bp) = IF ~bp[last] /\ pos[last] >= 0 THEN shift(pos) ELSE pos
  BY LastFacts DEF removeBuffer, shift
<1> QED BY <1>6, <1>7

LEMMA NoGapsRemoval ==
  ASSUME NEW pos \in Positions, NoGaps(pos), NEW bp, \A i \in Loaded : bp[i]
  PROVE  NoGaps(removeInactive(pos, bp))
BY NoGapsShift, RemovalOfLast

\* The last buffer, if it is not in the list, is put behind its tail.
LEMMA NoGapsPush ==
  ASSUME NEW n \in Positions, NoGaps(n), NEW b, NEW bp, \A i \in Loaded : b[i],
         ~b[last] => n[last] < 0
  PROVE  NoGaps(pushActivated(n, b, bp))
<1> DEFINE activated == {i \in Bufs : ~b[i] /\ bp[i]}
           n3 == pushActivated(n, b, bp)
<1>1. activated \subseteq {last}
  BY LastFacts
<1>2. \A i \in Bufs : n[i] \in Nat \cup {-1}
  BY DEF Positions
<1>3. CASE last \notin activated
  <2>1. \A i \in Bufs : n3[i] = n[i]
    BY <1>1, <1>3 DEF pushActivated
  <2> HIDE DEF n3
  <2>2. NoGaps(n3)
    BY <2>1 DEF NoGaps
  <2> QED BY <2>2 DEF n3
<1>4. CASE last \in activated
  <2>1. {j \in activated : j < last} = {}
    BY <1>1, ParamsAssumption DEF last
  <2>2. n3[last] = tail(n) + 1
    <3>1. n3[last] = tail(n) + 1 + Cardinality({j \in activated : j < last})
      BY <1>4 DEF pushActivated
    <3>2. tail(n) \in Int
      BY TailFacts
    <3>3. Cardinality({j \in activated : j < last}) = 0
      BY <2>1, FS_EmptySet
    <3> HIDE DEF n3, activated
    <3> QED BY <3>1, <3>2, <3>3
  <2>3. \A i \in Bufs : i # last => n3[i] = n[i]
    BY <1>1 DEF pushActivated
  <2>4. n[last] < 0
    BY <1>4
  <2> HIDE DEF n3
  <2>5. ASSUME NEW i \in Bufs, n[i] >= 0 PROVE n3[i] = n[i]
    BY <1>2, <2>3, <2>4, <2>5
  <2>6. ASSUME NEW i \in Bufs, n3[i] > 0 PROVE \E j \in Bufs : n3[j] = n3[i] - 1
    <3>1. CASE i = last
      <4>1. tail(n) \in Nat
        BY <2>2, <2>6, <3>1, TailFacts
      <4>2. PICK j \in Bufs : n[j] = tail(n)
        BY <4>1, TailFacts
      <4>3. n3[j] = n[j]
        BY <2>5, <4>1, <4>2
      <4> QED BY <2>2, <3>1, <4>1, <4>2, <4>3
    <3>2. CASE i # last
      <4>1. n3[i] = n[i]
        BY <2>3, <3>2
      <4>2. PICK j \in Bufs : n[j] = n[i] - 1
        BY <2>6, <4>1 DEF NoGaps
      <4>3. n3[j] = n[j]
        BY <1>2, <2>5, <2>6, <4>1, <4>2
      <4> QED BY <4>1, <4>2, <4>3
    <3> QED BY <3>1, <3>2
  <2> QED BY <2>6 DEF NoGaps, n3
<1> QED BY <1>3, <1>4
LEMMA NoGapsStep ==
  ASSUME NEW n \in Positions, NEW o \in Positions,
         NEW b \in [Bufs -> BOOLEAN], NEW bp \in [Bufs -> BOOLEAN],
         Sound(n, o, b), NEW np, NEW op, trs(n, o, b, bp, np, op),
         \A i \in Loaded : b[i] /\ bp[i], NoGaps(n), NoGaps(o)
  PROVE  NoGaps(np) /\ NoGaps(op)
<1> DEFINE n1 == removeInactive(n, bp)
           o1 == removeInactive(o, bp)
           poppedN == heads(n1)
           n2 == IF poppedN # {} THEN shift(n1) ELSE n1
           n3 == pushActivated(n2, b, bp)
           poppedO == IF \A i \in Bufs : n3[i] < 0 THEN heads(o1) ELSE {}
           o2 == IF poppedO # {} THEN shift(o1) ELSE o1
<1>1. /\ np = n3
      /\ op = [i \in Bufs |-> IF bp[i] /\ i \in poppedN \cup poppedO THEN tail(o2) + 1 ELSE o2[i]]
  BY DEF trs, newList, oldList
<1>2. n1 \in Positions /\ o1 \in Positions /\ \A i \in Bufs : n1[i] <= n[i] /\ o1[i] <= o[i]
  BY RemovalFacts
<1>3. NoGaps(n1) /\ NoGaps(o1)
  BY NoGapsRemoval
<1>4. poppedN = {i \in Bufs : n1[i] = 0} /\ poppedO \subseteq {i \in Bufs : o1[i] = 0}
  BY DEF heads
<1> HIDE DEF n1, o1
<1>5. n2 \in Positions /\ NoGaps(n2) /\ \A i \in Bufs : n2[i] <= n1[i]
  <2>1. CASE poppedN = {}
    BY <1>2, <1>3, <2>1 DEF Positions
  <2>2. CASE poppedN # {}
    <3>1. n2 \in Positions /\ \A i \in Bufs : n2[i] = dec(n1[i]) /\ n1[i] \in Nat \cup {-1}
      BY <1>2, <2>2, ShiftType DEF Positions
    <3>2. NoGaps(n2)
      BY <1>2, <1>3, <2>2, NoGapsShift
    <3> HIDE DEF n2
    <3> QED BY <3>1, <3>2, DecType
  <2> QED BY <2>1, <2>2
<1> HIDE DEF n2, poppedN
<1>6. NoGaps(n3)
  <2>1. \A i \in Loaded : b[i]
    OBVIOUS
  <2>2. ~b[last] => n2[last] < 0
    <3>1. n[last] \in Int /\ n1[last] \in Int /\ n2[last] \in Int
      BY <1>2, <1>5, LastFacts DEF Positions
    <3>2. n[last] >= 0 => b[last]
      BY LastFacts DEF Sound
    <3> QED BY <1>2, <1>5, <3>1, <3>2, LastFacts
  <2> QED BY <1>5, <2>1, <2>2, NoGapsPush
<1> HIDE DEF n3
<1>7. /\ o2 \in Positions /\ NoGaps(o2) /\ \A i \in Bufs : o2[i] <= o1[i]
      /\ \A i \in poppedO : o2[i] = -1
  <2>1. CASE poppedO = {}
    BY <1>2, <1>3, <2>1 DEF Positions
  <2>2. CASE poppedO # {}
    <3>1. o2 \in Positions /\ \A i \in Bufs : o2[i] = dec(o1[i]) /\ o1[i] \in Nat \cup {-1}
      BY <1>2, <2>2, ShiftType DEF Positions
    <3>2. NoGaps(o2)
      BY <1>2, <1>3, <2>2, NoGapsShift
    <3> HIDE DEF o2
    <3> QED BY <1>4, <3>1, <3>2, DecType
  <2> QED BY <2>1, <2>2
<1> HIDE DEF o2, poppedO
<1>8. ASSUME NEW j \in Bufs, o2[j] >= 0 PROVE op[j] = o2[j]
  <2>1. n[j] \in Int /\ n1[j] \in Int /\ o[j] \in Int /\ o1[j] \in Int /\ o2[j] \in Int
    BY <1>2, <1>7 DEF Positions
  <2>2. j \notin poppedO
    BY <1>7, <1>8
  <2>3. j \notin poppedN
    <3>1. o[j] >= 0
      BY <1>2, <1>7, <1>8, <2>1
    <3>2. n[j] < 0
      BY <2>1, <3>1 DEF Sound
    <3> QED BY <1>2, <1>4, <2>1, <3>2 DEF poppedN
  <2> QED BY <1>1, <2>2, <2>3
<1>9. ASSUME NEW i \in Bufs, op[i] > 0 PROVE \E j \in Bufs : op[j] = op[i] - 1
  <2>1. tail(o2) \in Nat \cup {-1} /\ \A j \in Bufs : o2[j] \in Nat \cup {-1}
    BY <1>7, TailFacts DEF Positions
  <2>2. op[i] = tail(o2) + 1 \/ op[i] = o2[i]
    BY <1>1
  <2>3. CASE op[i] = tail(o2) + 1
    <3>1. tail(o2) \in Nat
      BY <1>9, <2>1, <2>3
    <3>2. PICK j \in Bufs : o2[j] = tail(o2)
      BY <1>7, <3>1, TailFacts
    <3> QED BY <1>8, <2>3, <3>1, <3>2
  <2>4. CASE op[i] = o2[i]
    <3>1. PICK j \in Bufs : o2[j] = o2[i] - 1
      BY <1>7, <1>9, <2>4 DEF NoGaps
    <3> QED BY <1>8, <1>9, <2>1, <2>4, <3>1
  <2> QED BY <2>2, <2>3, <2>4
<1> QED BY <1>1, <1>6, <1>9 DEF NoGaps

\* At timestep 0 the list of new buffers is 0, 1, 2, ..., with or without the last.
LEMMA NoGapsInit ==
  ASSUME NEW b \in [Bufs -> BOOLEAN], NEW n, NEW o, init(b, n, o), \A i \in Loaded : b[i]
  PROVE  NoGaps(n) /\ NoGaps(o)
<1> DEFINE before(i) == {j \in Bufs : j < i /\ b[j]}
<1>1. n = [i \in Bufs |-> IF b[i] THEN Cardinality(before(i)) ELSE -1] /\ o = NoList
  BY DEF init
<1>2. ASSUME NEW i \in Bufs PROVE Cardinality(before(i)) = i
  <2>1. i \in Nat /\ i <= last /\ num_bufs \in Nat
    BY LastFacts, ParamsAssumption DEF Bufs
  <2>2. ASSUME NEW j \in 0 .. i - 1 PROVE j \in Bufs /\ j \in Loaded
    BY <2>1, LastFacts, ParamsAssumption DEF last, Bufs, Loaded
  <2>3. before(i) = 0 .. i - 1
    BY <2>1, <2>2 DEF Bufs
  <2>4. Cardinality(0 .. i - 1) = i
    <3>1. Cardinality(0 .. i - 1) = IF 0 > i - 1 THEN 0 ELSE (i - 1) - 0 + 1
      BY <2>1, FS_Interval
    <3> QED BY <2>1, <3>1
  <2> QED BY <2>3, <2>4
<1> HIDE DEF before
<1>3. ASSUME NEW i \in Bufs, n[i] > 0 PROVE \E j \in Bufs : n[j] = n[i] - 1
  <2>1. n[i] = i
    BY <1>1, <1>2, <1>3
  <2>2. i - 1 \in Bufs /\ i - 1 \in Loaded
    BY <1>3, <2>1, ParamsAssumption DEF Bufs, Loaded
  <2>3. n[i - 1] = i - 1
    BY <1>1, <1>2, <2>2
  <2> QED BY <2>1, <2>2, <2>3
<1> QED BY <1>1, <1>3 DEF NoGaps, NoList

\* The inductive invariant.
HeadInv == IInv /\ ListInv /\ (kept => NoGaps(nq) /\ NoGaps(oq))

LEMMA HeadInit == WlInit => HeadInv
<1> SUFFICES ASSUME WlInit PROVE HeadInv
  OBVIOUS
<1>1. IInv /\ ListInv
  BY InitInv, ListInit DEF WlInit
<1>2. kept => \A i \in Loaded : B[i]
  BY <1>1 DEF IInv, LoadedBacklogged
<1>3. init(B, nq, oq) /\ B \in [Bufs -> BOOLEAN]
  BY <1>1 DEF WlInit, Init, ListInv
<1> QED BY <1>1, <1>2, <1>3, NoGapsInit DEF HeadInv

LEMMA HeadNext == HeadInv /\ [WlNext]_wlVars => HeadInv'
<1> SUFFICES ASSUME HeadInv, [WlNext]_wlVars PROVE HeadInv'
  OBVIOUS
<1>1. [Next]_fqVars
  BY DEF WlNext, wlVars, fqVars
<1>2. IInv' /\ ListInv'
  BY <1>1, NextInv, ListNext DEF HeadInv
<1>3. CASE WlNext /\ kept'
  <2>1. kept /\ trs(nq, oq, B, B', nq', oq')
    BY <1>3 DEF WlNext, Next, timestep, count
  <2>2. \A i \in Loaded : B[i] /\ B'[i]
    BY <1>2, <1>3, <2>1 DEF HeadInv, IInv, LoadedBacklogged
  <2>3. NoGaps(nq') /\ NoGaps(oq')
    BY <1>2, <2>1, <2>2, NoGapsStep DEF HeadInv, ListInv
  <2> QED BY <1>2, <2>3 DEF HeadInv, NoGaps
<1>4. CASE UNCHANGED wlVars
  BY <1>2, <1>4 DEF HeadInv, NoGaps, wlVars
<1>5. CASE ~kept'
  BY <1>2, <1>5 DEF HeadInv
<1> QED BY <1>3, <1>4, <1>5

\* Under base_wl, a list of FqChecker::trs that is not empty has a head and so some
\* buffer sends: the loop that removes a buffer moves up all the others if the buffer
\* is the last one, and the others do not run empty.
THEOREM ANonemptyListSends == WlSpec => []ListHasHead
<1>1. HeadInv => ListHasHead
  <2> SUFFICES ASSUME HeadInv, kept, NEW i \in Bufs, nq[i] >= 0 \/ oq[i] >= 0
               PROVE  \E j \in Bufs : O[j] = 1
    BY DEF ListHasHead
  <2>1. heads(nq) # {} \/ heads(oq) # {}
    BY NoGapsHead DEF HeadInv, ListInv
  <2>2. PICK j \in Bufs : j \in IF heads(nq) # {} THEN heads(nq) ELSE heads(oq)
    BY <2>1 DEF heads
  <2>3. O = out(nq, oq)
    BY DEF HeadInv, ListInv
  <2> QED BY <2>2, <2>3 DEF out
<1> QED BY <1>1, HeadInit, HeadNext, PTL DEF WlSpec

=============================================================================
