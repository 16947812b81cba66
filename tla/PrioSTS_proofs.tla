--------------------------- MODULE PrioSTS_proofs ---------------------------
(***************************************************************************)
(* The strict-priority CP, for every number of buffers and every capacity: *)
(* its transition relation is redundant, its first k buffers are isolated  *)
(* from the others, and a buffer is blocked only as long as the packets    *)
(* ahead of it last.                                                       *)
(***************************************************************************)
EXTENDS PrioIsolation, STSChecker_proofs

\* The outputs are within the bounds of the array O.
LEMMA OutType ==
  ASSUME NEW b
  PROVE  out(b) \in [Bufs -> 0 .. 1] /\ out(b) \in [Bufs -> 0 .. md]
BY ParamsAssumption DEF out

\* A timestep of the buffers with PrioSTS::out, from any backlog, leaves the
\* arrays in their ranges and a packet in each buffer that had to wait.
LEMMA TimestepInv ==
  ASSUME NEW pc \in [Bufs -> 0 .. c], NEW i, NEW e, NEW d, NEW b, NEW o, NEW pcp,
         arrivals(pc, i, e, d, b), o = out(b), departures(pc, e, o, pcp)
  PROVE  /\ i \in [Bufs -> 0 .. MAX_I] /\ e \in [Bufs -> 0 .. me]
         /\ d \in [Bufs -> 0 .. me] /\ b \in [Bufs -> BOOLEAN]
         /\ o \in [Bufs -> 0 .. md] /\ pcp \in [Bufs -> 0 .. c]
         /\ \A j, l \in Bufs : l > j /\ b[j] /\ b[l] => pcp[l] > 0
<1>1. /\ i \in [Bufs -> 0 .. MAX_I] /\ e \in [Bufs -> 0 .. me]
      /\ d \in [Bufs -> 0 .. me] /\ b \in [Bufs -> BOOLEAN]
  BY ArrivalsType
<1>2. o \in [Bufs -> 0 .. md]
  BY OutType
<1>3. pcp \in [Bufs -> 0 .. c] /\ \A n \in Bufs : pcp[n] = pc[n] + e[n] - o[n]
  BY <1>1, DeparturesType
<1>4. ASSUME NEW j \in Bufs, NEW l \in Bufs, l > j, b[j], b[l]
      PROVE  pcp[l] > 0
  <2>1. o[l] = 0
    BY <1>4 DEF out
  <2>2. pc[l] + e[l] > 0
    BY <1>4 DEF arrivals, backlogged
  <2> QED BY <2>1, <2>2, <1>1, <1>3
<1> QED BY <1>1, <1>2, <1>3, <1>4

\* The buffers and PrioSTS::out alone keep a packet in every waiting buffer.
LEMMA OutSpecInv == OutSpec => []PrioInv
<1>1. Init => PrioInv
  BY TimestepInv, EmptyType DEF Init, PrioInv, bounds, KeepsPacket
<1>2. PrioInv /\ [OutNext]_bufVars => PrioInv'
  <2> SUFFICES ASSUME PrioInv, OutNext PROVE PrioInv'
    BY DEF PrioInv, bounds, KeepsPacket, bufVars
  <2>1. C \in [Bufs -> 0 .. c]
    BY DEF PrioInv, bounds
  <2> QED BY <2>1, TimestepInv DEF OutNext, PrioInv, bounds, KeepsPacket
<1> QED BY <1>1, <1>2, PTL DEF OutSpec

\* The constraints of PrioSTS::trs follow from the others in every timestep.
THEOREM TrsExcludesNothing == OutSpec => TrsRedundant
<1>1. PrioInv /\ [OutNext]_bufVars => [Next]_bufVars
  <2> SUFFICES ASSUME PrioInv, OutNext PROVE trs(B, B')
    BY DEF Next
  <2>1. ASSUME NEW i \in Bufs, NEW l \in Bufs, l > i, B[i], B[l]
        PROVE  B'[l]
    <3>1. C[l] > 0 /\ C[l] \in 0 .. c
      BY <2>1 DEF PrioInv, KeepsPacket, bounds
    <3>2. E'[l] \in 0 .. me /\ B'[l] = (C[l] + E'[l] > 0)
      BY DEF OutNext, arrivals, backlogged
    <3>3. C[l] + E'[l] > 0
      BY <3>1, <3>2, ParamsAssumption
    <3> QED BY <3>2, <3>3, Zenon
  <2> QED BY <2>1, Zenon DEF trs
<1> QED BY <1>1, OutSpecInv, PTL DEF OutSpec, TrsRedundant, Spec

\* What is said of the next timestep: it is possible whatever is offered, up to me
\* packets per buffer.
Accepts ==
  \A inp \in [Bufs -> 0 .. me] :
    \E e, d, b, o, pcp :
      /\ arrivals(C, inp, e, d, b)
      /\ trs(B, b)
      /\ o = out(b)
      /\ departures(C, e, o, pcp)

\* No traffic is lost to the priorities: in every reachable state the constraints of
\* the next timestep, PrioSTS::trs among them, have a solution for every such input.
THEOREM NothingExcluded == Spec => []Accepts
<1>1. PrioInv => Accepts
  <2> SUFFICES ASSUME PrioInv, NEW inp \in [Bufs -> 0 .. me]
               PROVE  \E e, d, b, o, pcp :
                        /\ arrivals(C, inp, e, d, b) /\ trs(B, b) /\ o = out(b)
                        /\ departures(C, e, o, pcp)
    BY DEF Accepts
  <2>1. C \in [Bufs -> 0 .. c] /\ B \in [Bufs -> BOOLEAN]
    BY DEF PrioInv, bounds
  <2>2. PICK e, d, b : arrivals(C, inp, e, d, b)
    BY <2>1, ArrivalsPossible
  <2>3. ASSUME NEW i \in Bufs, NEW l \in Bufs, l > i, B[i], B[l]
        PROVE  b[l]
    <3>1. C[l] > 0 /\ C[l] \in 0 .. c
      BY <2>3 DEF PrioInv, KeepsPacket, bounds
    <3>2. e[l] \in 0 .. me /\ b[l] = (C[l] + e[l] > 0)
      BY <2>2 DEF arrivals, backlogged
    <3>3. C[l] + e[l] > 0
      BY <3>1, <3>2, ParamsAssumption
    <3> QED BY <3>2, <3>3, Zenon
  <2>4. trs(B, b)
    BY <2>3, Zenon DEF trs
  <2>5. /\ out(b) \in [Bufs -> 0 .. 1]
        /\ \A n \in Bufs : out(b)[n] = 1 => b[n]
    BY DEF out
  <2>6. \E pcp : departures(C, e, out(b), pcp)
    BY <2>1, <2>2, <2>5, DeparturesPossible
  <2> QED BY <2>2, <2>4, <2>6
<1>2. Spec => OutSpec
  <2>1. [Next]_bufVars => [OutNext]_bufVars
    BY DEF Next
  <2> QED BY <2>1, PTL DEF Spec, OutSpec
<1> QED BY <1>1, <1>2, OutSpecInv, PTL

\* PrioSTS implements the CP without a scheduler, so that what TrivialSts
\* promises about buffers it keeps.
THEOREM RefinesTrivialSts == Spec => ImplementsBase
<1>1. Base!Bufs = Bufs /\ Base!Empty = Empty
  BY DEF Bufs, Base!Bufs, Empty, Base!Empty
<1>2. ASSUME NEW pc, NEW i, NEW e, NEW d, NEW b, arrivals(pc, i, e, d, b)
      PROVE  Base!arrivals(pc, i, e, d, b)
  BY <1>1, <1>2 DEF arrivals, Base!arrivals, enqs, Base!enqs, drops, Base!drops,
     backlogged, Base!backlogged, enq_deq_sum, Base!enq_deq_sum
<1>3. ASSUME NEW pc, NEW e, NEW o, NEW pcp, departures(pc, e, o, pcp)
      PROVE  Base!departures(pc, e, o, pcp)
  BY <1>1, <1>3 DEF departures, Base!departures, remaining, Base!remaining
<1>4. Init => Base!Init
  BY <1>1, <1>2, <1>3, OutType DEF Init, Base!Init, Base!out
<1>5. [Next]_bufVars => [Base!Next]_(Base!bufVars)
  BY <1>1, <1>2, <1>3, OutType
     DEF Next, OutNext, Base!Next, Base!out, bufVars, Base!bufVars
<1> QED BY <1>4, <1>5, PTL DEF Spec, ImplementsBase, Base!Spec

-----------------------------------------------------------------------------
(***************************************************************************)
(* Isolation: by induction over time, the two copies agree on the first k  *)
(* buffers.  What such a buffer takes is determined by what it is offered  *)
(* and what it holds (TakesWhatFits), and whether it sends by the backlog  *)
(* of the buffers up to it.                                                *)
(***************************************************************************)

\* One timestep of the two copies preserves the agreement.
LEMMA SameTimestep ==
  ASSUME NEW pc \in [Bufs -> 0 .. c], NEW i, NEW e, NEW d, NEW b, NEW o, NEW pcp,
         NEW pc2 \in [Bufs -> 0 .. c], NEW i2, NEW e2, NEW d2, NEW b2, NEW o2,
         NEW pcp2,
         arrivals(pc, i, e, d, b), o = out(b), departures(pc, e, o, pcp),
         arrivals(pc2, i2, e2, d2, b2), o2 = out(b2), departures(pc2, e2, o2, pcp2),
         \A n \in High : i[n] = i2[n] /\ pc[n] = pc2[n]
  PROVE  \A n \in High : o[n] = o2[n] /\ d[n] = d2[n] /\ pcp[n] = pcp2[n]
<1>1. High \subseteq Bufs
  BY kAssumption, ParamsAssumption DEF High, Bufs
<1>2. \A n \in High : e[n] = e2[n] /\ d[n] = d2[n]
  <2> SUFFICES ASSUME NEW n \in High PROVE e[n] = e2[n] /\ d[n] = d2[n]
    OBVIOUS
  <2>1. e[n] = Least(i[n], c - pc[n]) /\ d[n] = i[n] - e[n]
    BY <1>1, TakesWhatFits
  <2>2. e2[n] = Least(i2[n], c - pc2[n]) /\ d2[n] = i2[n] - e2[n]
    BY <1>1, TakesWhatFits
  <2> QED BY <2>1, <2>2
<1>3. \A n \in High : b[n] = b2[n]
  BY <1>1, <1>2 DEF arrivals, backlogged
<1>4. \A n \in High : o[n] = o2[n]
  <2> SUFFICES ASSUME NEW n \in High PROVE o[n] = o2[n]
    OBVIOUS
  <2>1. \A j \in Bufs : j < n => j \in High
    BY kAssumption, ParamsAssumption DEF High, Bufs
  <2>2. (\A j \in Bufs : j < n => ~b[j]) <=> (\A j \in Bufs : j < n => ~b2[j])
    BY <2>1, <1>3
  <2> QED BY <1>1, <1>3, <2>2 DEF out
<1>5. e \in [Bufs -> 0 .. me] /\ e2 \in [Bufs -> 0 .. me]
  BY ArrivalsType
<1>6. \A n \in Bufs : /\ pcp[n] = pc[n] + e[n] - o[n]
                      /\ pcp2[n] = pc2[n] + e2[n] - o2[n]
  BY <1>5, DeparturesType
<1> QED BY <1>1, <1>2, <1>4, <1>6

\* The second copy obeys the same constraints as the first.
LEMMA OtherArrivals ==
  ASSUME NEW pc, NEW i, NEW e, NEW d, NEW b, Other!arrivals(pc, i, e, d, b)
  PROVE  arrivals(pc, i, e, d, b)
BY DEF arrivals, Other!arrivals, enqs, Other!enqs, drops, Other!drops, backlogged,
   Other!backlogged, enq_deq_sum, Other!enq_deq_sum, Bufs, Other!Bufs

\* So do its departures,
LEMMA OtherDepartures ==
  ASSUME NEW pc, NEW e, NEW o, NEW pcp, Other!departures(pc, e, o, pcp)
  PROVE  departures(pc, e, o, pcp)
BY DEF departures, Other!departures, remaining, Other!remaining, Bufs, Other!Bufs

\* its output
LEMMA OtherOut ==
  ASSUME NEW b PROVE Other!out(b) = out(b)
BY DEF out, Other!out, Bufs, Other!Bufs

\* and its backlog before the first timestep.
LEMMA OtherEmpty == Other!Empty = Empty
BY DEF Empty, Other!Empty, Bufs, Other!Bufs

\* What makes Isolation inductive: both copies hold what a buffer can hold.
IsoInv ==
  /\ C \in [Bufs -> 0 .. c]
  /\ C2 \in [Bufs -> 0 .. c]
  /\ Isolation

\* The first k buffers of PrioSTS send, drop and hold the same packets whatever
\* the other buffers receive.
THEOREM HighIsolated == IsoSpec => []Isolation
<1>1. IsoInit => IsoInv
  <2> SUFFICES ASSUME IsoInit PROVE IsoInv
    OBVIOUS
  <2>1. /\ arrivals(Empty, I, E, D, B) /\ O = out(B) /\ departures(Empty, E, O, C)
        /\ arrivals(Empty, I2, E2, D2, B2) /\ O2 = out(B2)
        /\ departures(Empty, E2, O2, C2)
    BY OtherArrivals, OtherDepartures, OtherOut, OtherEmpty
       DEF IsoInit, BlockInit, Init, Other!Init
  <2>2. C \in [Bufs -> 0 .. c] /\ C2 \in [Bufs -> 0 .. c]
    BY <2>1, TimestepInv, EmptyType
  <2>3. Isolation
    BY <2>1, SameTimestep, EmptyType DEF IsoInit, SameInput, Isolation
  <2> QED BY <2>2, <2>3 DEF IsoInv
<1>2. IsoInv /\ [IsoNext]_isoVars => IsoInv'
  <2> SUFFICES ASSUME IsoInv, IsoNext PROVE IsoInv'
    BY DEF IsoInv, Isolation, isoVars
  <2>1. /\ arrivals(C, I', E', D', B') /\ O' = out(B') /\ departures(C, E', O', C')
        /\ arrivals(C2, I2', E2', D2', B2') /\ O2' = out(B2')
        /\ departures(C2, E2', O2', C2')
    BY OtherArrivals, OtherDepartures, OtherOut
       DEF IsoNext, BlockNext, OutNext, Other!Next, Other!OutNext
  <2>2. C' \in [Bufs -> 0 .. c] /\ C2' \in [Bufs -> 0 .. c]
    BY <2>1, TimestepInv DEF IsoInv
  <2>3. Isolation'
    BY <2>1, SameTimestep DEF IsoInv, IsoNext, SameInput, Isolation
  <2> QED BY <2>2, <2>3 DEF IsoInv
<1>3. IsoInv => Isolation
  BY DEF IsoInv
<1> QED BY <1>1, <1>2, <1>3, PTL DEF IsoSpec

-----------------------------------------------------------------------------
(***************************************************************************)
(* Blocking: while nothing is enqueued before buffer i and it is blocked,  *)
(* one packet leaves the buffers before it in every timestep.  The packets *)
(* in them are what the proof counts.                                      *)
(***************************************************************************)

\* The packets in the first n buffers, x being the contents.
Before(x) ==
  LET f[n \in 0 .. num_bufs] == IF n = 0 THEN 0 ELSE f[n - 1] + x[n - 1]
  IN  f

\* The sum that Before defines exists, one buffer after the other.
LEMMA BeforeType ==
  ASSUME NEW x \in [Bufs -> 0 .. c]
  PROVE  /\ Before(x) \in [0 .. num_bufs -> Nat]
         /\ Before(x)[0] = 0
         /\ \A n \in Bufs : Before(x)[n + 1] = Before(x)[n] + x[n]
<1> DEFINE f[n \in 0 .. num_bufs] == IF n = 0 THEN 0 ELSE f[n - 1] + x[n - 1]
           G == [n \in 1 .. num_bufs |-> [a \in Nat |-> a + x[n - 1]]]
<1>1. num_bufs \in Nat /\ c \in Nat
  BY ParamsAssumption
<1>2. \A n \in 1 .. num_bufs : n - 1 \in Bufs /\ x[n - 1] \in Nat /\ n - 1 \in 0 .. num_bufs
  BY <1>1 DEF Bufs
<1>3. G \in Loops(num_bufs, Nat)
  <2>1. \A n \in 1 .. num_bufs : \A a \in Nat : a + x[n - 1] \in Nat
    BY <1>2
  <2> QED BY <2>1 DEF Loops
<1>4. PICK g \in [0 .. num_bufs -> Nat] : Computes(g, num_bufs, 0, G)
  <2> HIDE DEF G
  <2> QED BY <1>1, <1>3, Recursion
<1>5. g[0] = 0 /\ \A n \in 1 .. num_bufs : g[n] = g[n - 1] + x[n - 1]
  BY <1>2, <1>4 DEF Computes
<1>6. g = [n \in 0 .. num_bufs |-> IF n = 0 THEN 0 ELSE g[n - 1] + x[n - 1]]
  <2> HIDE DEF f, G
  <2>1. \A n \in 0 .. num_bufs : n # 0 => n \in 1 .. num_bufs
    BY <1>1
  <2> QED BY <1>5, <2>1
<1>7. f = [n \in 0 .. num_bufs |-> IF n = 0 THEN 0 ELSE f[n - 1] + x[n - 1]]
  BY <1>6
<1>8. Before(x) = f
  BY DEF Before
<1> HIDE DEF f
<1>9. f[0] = 0 /\ \A n \in 1 .. num_bufs : f[n] = f[n - 1] + x[n - 1]
  <2>1. 0 \in 0 .. num_bufs /\ \A n \in 1 .. num_bufs : n \in 0 .. num_bufs /\ n # 0
    BY <1>1
  <2> QED BY <1>7, <2>1
<1> DEFINE T == {n \in 0 .. num_bufs : f[n] \in Nat}
<1>10. ASSUME NEW n \in 0 .. num_bufs - 1, n \in T PROVE n + 1 \in T
  <2>1. n + 1 \in 1 .. num_bufs /\ n + 1 - 1 = n /\ n + 1 \in 0 .. num_bufs
    BY <1>1
  <2>2. f[n + 1] = f[n] + x[n]
    BY <1>9, <2>1
  <2>3. x[n] \in Nat
    BY <1>2, <2>1
  <2> QED BY <1>10, <2>1, <2>2, <2>3
<1>11. \A n \in 0 .. num_bufs : n \in T
  <2>1. 0 \in T
    BY <1>1, <1>9
  <2> HIDE DEF T
  <2> QED BY <1>1, <1>10, <2>1, UpTo
<1>12. f \in [0 .. num_bufs -> Nat]
  BY <1>7, <1>11
<1>13. ASSUME NEW n \in Bufs PROVE f[n + 1] = f[n] + x[n]
  <2>1. n \in Nat /\ n + 1 \in 1 .. num_bufs /\ n + 1 - 1 = n
    BY <1>1 DEF Bufs
  <2> QED BY <1>9, <2>1
<1> QED BY <1>8, <1>9, <1>12, <1>13

\* Buffer 0 sends whenever it is backlogged, so that the first n buffers are never
\* all full at the end of a timestep.
LEMMA BeforeBound ==
  ASSUME NEW x \in [Bufs -> 0 .. c], x[0] <= c - 1, NEW n \in 1 .. num_bufs
  PROVE  Before(x)[n] <= n * c - 1
<1> DEFINE T == {j \in 0 .. num_bufs : j > 0 => Before(x)[j] <= j * c - 1}
<1>1. num_bufs \in Nat \ {0} /\ c \in Nat \ {0}
  BY ParamsAssumption
<1>2. 0 \in T
  BY <1>1
<1>3. ASSUME NEW j \in 0 .. num_bufs - 1, j \in T PROVE j + 1 \in T
  <2>1. j \in Bufs /\ j + 1 \in 0 .. num_bufs
    BY <1>1 DEF Bufs
  <2>2. /\ Before(x)[j + 1] = Before(x)[j] + x[j]
        /\ Before(x)[j] \in Nat /\ x[j] \in 0 .. c /\ Before(x)[0] = 0
    BY <2>1, BeforeType, <1>1
  <2>3. CASE j = 0
    <3>1. Before(x)[j + 1] = x[0]
      BY <2>2, <2>3
    <3>2. Before(x)[j + 1] <= (j + 1) * c - 1
      BY <3>1, <2>3, <1>1
    <3> QED BY <3>2, <2>1
  <2>4. CASE j # 0
    <3>1. Before(x)[j] <= j * c - 1
      BY <1>3, <2>4
    <3>2. (j + 1) * c = j * c + c
      BY <1>1
    <3>3. j * c \in Nat
      BY <1>1
    <3>4. Before(x)[j + 1] <= (j + 1) * c - 1
      BY <2>2, <3>1, <3>2, <3>3, <1>1
    <3> QED BY <3>4, <2>1
  <2> QED BY <2>3, <2>4
<1>4. \A j \in 0 .. num_bufs : j \in T
  <2> HIDE DEF T
  <2> QED BY <1>1, <1>2, <1>3, UpTo
<1> QED BY <1>1, <1>4

\* When one packet leaves one of the first n buffers and nothing else changes in
\* them, they hold one packet less.
LEMMA OneLeaves ==
  ASSUME NEW x \in [Bufs -> 0 .. c], NEW y \in [Bufs -> 0 .. c],
         NEW n \in Bufs, NEW m \in Bufs, m < n, y[m] = x[m] - 1,
         \A j \in Bufs : j < n /\ j # m => y[j] = x[j]
  PROVE  Before(y)[n] = Before(x)[n] - 1
<1> DEFINE T == {j \in 0 .. n : Before(y)[j] = Before(x)[j] - (IF m < j THEN 1 ELSE 0)}
<1>1. num_bufs \in Nat \ {0} /\ c \in Nat \ {0} /\ n \in Nat /\ m \in Nat /\ n < num_bufs
  BY ParamsAssumption DEF Bufs
<1>2. 0 \in T
  <2>1. Before(x)[0] = 0 /\ Before(y)[0] = 0
    BY BeforeType
  <2> QED BY <1>1, <2>1
<1>3. ASSUME NEW j \in 0 .. n - 1, j \in T PROVE j + 1 \in T
  <2>1. j \in Bufs /\ j + 1 \in 0 .. n /\ j < n /\ j \in 0 .. num_bufs
    BY <1>1 DEF Bufs
  <2>2. /\ Before(x)[j + 1] = Before(x)[j] + x[j] /\ Before(x)[j] \in Nat /\ x[j] \in Nat
        /\ Before(y)[j + 1] = Before(y)[j] + y[j] /\ Before(y)[j] \in Nat /\ y[j] \in Nat
    <3>1. x[j] \in Nat /\ y[j] \in Nat
      BY <2>1, <1>1
    <3>2. Before(x)[j + 1] = Before(x)[j] + x[j] /\ Before(x)[j] \in Nat
      BY <2>1, BeforeType
    <3>3. Before(y)[j + 1] = Before(y)[j] + y[j] /\ Before(y)[j] \in Nat
      BY <2>1, BeforeType
    <3> QED BY <3>1, <3>2, <3>3
  <2>3. Before(y)[j] = Before(x)[j] - (IF m < j THEN 1 ELSE 0)
    BY <1>3
  <2>4. CASE j = m
    BY <2>1, <2>2, <2>3, <2>4
  <2>5. CASE j # m
    <3>1. y[j] = x[j]
      BY <2>1, <2>5
    <3>2. m < j + 1 <=> m < j
      BY <1>1, <2>5
    <3> QED BY <2>1, <2>2, <2>3, <3>1, <3>2
  <2> QED BY <2>4, <2>5
<1>4. \A j \in 0 .. n : j \in T
  <2> HIDE DEF T
  <2> QED BY <1>1, <1>2, <1>3, UpTo
<1>5. n \in T
  BY <1>1, <1>4
<1> QED BY <1>1, <1>5

\* A blocked buffer has a backlogged one before it, the first of which sends.
LEMMA BlockedBehind ==
  ASSUME NEW b \in [Bufs -> BOOLEAN], NEW n \in Bufs, blocked(n, b, out(b))
  PROVE  \E m \in Bufs : m < n /\ out(b)[m] = 1 /\ \A j \in Bufs : j # m => out(b)[j] = 0
<1> DEFINE R == {j \in Bufs : b[j]}
<1>1. b[n] /\ \E j \in Bufs : j < n /\ b[j]
  BY DEF blocked, out
<1>2. Bufs \subseteq Nat
  BY ParamsAssumption DEF Bufs
<1>3. PICK m \in R : \A j \in R : m <= j
  <2>1. R \in SUBSET Nat /\ R # {}
    BY <1>1, <1>2
  <2> HIDE DEF R
  <2> QED BY <2>1, NatMin
<1>4. \A j \in Bufs : b[j] => m <= j
  BY <1>3
<1>5. m \in Bufs /\ b[m] /\ m < n
  BY <1>1, <1>2, <1>3, <1>4
<1>6. \A j \in Bufs : j < m => ~b[j]
  BY <1>2, <1>4, <1>5
<1>7. \A j \in Bufs : j # m => ~(b[j] /\ \A l \in Bufs : l < j => ~b[l])
  BY <1>2, <1>4, <1>5
<1> QED BY <1>5, <1>6, <1>7 DEF out

\* What makes DrainBound inductive: each timestep that buffer i has been blocked for
\* took a packet from the buffers before it, which were not all full.
BlockInv ==
  /\ C \in [Bufs -> 0 .. c] /\ C[0] <= c - 1
  /\ quiet \in [Bufs -> Nat]
  /\ \A i \in Bufs : quiet[i] > 0 => i > 0 /\ quiet[i] + Before(C)[i] <= i * c - 1

\* One timestep of the buffers, pc and q being what was before it.
LEMMA DrainStep ==
  ASSUME NEW pc \in [Bufs -> 0 .. c], pc[0] <= c - 1, NEW q \in [Bufs -> Nat],
         \A j \in Bufs : q[j] > 0 => j > 0 /\ q[j] + Before(pc)[j] <= j * c - 1,
         NEW i, NEW e, NEW d, NEW b, NEW pcp,
         arrivals(pc, i, e, d, b), departures(pc, e, out(b), pcp)
  PROVE  /\ pcp \in [Bufs -> 0 .. c] /\ pcp[0] <= c - 1
         /\ quietAfter(q, e, b, out(b)) \in [Bufs -> Nat]
         /\ \A n \in Bufs : quietAfter(q, e, b, out(b))[n] > 0 =>
              n > 0 /\ quietAfter(q, e, b, out(b))[n] + Before(pcp)[n] <= n * c - 1
<1>1. num_bufs \in Nat \ {0} /\ c \in Nat \ {0} /\ 0 \in Bufs
  BY ParamsAssumption DEF Bufs
<1>2. /\ e \in [Bufs -> 0 .. me] /\ b \in [Bufs -> BOOLEAN]
      /\ pcp \in [Bufs -> 0 .. c] /\ \A n \in Bufs : pcp[n] = pc[n] + e[n] - out(b)[n]
  BY TimestepInv, DeparturesType
<1>3. pcp[0] <= c - 1
  <2>1. (b[0] <=> pc[0] + e[0] > 0) /\ e[0] + pc[0] <= c
    BY <1>1 DEF arrivals, backlogged, enqs
  <2>2. out(b)[0] = IF pc[0] + e[0] > 0 THEN 1 ELSE 0
    BY <1>1, <2>1 DEF out, Bufs
  <2>3. pcp[0] = pc[0] + e[0] - out(b)[0] /\ pc[0] \in Nat /\ e[0] \in Nat
    BY <1>1, <1>2, ParamsAssumption
  <2> HIDE DEF out
  <2> QED BY <1>1, <2>1, <2>2, <2>3
<1> DEFINE r == quietAfter(q, e, b, out(b))
           busy(n) == blocked(n, b, out(b)) /\ \A j \in Bufs : j < n => e[j] = 0
<1>4. MaxQuiet \in Nat
  BY <1>1 DEF MaxQuiet
<1>5. \A n \in Bufs : r[n] = IF busy(n) THEN Least(q[n] + 1, MaxQuiet) ELSE 0
  BY DEF quietAfter
<1>6. r = [n \in Bufs |-> r[n]]
  BY DEF quietAfter
<1> HIDE DEF r, busy
<1>7. \A n \in Bufs : r[n] \in Nat /\ r[n] <= q[n] + 1 /\ (r[n] > 0 => busy(n))
  BY <1>4, <1>5 DEF Least
<1>8. r \in [Bufs -> Nat]
  BY <1>6, <1>7
<1>9. ASSUME NEW n \in Bufs, r[n] > 0
      PROVE  n > 0 /\ r[n] + Before(pcp)[n] <= n * c - 1
  <2>1. busy(n)
    BY <1>7, <1>9
  <2>2. PICK m \in Bufs : m < n /\ out(b)[m] = 1 /\ \A j \in Bufs : j # m => out(b)[j] = 0
    BY <1>2, <2>1, BlockedBehind DEF busy
  <2>3. n \in 1 .. num_bufs /\ n > 0 /\ n \in 0 .. num_bufs
    BY <1>1, <2>2 DEF Bufs
  <2>4. \A j \in Bufs : j < n => e[j] = 0
    BY <2>1 DEF busy
  <2>5. pcp[m] = pc[m] - 1
    <3>1. pcp[m] = pc[m] + e[m] - out(b)[m] /\ pc[m] \in Nat /\ e[m] = 0 /\ out(b)[m] = 1
      BY <1>1, <1>2, <2>2, <2>4
    <3> QED BY <3>1
  <2>6. ASSUME NEW j \in Bufs, j < n, j # m PROVE pcp[j] = pc[j]
    <3>1. pcp[j] = pc[j] + e[j] - out(b)[j] /\ pc[j] \in Nat /\ e[j] = 0 /\ out(b)[j] = 0
      BY <1>1, <1>2, <2>2, <2>4, <2>6
    <3> QED BY <3>1
  <2>7. Before(pcp)[n] = Before(pc)[n] - 1
    BY <1>2, <2>2, <2>5, <2>6, OneLeaves
  <2>8. Before(pc)[n] \in Nat /\ r[n] \in Nat /\ r[n] <= q[n] + 1 /\ q[n] \in Nat
    BY <1>7, <2>3, BeforeType
  <2>9. n * c \in Nat
    BY <1>1, <2>3
  <2>10. CASE q[n] > 0
    <3>1. q[n] + Before(pc)[n] <= n * c - 1
      BY <2>10
    <3> QED BY <2>3, <2>7, <2>8, <2>9, <3>1
  <2>11. CASE q[n] = 0
    <3>1. Before(pc)[n] <= n * c - 1
      BY <2>3, BeforeBound
    <3> QED BY <2>3, <2>7, <2>8, <2>9, <2>11, <3>1
  <2> QED BY <2>8, <2>10, <2>11
<1> QED BY <1>2, <1>3, <1>8, <1>9 DEF r

\* Once nothing more arrives before it, a buffer is blocked no longer than the
\* buffers before it take to drain.
THEOREM Drained == IsoSpec => []DrainBound
<1>1. BlockInit => BlockInv
  <2> SUFFICES ASSUME BlockInit PROVE BlockInv
    OBVIOUS
  <2>1. /\ arrivals(Empty, I, E, D, B) /\ departures(Empty, E, out(B), C)
        /\ quiet = quietAfter(Empty, E, B, out(B))
    BY DEF BlockInit, Init
  <2>2. /\ Empty \in [Bufs -> 0 .. c] /\ Empty \in [Bufs -> Nat] /\ Empty[0] <= c - 1
        /\ \A j \in Bufs : ~(Empty[j] > 0)
    BY ParamsAssumption DEF Empty, Bufs
  <2> QED BY <2>1, <2>2, DrainStep DEF BlockInv
<1>2. BlockInv /\ BlockNext => BlockInv'
  BY DrainStep DEF BlockInv, BlockNext, OutNext
<1>3. BlockInv /\ UNCHANGED isoVars => BlockInv'
  BY DEF BlockInv, isoVars
<1>4. BlockInv => DrainBound
  <2> SUFFICES ASSUME BlockInv, NEW i \in Bufs
               PROVE  quiet[i] <= (IF i = 0 THEN 0 ELSE i * c - 1)
    BY DEF DrainBound
  <2>1. i \in Nat /\ i \in 0 .. num_bufs /\ c \in Nat \ {0}
    BY ParamsAssumption DEF Bufs
  <2>2. quiet[i] \in Nat /\ (quiet[i] > 0 => i > 0 /\ quiet[i] + Before(C)[i] <= i * c - 1)
    BY DEF BlockInv
  <2>3. Before(C)[i] \in Nat
    BY <2>1, BeforeType DEF BlockInv
  <2>4. i > 0 => i * c >= 1
    BY <2>1
  <2>5. i * c \in Nat
    BY <2>1
  <2> QED BY <2>1, <2>2, <2>3, <2>4, <2>5
<1> QED BY <1>1, <1>2, <1>3, <1>4, PTL DEF IsoSpec, IsoInit, IsoNext
=============================================================================
