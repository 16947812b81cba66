---------------------------- MODULE Winds_proofs ----------------------------
(***************************************************************************)
(* What the buffers of STSChecker promise under every scheduler, and what  *)
(* can be relied on of the window constraints: until a buffer has sent c   *)
(* packets, the windows account for exactly its packets.  For every        *)
(* capacity, number of buffers and input.  Then, that what is said of      *)
(* packets of one type is true of the sums of several.  At the end the two *)
(* sides of a FIFO queue: packets of several types a window apart keep     *)
(* their order, and what a queue does is allowed until it has sent c.      *)
(***************************************************************************)
EXTENDS TypedWinds, STSChecker_proofs, FiniteSetTheorems, FunctionTheorems,
        SequenceTheorems

\* The arrays stay in their declared ranges in every timestep.
THEOREM TypeCorrect == Spec => []TypeOK
<1>1. Init => TypeOK
  <2> SUFFICES ASSUME Init PROVE TypeOK
    OBVIOUS
  <2>1. I \in [Bufs -> 0 .. MAX_I] /\ E \in [Bufs -> 0 .. me]
        /\ D \in [Bufs -> 0 .. me] /\ B \in [Bufs -> BOOLEAN]
    BY ArrivalsType, EmptyType DEF Init
  <2>2. C \in [Bufs -> 0 .. c]
    BY <2>1, DeparturesType, EmptyType DEF Init
  <2> QED BY <2>1, <2>2 DEF Init, out, TypeOK, bounds
<1>2. TypeOK /\ [Next]_bufVars => TypeOK'
  <2> SUFFICES ASSUME TypeOK, Next PROVE TypeOK'
    BY DEF TypeOK, bounds, bufVars
  <2>0. C \in [Bufs -> 0 .. c]
    BY DEF TypeOK, bounds
  <2>1. I' \in [Bufs -> 0 .. MAX_I] /\ E' \in [Bufs -> 0 .. me]
        /\ D' \in [Bufs -> 0 .. me] /\ B' \in [Bufs -> BOOLEAN]
    BY <2>0, ArrivalsType DEF Next
  <2>2. C' \in [Bufs -> 0 .. c]
    BY <2>0, <2>1, DeparturesType DEF Next
  <2> QED BY <2>1, <2>2 DEF Next, out, TypeOK, bounds
<1> QED BY <1>1, <1>2, PTL DEF Spec

\* Tail drop: in every timestep each buffer takes what fits of what it is
\* offered and drops the rest.
THEOREM BuffersTailDrop == Spec => TailDrop
<1>1. TypeOK /\ [Next]_bufVars => [TailDropStep]_bufVars
  <2> SUFFICES ASSUME TypeOK, Next PROVE TailDropStep
    OBVIOUS
  <2>1. C \in [Bufs -> 0 .. c]
    BY DEF TypeOK, bounds
  <2> QED BY <2>1, TakesWhatFits DEF Next, TailDropStep
<1> QED BY <1>1, TypeCorrect, PTL DEF Spec, TailDrop

-----------------------------------------------------------------------------
\* The arrays of the buffers and the windows stay in their declared ranges.
THEOREM WindType == WindSpec => []WindTypeOK
<1>1. WindInit => WindTypeOK
  <2> SUFFICES ASSUME WindInit PROVE WindTypeOK
    OBVIOUS
  <2>0. Init
    BY DEF WindInit
  <2>1. I \in [Bufs -> 0 .. MAX_I] /\ E \in [Bufs -> 0 .. me]
        /\ D \in [Bufs -> 0 .. me] /\ B \in [Bufs -> BOOLEAN]
    BY <2>0, ArrivalsType, EmptyType DEF Init
  <2>2. O \in [Bufs -> 0 .. md]
    BY <2>0 DEF Init, out
  <2>3. C \in [Bufs -> 0 .. c] /\ \A n \in Bufs : C[n] = 0 + E[n] - O[n]
    BY <2>0, <2>1, DeparturesType, EmptyType DEF Init, Empty
  <2>4. \A n \in Bufs : E[n] <= c
    BY <2>0, <2>1 DEF Init, arrivals, enqs, Empty
  <2>5. wnd_enq \in [Bufs -> 0 .. c] /\ wnd_out \in [Bufs -> 0 .. c]
    BY <2>1, <2>2, <2>3, <2>4, ParamsAssumption DEF WindInit
  <2>6. wnd_enq_nxt \in [Bufs -> 0 .. c]
    BY EmptyType DEF WindInit
  <2>7. sent \in [Bufs -> 0 .. c]
    BY <2>2, ParamsAssumption DEF WindInit, sentAfter, Least, Empty
  <2> QED BY <2>1, <2>2, <2>3, <2>5, <2>6, <2>7 DEF WindTypeOK, bounds
<1>2. WindTypeOK /\ [WindNext]_windVars => WindTypeOK'
  <2> SUFFICES ASSUME WindTypeOK, WindNext PROVE WindTypeOK'
    BY DEF WindTypeOK, bounds, windVars
  <2>0. Next /\ C \in [Bufs -> 0 .. c]
    BY DEF WindNext, WindTypeOK, bounds
  <2>1. I' \in [Bufs -> 0 .. MAX_I] /\ E' \in [Bufs -> 0 .. me]
        /\ D' \in [Bufs -> 0 .. me] /\ B' \in [Bufs -> BOOLEAN]
    BY <2>0, ArrivalsType DEF Next
  <2>2. O' \in [Bufs -> 0 .. md]
    BY <2>0 DEF Next, out
  <2>3. C' \in [Bufs -> 0 .. c]
    BY <2>0, <2>1, DeparturesType DEF Next
  <2>4. sent' \in [Bufs -> 0 .. c]
    BY <2>2, ParamsAssumption DEF WindNext, WindTypeOK, sentAfter, Least
  <2> QED BY <2>1, <2>2, <2>3, <2>4 DEF WindNext, windsAll, WindTypeOK, bounds
<1> QED BY <1>1, <1>2, PTL DEF WindSpec

\* WindInv is inductive.  As long as a buffer has sent fewer than c packets,
\* only a window that is not full is renewed (<5>1), and then nothing is waiting
\* in the next one for renewWindow to lose.
THEOREM WindInductive == WindSpec => []WindInv
<1>1. WindInit => WindInv
  <2> SUFFICES ASSUME WindInit, NEW n \in Bufs, sent[n] < c
               PROVE  /\ equity(n)
                      /\ wnd_enq_nxt[n] > 0 => wnd_enq[n] = c
                      /\ wnd_out[n] <= sent[n]
    BY DEF WindInv
  <2>1. E \in [Bufs -> 0 .. me] /\ O \in [Bufs -> 0 .. md]
    BY ArrivalsType, EmptyType DEF WindInit, Init, out
  <2>2. C[n] = 0 + E[n] - O[n]
    BY <2>1, DeparturesType, EmptyType DEF WindInit, Init, Empty
  <2>3. wnd_enq[n] = E[n] /\ wnd_enq_nxt[n] = 0 /\ wnd_out[n] = O[n]
    BY DEF WindInit, Empty
  <2>4. sent[n] = Least(0 + O[n], c)
    BY DEF WindInit, sentAfter, Empty
  <2> QED BY <2>1, <2>2, <2>3, <2>4, ParamsAssumption DEF equity, Least
<1>2. WindTypeOK /\ WindTypeOK' /\ WindInv /\ [WindNext]_windVars => WindInv'
  <2>1. CASE UNCHANGED windVars
    BY <2>1 DEF WindInv, equity, windVars
  <2>2. ASSUME WindTypeOK, WindTypeOK', WindInv, WindNext,
               NEW n \in Bufs, sent'[n] < c
        PROVE  /\ equity(n)'
               /\ wnd_enq_nxt'[n] > 0 => wnd_enq'[n] = c
               /\ wnd_out'[n] <= sent'[n]
    <3>1. /\ wnd_enq[n] \in 0 .. c /\ wnd_enq_nxt[n] \in 0 .. c
          /\ wnd_out[n] \in 0 .. c
          /\ wnd_enq'[n] \in 0 .. c /\ wnd_enq_nxt'[n] \in 0 .. c
          /\ wnd_out'[n] \in 0 .. c
          /\ E'[n] \in 0 .. me /\ O'[n] \in 0 .. md
          /\ sent[n] \in 0 .. c /\ C[n] \in 0 .. c
      BY <2>2 DEF WindTypeOK, bounds
    <3>2. sent'[n] = sent[n] + O'[n] /\ sent[n] < c
      BY <2>2, <3>1, ParamsAssumption DEF WindNext, sentAfter, Least
    <3>3. /\ C[n] = wnd_enq[n] + wnd_enq_nxt[n] - wnd_out[n]
          /\ wnd_enq_nxt[n] > 0 => wnd_enq[n] = c
          /\ wnd_out[n] <= sent[n]
      BY <2>2, <3>2 DEF WindInv, equity
    <3>4. winds(wnd_enq[n], wnd_enq_nxt[n], wnd_out[n], E'[n], O'[n],
                wnd_enq'[n], wnd_enq_nxt'[n], wnd_out'[n])
      BY <2>2 DEF WindNext, windsAll
    <3>5. C'[n] = C[n] + E'[n] - O'[n]
      BY <2>2, DeparturesType DEF WindNext, Next, WindTypeOK, bounds
    <3>6. sent[n] + O'[n] < c
      BY <2>2, <3>2
    <3>7. PICK se \in 0 .. c, sn \in 0 .. c :
            /\ wnd_enq[n] + E'[n] = se + sn
            /\ wnd_enq[n] <= se
            /\ sn > 0 => se = c
            /\ IF se <= wnd_out[n] + O'[n]
               THEN renewWindow(wnd_enq_nxt[n], sn, se, wnd_out[n] + O'[n],
                                wnd_enq'[n], wnd_enq_nxt'[n], wnd_out'[n])
               ELSE keepWindow(wnd_enq_nxt[n], sn, se, wnd_out[n], wnd_out[n] + O'[n],
                               wnd_enq'[n], wnd_enq_nxt'[n], wnd_out'[n])
      BY <3>4 DEF winds
    <3>split. /\ wnd_enq[n] + E'[n] = se + sn
              /\ wnd_enq[n] <= se
              /\ sn > 0 => se = c
              /\ se \in 0 .. c /\ sn \in 0 .. c
      BY <3>7
    <3>8. /\ C[n] + E'[n] - O'[n] = wnd_enq'[n] + wnd_enq_nxt'[n] - wnd_out'[n]
          /\ wnd_enq_nxt'[n] > 0 => wnd_enq'[n] = c
          /\ wnd_out'[n] <= sent[n] + O'[n]
      <4>1. CASE se <= wnd_out[n] + O'[n]
        <5>1. se < c /\ sn = 0 /\ wnd_enq_nxt[n] = 0
          BY <3>1, <3>3, <3>6, <3>split, <4>1, ParamsAssumption
        <5>2. wnd_enq'[n] = 0 /\ wnd_enq_nxt'[n] = 0
              /\ wnd_out'[n] = wnd_out[n] + O'[n] - se
          BY <3>1, <3>7, <4>1, <5>1, ParamsAssumption DEF renewWindow
        <5> QED BY <3>1, <3>3, <3>split, <5>1, <5>2, ParamsAssumption
      <4>2. CASE ~(se <= wnd_out[n] + O'[n])
        <5>1. /\ wnd_enq_nxt'[n] = wnd_enq_nxt[n] + sn
              /\ wnd_enq'[n] = se
              /\ wnd_out'[n] = wnd_out[n] + O'[n]
          BY <3>7, <4>2 DEF keepWindow
        <5>2. C[n] + E'[n] - O'[n]
                = wnd_enq'[n] + wnd_enq_nxt'[n] - wnd_out'[n]
          <6>0. wnd_enq[n] + E'[n] = se + sn
            BY <3>split
          <6>1. /\ wnd_enq[n] \in Int /\ wnd_enq_nxt[n] \in Int /\ wnd_out[n] \in Int
                /\ E'[n] \in Int /\ O'[n] \in Int /\ se \in Int /\ sn \in Int
            BY <3>1, <3>split, ParamsAssumption
          <6>2. (wnd_enq[n] + wnd_enq_nxt[n] - wnd_out[n]) + E'[n] - O'[n]
                  = se + (wnd_enq_nxt[n] + sn) - (wnd_out[n] + O'[n])
            BY <6>0, <6>1
          <6> QED BY <6>2, <3>3, <5>1
        <5>3. wnd_enq_nxt'[n] > 0 => wnd_enq'[n] = c
          BY <3>1, <3>3, <3>split, <5>1, ParamsAssumption
        <5>4. wnd_out'[n] <= sent[n] + O'[n]
          BY <3>1, <3>3, <5>1, ParamsAssumption
        <5> QED BY <5>2, <5>3, <5>4
      <4> QED BY <4>1, <4>2
    <3> QED BY <3>2, <3>5, <3>8 DEF equity
  <2> QED BY <2>1, <2>2 DEF WindInv
<1> QED BY <1>1, <1>2, WindType, PTL DEF WindSpec

\* STSChecker::winds accounts for every packet of a buffer until the buffer has
\* sent c of them.
THEOREM FirstWindowExact == WindSpec => []EquityInFirstWindow
<1>1. WindInv => EquityInFirstWindow
  BY DEF WindInv, EquityInFirstWindow
<1> QED BY <1>1, WindInductive, PTL

-----------------------------------------------------------------------------
\* The sum of a vector, and how it goes with the other operators on vectors.
LEMMA Sums ==
  ASSUME NEW u \in [Types -> Int], NEW v \in [Types -> Int]
  PROVE  /\ sum(u) \in Int
         /\ sum(plus(u, v)) = sum(u) + sum(v)
         /\ sum(minus(u, v)) = sum(u) - sum(v)
         /\ plus(u, v) \in [Types -> Int] /\ minus(u, v) \in [Types -> Int]
         /\ leq(u, v) => sum(u) <= sum(v)
         /\ leq(u, v) /\ ~leq(v, u) => sum(u) < sum(v)
<1>1. 0 \in Types /\ 1 \in Types /\ 2 \in Types
      /\ \A k \in Types : k = 0 \/ k = 1 \/ k = 2
  BY DEF Types
<1>2. /\ u[0] \in Int /\ u[1] \in Int /\ u[2] \in Int
      /\ v[0] \in Int /\ v[1] \in Int /\ v[2] \in Int
  BY <1>1
<1>3. /\ plus(u, v)[0] = u[0] + v[0] /\ plus(u, v)[1] = u[1] + v[1]
      /\ plus(u, v)[2] = u[2] + v[2]
      /\ minus(u, v)[0] = u[0] - v[0] /\ minus(u, v)[1] = u[1] - v[1]
      /\ minus(u, v)[2] = u[2] - v[2]
  BY <1>1 DEF plus, minus
<1>4. plus(u, v) \in [Types -> Int] /\ minus(u, v) \in [Types -> Int]
  BY DEF plus, minus
<1>5. leq(u, v) => u[0] <= v[0] /\ u[1] <= v[1] /\ u[2] <= v[2]
  BY <1>1 DEF leq
<1>6. v[0] <= u[0] /\ v[1] <= u[1] /\ v[2] <= u[2] => leq(v, u)
  BY <1>1 DEF leq
<1>7. /\ sum(u) = u[0] + u[1] + u[2] /\ sum(v) = v[0] + v[1] + v[2]
      /\ sum(plus(u, v)) = plus(u, v)[0] + plus(u, v)[1] + plus(u, v)[2]
      /\ sum(minus(u, v)) = minus(u, v)[0] + minus(u, v)[1] + minus(u, v)[2]
  BY DEF sum
<1>8. /\ sum(u) \in Int
      /\ sum(plus(u, v)) = sum(u) + sum(v)
      /\ sum(minus(u, v)) = sum(u) - sum(v)
  BY <1>2, <1>3, <1>7
<1>9. leq(u, v) => sum(u) <= sum(v)
  BY <1>2, <1>5, <1>7
<1>10. leq(u, v) /\ ~leq(v, u) => sum(u) < sum(v)
  BY <1>2, <1>5, <1>6, <1>7
<1> QED BY <1>4, <1>8, <1>9, <1>10

\* A vector with elements in a range has a sum that is a natural number.
LEMMA VecSum ==
  ASSUME NEW b \in Nat, NEW v \in vec(b)
  PROVE  v \in [Types -> Int] /\ sum(v) \in 0 .. 3 * b
<1>1. v \in [Types -> 0 .. b] /\ v \in [Types -> Int]
  BY DEF vec
<1>2. v[0] \in 0 .. b /\ v[1] \in 0 .. b /\ v[2] \in 0 .. b
  BY <1>1 DEF Types
<1> QED BY <1>1, <1>2 DEF sum

\* The arrays of the typed buffer in the range of their declaration, and the
\* variables of Winds as their sums.
SumInv ==
  /\ vC \in vec(c) /\ vEnq \in vec(c) /\ vNxt \in vec(c) /\ vOut \in vec(c)
  /\ C = The(sum(vC))
  /\ wnd_enq = The(sum(vEnq)) /\ wnd_enq_nxt = The(sum(vNxt))
  /\ wnd_out = The(sum(vOut))

\* The windows of Winds take the step that the sums of the typed windows take.
LEMMA WindsOfSums ==
  ASSUME NEW e \in vec(mk), NEW o \in vec(mo), NEW se \in splits(vEnq, e),
         SumInv, typedWinds(e, o, se, vEnq', vNxt', vOut'), sum(o) <= md
  PROVE  /\ winds(sum(vEnq), sum(vNxt), sum(vOut), sum(e), sum(o),
                  sum(vEnq'), sum(vNxt'), sum(vOut'))
         /\ sum(vEnq') \in 0 .. c /\ sum(vNxt') \in 0 .. c /\ sum(vOut') \in 0 .. c
<1> DEFINE sn == minus(plus(vEnq, e), se)
           to == plus(vOut, o)
<1>1. /\ se \in vec(c) /\ sn \in vec(c) /\ leq(vEnq, se)
      /\ sum(se) <= c /\ sum(sn) <= c - 1
      /\ sum(sn) > 0 => sum(se) = c
  BY DEF splits
<1>2. /\ sum(to) <= 2 * c
      /\ windows(se, sn, to, vEnq', vNxt', vOut')
      /\ vEnq' \in vec(c) /\ vNxt' \in vec(c) /\ vOut' \in vec(c)
      /\ sum(vNxt') < c
      /\ leq(vOut', vEnq')
  BY DEF typedWinds
<1>3. c \in Nat \ {0} /\ md \in Nat /\ mo \in Nat /\ mk \in Nat
  BY ParamsAssumption, TypedAssumption
<1>4. /\ vEnq \in [Types -> Int] /\ vNxt \in [Types -> Int] /\ vOut \in [Types -> Int]
      /\ e \in [Types -> Int] /\ o \in [Types -> Int] /\ se \in [Types -> Int]
      /\ sn \in [Types -> Int]
      /\ vEnq' \in [Types -> Int] /\ vNxt' \in [Types -> Int] /\ vOut' \in [Types -> Int]
  BY <1>1, <1>2, <1>3, VecSum DEF SumInv
<1>5. /\ sum(vEnq) \in Nat /\ sum(vNxt) \in Nat /\ sum(vOut) \in Nat
      /\ sum(e) \in Nat /\ sum(o) \in Nat /\ sum(se) \in Nat /\ sum(sn) \in Nat
      /\ sum(vEnq') \in Nat /\ sum(vNxt') \in Nat /\ sum(vOut') \in Nat
  BY <1>1, <1>2, <1>3, VecSum DEF SumInv
<1>6. to \in [Types -> Int] /\ sum(to) = sum(vOut) + sum(o)
  BY <1>4, Sums
<1>7. sum(vEnq) + sum(e) = sum(se) + sum(sn)
  <2>1. plus(vEnq, e) \in [Types -> Int] /\ sum(plus(vEnq, e)) = sum(vEnq) + sum(e)
    BY <1>4, Sums
  <2>2. sum(sn) = sum(plus(vEnq, e)) - sum(se)
    BY <2>1, <1>4, Sums
  <2> QED BY <2>1, <2>2, <1>5
<1>8. sum(vEnq) <= sum(se) /\ sum(vOut') <= sum(vEnq')
  BY <1>1, <1>2, <1>4, Sums
<1> HIDE DEF sn, to
<1>9. CASE leq(se, to)
  <2>1. vNxt' = None /\ vEnq' = plus(None, sn) /\ vOut' = minus(to, se)
    BY <1>2, <1>9 DEF windows
  <2>2. None \in [Types -> Int] /\ sum(None) = 0
    BY DEF None, sum, Types
  <2>3. sum(vNxt') = 0 /\ sum(vEnq') = sum(vNxt') + sum(sn)
        /\ sum(vOut') = sum(to) - sum(se)
    BY <2>1, <2>2, <1>4, <1>5, <1>6, Sums
  <2>4. sum(se) <= sum(to)
    BY <1>4, <1>6, <1>9, Sums
  <2>5. renewWindow(sum(vNxt), sum(sn), sum(se), sum(to),
                    sum(vEnq'), sum(vNxt'), sum(vOut'))
    BY <2>3 DEF renewWindow
  <2>6. sum(vEnq') <= c
    BY <2>3, <1>1, <1>3, <1>5
  <2> QED BY <2>4, <2>5, <2>6, <1>1, <1>2, <1>3, <1>5, <1>6, <1>7, <1>8 DEF winds
<1>10. CASE ~leq(se, to)
  <2>1. vNxt' = plus(vNxt, sn) /\ vEnq' = se /\ vOut' = to
    BY <1>2, <1>10 DEF windows
  <2>2. sum(vNxt') = sum(vNxt) + sum(sn)
    BY <2>1, <1>4, Sums
  <2>3. sum(to) < sum(se)
    BY <2>1, <1>2, <1>4, <1>6, <1>10, Sums
  <2>4. keepWindow(sum(vNxt), sum(sn), sum(se), sum(vOut), sum(to),
                   sum(vEnq'), sum(vNxt'), sum(vOut'))
    BY <2>1, <2>2 DEF keepWindow
  <2>5. ~(sum(se) <= sum(to))
    BY <2>3, <1>5, <1>6
  <2> QED BY <2>1, <2>4, <2>5, <1>1, <1>2, <1>3, <1>5, <1>6, <1>7, <1>8 DEF winds
<1> QED BY <1>9, <1>10

\* What remains of each type, and of their sum.
LEMMA RemainingOfSums ==
  ASSUME NEW pc \in vec(c), NEW e \in vec(mk), NEW o \in vec(mo)
  PROVE  sum(minus(plus(pc, e), o)) = sum(pc) + sum(e) - sum(o)
<1>1. pc \in [Types -> Int] /\ e \in [Types -> Int] /\ o \in [Types -> Int]
  BY ParamsAssumption, TypedAssumption, VecSum
<1>2. plus(pc, e) \in [Types -> Int] /\ sum(plus(pc, e)) = sum(pc) + sum(e)
  BY <1>1, Sums
<1>3. sum(minus(plus(pc, e), o)) = sum(plus(pc, e)) - sum(o)
  BY <1>1, <1>2, Sums
<1>4. sum(pc) \in Int /\ sum(e) \in Int /\ sum(o) \in Int
  BY <1>1, Sums
<1>5. sum(plus(pc, e)) = sum(pc) + sum(e)
  BY <1>2
<1> QED BY <1>3, <1>4, <1>5

\* The one buffer, and the arrays that hold one value.
LEMMA OneBuffer ==
  ASSUME NEW x
  PROVE  /\ \A n \in Bufs : The(x)[n] = x
         /\ \A y : The(x) \in [Bufs -> y] <=> x \in y
<1>1. 0 \in Bufs
  BY TypedAssumption DEF Bufs
<1> QED BY <1>1 DEF The

\* At timestep 0 the sums are those of Winds.
LEMMA SumsInit == TypedInit => SumInv /\ WindInit
<1>0. c \in Nat \ {0} /\ md \in Nat /\ mo \in Nat /\ mk \in Nat /\ me \in Nat
  BY ParamsAssumption, TypedAssumption
<1> SUFFICES ASSUME TypedInit PROVE SumInv /\ WindInit
  OBVIOUS
<1>1. PICK e \in vec(mk), o \in vec(mo) :
        /\ E = The(sum(e)) /\ arrivals(Empty, I, E, D, B)
        /\ O = The(sum(o)) /\ sum(o) <= md
        /\ departures(Empty, E, O, C)
        /\ vC = minus(e, o) /\ vC \in vec(c)
        /\ vEnq = e /\ vNxt = None /\ vOut = o
  BY DEF TypedInit
<1>2. /\ wnd_enq = E /\ wnd_enq_nxt = Empty /\ wnd_out = O
      /\ sent = sentAfter(Empty, O)
  BY DEF TypedInit
<1>3. /\ e \in [Types -> Int] /\ sum(e) \in Nat
      /\ o \in [Types -> Int] /\ sum(o) \in Nat
  BY <1>0, VecSum
<1>4. O \in [Bufs -> 0 .. md]
  BY <1>1, <1>3, <1>0, OneBuffer
<1>5. WindInit
  BY <1>1, <1>2, <1>4 DEF WindInit, Init, out
<1>6. 0 \in Bufs /\ Bufs = {0}
  BY TypedAssumption DEF Bufs
<1>7. sum(e) <= c
  BY <1>1, <1>3, <1>6, OneBuffer, <1>0 DEF arrivals, enqs, Empty
<1>8. /\ \A k \in Types : e[k] \in 0 .. mk /\ o[k] \in 0 .. mo /\ e[k] - o[k] \in 0 .. c
      /\ \A k \in Types : e[k] \in 0 .. sum(e)
  <2>1. \A k \in Types : e[k] \in 0 .. mk /\ o[k] \in 0 .. mo
    BY DEF vec
  <2>2. \A k \in Types : e[k] - o[k] \in 0 .. c
    BY <1>1 DEF vec, minus
  <2>3. \A k \in Types : e[k] \in 0 .. sum(e)
    BY <2>1, <1>0 DEF sum, Types
  <2> QED BY <2>1, <2>2, <2>3
<1>9. e \in vec(c) /\ o \in vec(c)
  <2>1. \A k \in Types : e[k] \in 0 .. c /\ o[k] \in 0 .. c
    BY <1>7, <1>8, <1>3, <1>0
  <2>2. e = [k \in Types |-> e[k]] /\ o = [k \in Types |-> o[k]]
    BY <1>3
  <2> QED BY <2>1, <2>2 DEF vec
<1>10. None \in vec(c) /\ sum(None) = 0
  BY <1>0 DEF None, vec, sum, Types
<1>11. sum(vC) = sum(e) - sum(o)
  BY <1>1, <1>3, Sums
<1>12. C = The(sum(vC))
  <2>1. C = [n \in Bufs |-> 0 + sum(e) - sum(o)]
    BY <1>1, OneBuffer DEF departures, remaining, Empty
  <2> QED BY <2>1, <1>11, <1>3 DEF The
<1>13. wnd_enq_nxt = The(sum(vNxt))
  BY <1>1, <1>2, <1>10 DEF Empty, The
<1> QED BY <1>1, <1>2, <1>5, <1>9, <1>10, <1>12, <1>13 DEF SumInv

\* Every timestep of the typed windows is one of the windows of their sums.  The
\* comparison se <= to of the code is elementwise; that the sums compare the same way
\* rests on its last constraint, wnd_out <= wnd_enq: when a window is kept, no more
\* packets of any type have left than it has.
LEMMA SumsStep == SumInv /\ [TypedNext]_typedVars => SumInv' /\ [WindNext]_windVars
<1>0. c \in Nat \ {0} /\ md \in Nat /\ mo \in Nat /\ mk \in Nat /\ me \in Nat
  BY ParamsAssumption, TypedAssumption
<1>1. CASE UNCHANGED typedVars
  BY <1>1 DEF typedVars, windVars, SumInv
<1>2. ASSUME SumInv, TypedNext PROVE SumInv' /\ WindNext
  <2>0. PICK e \in vec(mk), d \in 0 .. me, o \in vec(mo) :
          /\ I' = The(sum(e) + d) /\ E' = The(sum(e)) /\ D' = The(d)
          /\ O' = The(sum(o)) /\ vC' = left(vC, e, o) /\ C' = The(sum(vC'))
          /\ typedBuffer(vC, e, d, o, B')
          /\ \E se \in splits(vEnq, e) : typedWinds(e, o, se, vEnq', vNxt', vOut')
    BY <1>2 DEF TypedNext
  <2>1. PICK se \in splits(vEnq, e) : typedWinds(e, o, se, vEnq', vNxt', vOut')
    BY <2>0
  <2>2. /\ wnd_enq' = The(sum(vEnq')) /\ wnd_enq_nxt' = The(sum(vNxt'))
        /\ wnd_out' = The(sum(vOut'))
        /\ sent' = sentAfter(sent, O')
    BY <1>2 DEF TypedNext
  <2>3. /\ E' = The(sum(e)) /\ O' = The(sum(o)) /\ sum(o) <= md
        /\ arrivals(C, I', E', D', B') /\ departures(C, E', O', C')
        /\ vC' = minus(plus(vC, e), o) /\ vC' \in vec(c)
    BY <1>2, <2>0 DEF typedBuffer, left, SumInv
  <2>4. sum(o) \in Nat /\ sum(e) \in Nat /\ sum(vC) \in Nat
    BY <1>0, <1>2, VecSum DEF SumInv
  <2>5. O' \in [Bufs -> 0 .. md]
    BY <2>3, <2>4, <1>0, OneBuffer
  <2>6. Next
    BY <2>3, <2>5 DEF Next, out
  <2>7. /\ winds(sum(vEnq), sum(vNxt), sum(vOut), sum(e), sum(o),
                 sum(vEnq'), sum(vNxt'), sum(vOut'))
        /\ sum(vEnq') \in 0 .. c /\ sum(vNxt') \in 0 .. c /\ sum(vOut') \in 0 .. c
    BY <1>2, <2>1, <2>3, WindsOfSums
  <2>8. windsAll
    BY <1>2, <2>2, <2>3, <2>7, OneBuffer DEF windsAll, SumInv
  <2>9. WindNext
    BY <2>2, <2>6, <2>8 DEF WindNext
  <2>10. C' = The(sum(vC'))
    <3>1. C' = [n \in Bufs |-> sum(vC) + sum(e) - sum(o)]
      BY <1>2, <2>3, OneBuffer DEF departures, remaining, SumInv
    <3>2. sum(vC') = sum(vC) + sum(e) - sum(o)
      BY <1>2, <2>3, RemainingOfSums DEF SumInv
    <3> QED BY <3>1, <3>2 DEF The
  <2>11. vEnq' \in vec(c) /\ vNxt' \in vec(c) /\ vOut' \in vec(c)
    BY <2>1 DEF typedWinds
  <2> QED BY <2>2, <2>3, <2>9, <2>10, <2>11 DEF SumInv
<1> QED BY <1>1, <1>2

\* The typed windows implement the windows of Winds by their sums, for every
\* capacity.
THEOREM TypedRefinesWinds == TypedSpec => SumsAreScalar
<1> QED BY SumsInit, SumsStep, PTL DEF TypedSpec, SumsAreScalar, WindSpec

-----------------------------------------------------------------------------
(***************************************************************************)
(* The order of packets.  The windows keep it only as long as they account *)
(* for the packets in the buffer, which winds does not do for ever.        *)
(* OrderInv says how far it does, and that an empty buffer starts afresh.  *)
(* The proof is by elements of the vectors: linear arithmetic.             *)
(***************************************************************************)

\* Vectors are compared and added by their elements.
LEMMA Elements ==
  ASSUME NEW u \in [Types -> Int], NEW v \in [Types -> Int]
  PROVE  /\ u[0] \in Int /\ u[1] \in Int /\ u[2] \in Int
         /\ sum(u) = u[0] + u[1] + u[2]
         /\ leq(u, v) <=> u[0] <= v[0] /\ u[1] <= v[1] /\ u[2] <= v[2]
         /\ u = v <=> u[0] = v[0] /\ u[1] = v[1] /\ u[2] = v[2]
         /\ plus(u, v) \in [Types -> Int] /\ minus(u, v) \in [Types -> Int]
         /\ plus(u, v)[0] = u[0] + v[0] /\ plus(u, v)[1] = u[1] + v[1]
         /\ plus(u, v)[2] = u[2] + v[2]
         /\ minus(u, v)[0] = u[0] - v[0] /\ minus(u, v)[1] = u[1] - v[1]
         /\ minus(u, v)[2] = u[2] - v[2]
<1>1. 0 \in Types /\ 1 \in Types /\ 2 \in Types
  BY DEF Types
<1>2. \A k \in Types : k = 0 \/ k = 1 \/ k = 2
  BY DEF Types
<1>3. u = v <=> u[0] = v[0] /\ u[1] = v[1] /\ u[2] = v[2]
  <2>1. u = [k \in Types |-> u[k]] /\ v = [k \in Types |-> v[k]]
    OBVIOUS
  <2>2. ASSUME u[0] = v[0], u[1] = v[1], u[2] = v[2] PROVE \A k \in Types : u[k] = v[k]
    BY <1>2, <2>2
  <2> QED BY <2>1, <2>2
<1>4. leq(u, v) <=> u[0] <= v[0] /\ u[1] <= v[1] /\ u[2] <= v[2]
  BY <1>1, <1>2 DEF leq
<1>5. plus(u, v) \in [Types -> Int] /\ minus(u, v) \in [Types -> Int]
  BY DEF plus, minus
<1>6. /\ plus(u, v)[0] = u[0] + v[0] /\ plus(u, v)[1] = u[1] + v[1]
      /\ plus(u, v)[2] = u[2] + v[2]
      /\ minus(u, v)[0] = u[0] - v[0] /\ minus(u, v)[1] = u[1] - v[1]
      /\ minus(u, v)[2] = u[2] - v[2]
  BY <1>1 DEF plus, minus
<1> QED BY <1>1, <1>3, <1>4, <1>5, <1>6 DEF sum

\* The elements of a vector of an array are natural numbers.
LEMMA VecElements ==
  ASSUME NEW b \in Nat, NEW v \in vec(b)
  PROVE  v \in [Types -> Int] /\ v[0] \in 0 .. b /\ v[1] \in 0 .. b /\ v[2] \in 0 .. b
BY DEF vec, Types

\* What is left of two vectors when a third is taken away.
LEMMA Remainder ==
  ASSUME NEW u \in [Types -> Int], NEW v \in [Types -> Int], NEW w \in [Types -> Int]
  PROVE  /\ minus(plus(u, v), w) \in [Types -> Int]
         /\ minus(plus(u, v), w)[0] = u[0] + v[0] - w[0]
         /\ minus(plus(u, v), w)[1] = u[1] + v[1] - w[1]
         /\ minus(plus(u, v), w)[2] = u[2] + v[2] - w[2]
<1> DEFINE s == plus(u, v)
<1>1. s \in [Types -> Int] /\ s[0] = u[0] + v[0] /\ s[1] = u[1] + v[1] /\ s[2] = u[2] + v[2]
  BY Elements
<1>0. \A k \in {0, 1, 2} : u[k] \in Int /\ v[k] \in Int /\ w[k] \in Int
  BY Elements
<1> HIDE DEF s
<1>2. /\ minus(s, w) \in [Types -> Int]
      /\ minus(s, w)[0] = s[0] - w[0] /\ minus(s, w)[1] = s[1] - w[1]
      /\ minus(s, w)[2] = s[2] - w[2]
  BY <1>1, Elements
<1>3. /\ minus(s, w) \in [Types -> Int]
      /\ minus(s, w)[0] = u[0] + v[0] - w[0] /\ minus(s, w)[1] = u[1] + v[1] - w[1]
      /\ minus(s, w)[2] = u[2] + v[2] - w[2]
  BY <1>0, <1>1, <1>2
<1> QED BY <1>3 DEF s

\* The vector of no packets.
LEMMA NoneElements == None \in [Types -> Int] /\ None[0] = 0 /\ None[1] = 0 /\ None[2] = 0
BY DEF None, Types

\* A timestep of the typed windows, by elements: the window is renewed when all its
\* packets of each type have left, and kept otherwise.
Renewed(e, o, se) ==
  \A k \in {0, 1, 2} :
    /\ se[k] <= vOut[k] + o[k]
    /\ vNxt'[k] = 0 /\ vEnq'[k] = vEnq[k] + e[k] - se[k] /\ vOut'[k] = vOut[k] + o[k] - se[k]

Kept(e, o, se) ==
  /\ \E k \in {0, 1, 2} : se[k] > vOut[k] + o[k]
  /\ \A k \in {0, 1, 2} :
       /\ vNxt'[k] = vNxt[k] + vEnq[k] + e[k] - se[k] /\ vEnq'[k] = se[k]
       /\ vOut'[k] = vOut[k] + o[k]

\* se is what belongs to the window, of what it had and what came.
Parted(e, se) ==
  /\ \A k \in {0, 1, 2} : vEnq[k] <= se[k] /\ se[k] <= vEnq[k] + e[k]
  /\ se[0] + se[1] + se[2] <= c
  /\ vEnq[0] + e[0] - se[0] + (vEnq[1] + e[1] - se[1]) + (vEnq[2] + e[2] - se[2]) <= c - 1
  /\ vEnq[0] + e[0] - se[0] + (vEnq[1] + e[1] - se[1]) + (vEnq[2] + e[2] - se[2]) > 0
       => se[0] + se[1] + se[2] = c

\* The constraints on a timestep, by elements.
LEMMA ByElements ==
  ASSUME SumInv,
         NEW e \in vec(mk), NEW o \in vec(mo), NEW se \in splits(vEnq, e),
         typedWinds(e, o, se, vEnq', vNxt', vOut'), vC' = minus(plus(vC, e), o)
  PROVE  /\ \A k \in {0, 1, 2} :
              /\ vC[k] \in 0 .. c /\ vEnq[k] \in 0 .. c /\ vNxt[k] \in 0 .. c
              /\ vOut[k] \in 0 .. c /\ e[k] \in Nat /\ o[k] \in Nat /\ se[k] \in 0 .. c
              /\ vC'[k] = vC[k] + e[k] - o[k]
              /\ vOut'[k] <= vEnq'[k] /\ vEnq'[k] \in Nat /\ vOut'[k] \in Nat /\ vNxt'[k] \in Nat
         /\ Parted(e, se)
         /\ Renewed(e, o, se) \/ Kept(e, o, se)
<1> DEFINE sn == minus(plus(vEnq, e), se)
           to == plus(vOut, o)
<1>1. c \in Nat \ {0} /\ md \in Nat /\ mo \in Nat /\ mk \in Nat
  BY ParamsAssumption, TypedAssumption
<1>2. /\ se \in vec(c) /\ sn \in vec(c) /\ leq(vEnq, se)
      /\ sum(se) <= c /\ sum(sn) <= c - 1
      /\ sum(sn) > 0 => sum(se) = c
      /\ windows(se, sn, to, vEnq', vNxt', vOut')
      /\ vEnq' \in vec(c) /\ vNxt' \in vec(c) /\ vOut' \in vec(c)
      /\ leq(vOut', vEnq')
  BY DEF splits, typedWinds
<1>3. /\ vC \in vec(c) /\ vEnq \in vec(c) /\ vNxt \in vec(c) /\ vOut \in vec(c)
  BY DEF SumInv
<1>4. /\ vC \in [Types -> Int] /\ vEnq \in [Types -> Int] /\ vNxt \in [Types -> Int]
      /\ vOut \in [Types -> Int] /\ e \in [Types -> Int] /\ o \in [Types -> Int]
      /\ se \in [Types -> Int] /\ sn \in [Types -> Int]
      /\ vEnq' \in [Types -> Int] /\ vNxt' \in [Types -> Int] /\ vOut' \in [Types -> Int]
  BY <1>1, <1>2, <1>3, VecElements
<1>5. /\ sn[0] = vEnq[0] + e[0] - se[0] /\ sn[1] = vEnq[1] + e[1] - se[1]
      /\ sn[2] = vEnq[2] + e[2] - se[2]
  BY <1>4, Remainder
<1>6. /\ to \in [Types -> Int]
      /\ to[0] = vOut[0] + o[0] /\ to[1] = vOut[1] + o[1] /\ to[2] = vOut[2] + o[2]
  BY <1>4, Elements
<1>7. \A k \in {0, 1, 2} : vC'[k] = vC[k] + e[k] - o[k]
  BY <1>4, Remainder
<1>8. \A k \in {0, 1, 2} :
        /\ vC[k] \in 0 .. c /\ vEnq[k] \in 0 .. c /\ vNxt[k] \in 0 .. c
        /\ vOut[k] \in 0 .. c /\ e[k] \in Nat /\ o[k] \in Nat /\ se[k] \in 0 .. c
        /\ vEnq'[k] \in Nat /\ vNxt'[k] \in Nat /\ vOut'[k] \in Nat /\ sn[k] \in Nat
  BY <1>1, <1>2, <1>3, VecElements
<1> HIDE DEF sn, to
<1>9. \A k \in {0, 1, 2} : vOut'[k] <= vEnq'[k] /\ vEnq[k] <= se[k]
  BY <1>2, <1>4, Elements
<1>10. sum(se) = se[0] + se[1] + se[2] /\ sum(sn) = sn[0] + sn[1] + sn[2]
  BY DEF sum
<1>11. Parted(e, se)
  BY <1>2, <1>5, <1>8, <1>9, <1>10 DEF Parted
<1>12. CASE leq(se, to)
  <2>1. vNxt' = None /\ vEnq' = plus(None, sn) /\ vOut' = minus(to, se)
    BY <1>2, <1>12 DEF windows
  <2>2. \A k \in {0, 1, 2} : se[k] <= to[k]
    BY <1>4, <1>6, <1>12, Elements
  <2>3. \A k \in {0, 1, 2} : vNxt'[k] = 0 /\ vEnq'[k] = 0 + sn[k] /\ vOut'[k] = to[k] - se[k]
    <3>1. /\ None \in [Types -> Int]
          /\ \A k \in {0, 1, 2} : None[k] = 0
      BY NoneElements
    <3>2. \A k \in {0, 1, 2} : vEnq'[k] = None[k] + sn[k]
      BY <2>1, <3>1, <1>4, Elements
    <3>3. \A k \in {0, 1, 2} : vOut'[k] = to[k] - se[k]
      BY <2>1, <1>4, <1>6, Elements
    <3> QED BY <2>1, <3>1, <3>2, <3>3
  <2>4. Renewed(e, o, se)
    BY <2>2, <2>3, <1>5, <1>6, <1>8 DEF Renewed
  <2> QED BY <2>4, <1>7, <1>8, <1>9, <1>11
<1>13. CASE ~leq(se, to)
  <2>1. vNxt' = plus(vNxt, sn) /\ vEnq' = se /\ vOut' = to
    BY <1>2, <1>13 DEF windows
  <2>2. \E k \in {0, 1, 2} : ~(se[k] <= to[k])
    BY <1>4, <1>6, <1>13, Elements
  <2>3. \A k \in {0, 1, 2} : vNxt'[k] = vNxt[k] + sn[k] /\ vEnq'[k] = se[k] /\ vOut'[k] = to[k]
    BY <2>1, <1>4, <1>6, Elements
  <2>4. Kept(e, o, se)
    BY <2>2, <2>3, <1>5, <1>6, <1>8 DEF Kept
  <2> QED BY <2>4, <1>7, <1>8, <1>9, <1>11
<1> QED BY <1>12, <1>13

\* The history variables stay in range.
OrderTypeOK == old \in [Types -> Int] /\ away \in 0 .. c + 1

\* OrderInv by elements.
OrderElements ==
  /\ sum(vEnq) <= c
  /\ \A k \in {0, 1, 2} : vOut[k] <= vEnq[k] /\ vEnq[k] + vNxt[k] - vOut[k] <= vC[k]
  /\ sum(vNxt) > 0 => sum(vEnq) = c
  /\ sum(vEnq) = c /\ (\A k \in {0, 1, 2} : vOut[k] = vEnq[k]) => c = 1
  /\ away < c =>
       /\ \A k \in {0, 1, 2} : vC[k] = vEnq[k] + vNxt[k] - vOut[k]
       /\ sum(vOut) = away
       /\ away + sum(vC) < c => \A k \in {0, 1, 2} : old[k] = vC[k]
       /\ away + sum(vC) >= c => /\ sum(vEnq) = c
                                   /\ \A k \in {0, 1, 2} : vEnq[k] <= old[k] + vOut[k]
  /\ \A k \in {0, 1, 2} : old[k] >= 0

\* The two say the same.
LEMMA OrderByElements == SumInv /\ OrderTypeOK => (OrderInv <=> OrderElements)
<1> SUFFICES ASSUME SumInv, OrderTypeOK PROVE OrderInv <=> OrderElements
  OBVIOUS
<1>1. c \in Nat \ {0}
  BY ParamsAssumption
<1>2. /\ vC \in [Types -> Int] /\ vEnq \in [Types -> Int] /\ vNxt \in [Types -> Int]
      /\ vOut \in [Types -> Int] /\ old \in [Types -> Int] /\ away \in Int
  BY <1>1, VecElements DEF SumInv, OrderTypeOK
<1>3. \A k \in {0, 1, 2} : vC[k] \in Int /\ vEnq[k] \in Int /\ vNxt[k] \in Int
                           /\ vOut[k] \in Int /\ old[k] \in Int
  BY <1>2, Elements
<1> DEFINE w == minus(plus(vEnq, vNxt), vOut)
           h == plus(old, vOut)
<1>4. w \in [Types -> Int] /\ \A k \in {0, 1, 2} : w[k] = vEnq[k] + vNxt[k] - vOut[k]
  BY <1>2, Remainder
<1>5. h \in [Types -> Int] /\ \A k \in {0, 1, 2} : h[k] = old[k] + vOut[k]
  BY <1>2, Elements
<1> HIDE DEF w, h
<1>7. leq(vOut, vEnq) <=> \A k \in {0, 1, 2} : vOut[k] <= vEnq[k]
  BY <1>2, Elements
<1>8. leq(w, vC) <=> \A k \in {0, 1, 2} : vEnq[k] + vNxt[k] - vOut[k] <= vC[k]
  <2>0. w \in [Types -> Int] /\ vC \in [Types -> Int]
    BY <1>2, <1>4
  <2>1. leq(w, vC) <=> w[0] <= vC[0] /\ w[1] <= vC[1] /\ w[2] <= vC[2]
    BY <2>0, Elements
  <2> QED BY <2>1, <1>4
<1>9. vOut = vEnq <=> \A k \in {0, 1, 2} : vOut[k] = vEnq[k]
  BY <1>2, Elements
<1>10. vC = w <=> \A k \in {0, 1, 2} : vC[k] = vEnq[k] + vNxt[k] - vOut[k]
  <2>1. vC = w <=> vC[0] = w[0] /\ vC[1] = w[1] /\ vC[2] = w[2]
    BY <1>2, <1>4, Elements
  <2> QED BY <2>1, <1>4
<1>11. old = vC <=> \A k \in {0, 1, 2} : old[k] = vC[k]
  BY <1>2, Elements
<1>12. leq(vEnq, h) <=> \A k \in {0, 1, 2} : vEnq[k] <= old[k] + vOut[k]
  BY <1>2, <1>5, Elements
<1>13. InOrder <=> \A k \in {0, 1, 2} : old[k] >= 0
  BY DEF InOrder, Types
<1>14. sum(vC) \in Int
  BY <1>3 DEF sum
<1> QED BY <1>1, <1>2, <1>7, <1>8, <1>9, <1>10, <1>11, <1>12, <1>13, <1>14
     DEF OrderInv, OrderElements, w, h

\* The history by elements.
LEMMA HistoryByElements ==
  ASSUME SumInv, OrderTypeOK, NEW e \in vec(mk), NEW o \in vec(mo),
         vC' \in vec(c), historyAfter(e, o)
  PROVE  /\ OrderTypeOK'
         /\ (\A k \in {0, 1, 2} : vC'[k] = 0) => away' = 0 /\ \A k \in {0, 1, 2} : old'[k] = 0
         /\ ~(\A k \in {0, 1, 2} : vC'[k] = 0) =>
              /\ away + sum(o) <= c => away' = away + sum(o)
              /\ away + sum(o) > c => away' = c + 1 /\ \A k \in {0, 1, 2} : old'[k] = 0
              /\ away + sum(o) <= c /\ away + sum(vC) < c =>
                   \A k \in {0, 1, 2} : old'[k] = old[k] + e[k] - o[k]
              /\ away + sum(o) <= c /\ away + sum(vC) >= c =>
                   \A k \in {0, 1, 2} : old'[k] = old[k] - o[k]
<1>1. c \in Nat \ {0} /\ md \in Nat /\ mo \in Nat /\ mk \in Nat
  BY ParamsAssumption, TypedAssumption
<1>2. /\ vC \in [Types -> Int] /\ old \in [Types -> Int] /\ away \in 0 .. c + 1
      /\ e \in [Types -> Int] /\ o \in [Types -> Int] /\ vC' \in [Types -> Int]
  BY <1>1, VecElements DEF SumInv, OrderTypeOK
<1>4. sum(o) \in Nat /\ sum(vC) \in Nat
  <2>1. \A k \in {0, 1, 2} : o[k] \in Nat /\ vC[k] \in Nat
    BY <1>1, VecElements DEF SumInv
  <2> QED BY <2>1 DEF sum
<1>5. None \in [Types -> Int] /\ \A k \in {0, 1, 2} : None[k] = 0
  BY NoneElements
<1>6. vC' = None <=> \A k \in {0, 1, 2} : vC'[k] = 0
  <2>1. vC' = None <=> vC'[0] = None[0] /\ vC'[1] = None[1] /\ vC'[2] = None[2]
    BY <1>2, <1>5, Elements
  <2> QED BY <2>1, <1>5
<1> DEFINE r == minus(plus(old, e), o)
           q1 == minus(old, o)
           n == away + sum(o)
<1>7. r \in [Types -> Int] /\ \A k \in {0, 1, 2} : r[k] = old[k] + e[k] - o[k]
  BY <1>2, Remainder
<1>8. q1 \in [Types -> Int] /\ \A k \in {0, 1, 2} : q1[k] = old[k] - o[k]
  BY <1>2, Elements
<1>9. /\ away' = IF vC' = None THEN 0 ELSE IF n <= c + 1 THEN n ELSE c + 1
      /\ old' = IF vC' = None \/ n > c THEN None
                ELSE IF away + sum(vC) < c THEN r ELSE q1
  BY DEF historyAfter, Least
<1>10. n \in Nat
  BY <1>2, <1>4
<1> HIDE DEF r, q1
<1>11. away' \in 0 .. c + 1
  BY <1>1, <1>9, <1>10
<1>12. old' \in [Types -> Int]
  BY <1>5, <1>7, <1>8, <1>9
<1>13. OrderTypeOK'
  BY <1>11, <1>12 DEF OrderTypeOK
<1>14. CASE vC' = None
  BY <1>5, <1>6, <1>9, <1>13, <1>14
<1>15. CASE vC' # None
  <2>1. ~(\A k \in {0, 1, 2} : vC'[k] = 0)
    BY <1>6, <1>15
  <2>2. n <= c => away' = n
    BY <1>1, <1>9, <1>10, <1>15
  <2>3. n > c => away' = c + 1 /\ old' = None
    BY <1>1, <1>9, <1>10, <1>15
  <2>4. n <= c /\ away + sum(vC) < c => old' = r
    BY <1>1, <1>9, <1>10, <1>15
  <2>5. n <= c /\ away + sum(vC) >= c => old' = q1
    BY <1>1, <1>2, <1>4, <1>9, <1>10, <1>15
  <2> QED BY <1>5, <1>7, <1>8, <1>13, <2>1, <2>2, <2>3, <2>4, <2>5
<1> QED BY <1>14, <1>15

\* Of two vectors with one sum neither is below the other.
LEMMA SameTotal ==
  ASSUME NEW u, NEW v, \A k \in {0, 1, 2} : u[k] \in Int /\ v[k] \in Int /\ u[k] <= v[k],
         sum(v) <= sum(u)
  PROVE  \A k \in {0, 1, 2} : u[k] = v[k]
<1>1. /\ u[0] \in Int /\ v[0] \in Int /\ u[0] <= v[0]
      /\ u[1] \in Int /\ v[1] \in Int /\ u[1] <= v[1]
      /\ u[2] \in Int /\ v[2] \in Int /\ u[2] <= v[2]
      /\ v[0] + v[1] + v[2] <= u[0] + u[1] + u[2]
  BY DEF sum
<1>2. u[0] = v[0] /\ u[1] = v[1] /\ u[2] = v[2]
  BY <1>1
<1> QED BY <1>2

\* A vector whose sum is 0 is empty.
LEMMA NoTotal ==
  ASSUME NEW u, \A k \in {0, 1, 2} : u[k] \in Nat, sum(u) = 0
  PROVE  \A k \in {0, 1, 2} : u[k] = 0
<1>1. u[0] \in Nat /\ u[1] \in Nat /\ u[2] \in Nat /\ u[0] + u[1] + u[2] = 0
  BY DEF sum
<1>2. u[0] = 0 /\ u[1] = 0 /\ u[2] = 0
  BY <1>1
<1> QED BY <1>2

\* A timestep keeps OrderElements, when one packet at most can leave in it.
LEMMA OrderStep ==
  ASSUME md = 1, SumInv, OrderTypeOK, OrderElements,
         NEW e \in vec(mk), NEW o \in vec(mo), NEW se \in splits(vEnq, e),
         typedWinds(e, o, se, vEnq', vNxt', vOut'), sum(o) <= md,
         vC' = minus(plus(vC, e), o), vC' \in vec(c), historyAfter(e, o)
  PROVE  OrderElements'
<1> DEFINE K == {0, 1, 2}
<1>1. c \in Nat \ {0} /\ away \in Nat /\ \A k \in K : old[k] \in Int
  BY ParamsAssumption, Elements DEF OrderTypeOK
<1>2. /\ \A k \in K :
           /\ vC[k] \in 0 .. c /\ vEnq[k] \in 0 .. c /\ vNxt[k] \in 0 .. c
           /\ vOut[k] \in 0 .. c /\ e[k] \in Nat /\ o[k] \in Nat /\ se[k] \in 0 .. c
           /\ vC'[k] = vC[k] + e[k] - o[k] /\ vC'[k] >= 0
           /\ vOut'[k] <= vEnq'[k] /\ vEnq'[k] \in Nat /\ vOut'[k] \in Nat /\ vNxt'[k] \in Nat
      /\ Parted(e, se)
      /\ Renewed(e, o, se) \/ Kept(e, o, se)
  <2>1. \A k \in K : vC'[k] >= 0
    BY <1>1, VecElements
  <2> QED BY <2>1, ByElements
<1>3. /\ OrderTypeOK'
      /\ (\A k \in K : vC'[k] = 0) => away' = 0 /\ \A k \in K : old'[k] = 0
      /\ ~(\A k \in K : vC'[k] = 0) =>
           /\ away + sum(o) <= c => away' = away + sum(o)
           /\ away + sum(o) > c => away' = c + 1 /\ \A k \in K : old'[k] = 0
           /\ away + sum(o) <= c /\ away + sum(vC) < c =>
                \A k \in K : old'[k] = old[k] + e[k] - o[k]
           /\ away + sum(o) <= c /\ away + sum(vC) >= c =>
                \A k \in K : old'[k] = old[k] - o[k]
  BY HistoryByElements
<1>4. sum(o) \in 0 .. 1
  <2>1. \A k \in K : o[k] \in Nat
    BY <1>2
  <2>2. sum(o) <= 1
    OBVIOUS
  <2> QED BY <2>1, <2>2 DEF sum
<1> DEFINE n == away + sum(o)
           empty == \A k \in K : vC'[k] = 0
           over == vEnq[0] + e[0] - se[0] + (vEnq[1] + e[1] - se[1]) + (vEnq[2] + e[2] - se[2])
<1>5. /\ \A k \in K : vEnq[k] <= se[k] /\ se[k] <= vEnq[k] + e[k]
      /\ sum(se) <= c /\ over <= c - 1 /\ over \in Nat
      /\ over > 0 => sum(se) = c
  BY <1>1, <1>2 DEF Parted, sum
<1>6. /\ sum(vEnq) \in Nat /\ sum(vNxt) \in Nat /\ sum(vOut) \in Nat
      /\ sum(vC) \in Nat /\ sum(se) \in Nat /\ sum(vEnq) <= sum(se)
      /\ sum(e) \in Nat
  BY <1>1, <1>2, <1>5 DEF sum
<1>7. /\ \A k \in K : vOut[k] <= vEnq[k] /\ vEnq[k] + vNxt[k] - vOut[k] <= vC[k]
      /\ sum(vNxt) > 0 => sum(vEnq) = c
      /\ sum(vEnq) = c /\ (\A k \in K : vOut[k] = vEnq[k]) => c = 1
      /\ away < c =>
           /\ \A k \in K : vC[k] = vEnq[k] + vNxt[k] - vOut[k]
           /\ sum(vOut) = away
           /\ away + sum(vC) < c => \A k \in K : old[k] = vC[k]
           /\ away + sum(vC) >= c => sum(vEnq) = c /\ \A k \in K : vEnq[k] <= old[k] + vOut[k]
      /\ \A k \in K : old[k] >= 0
  BY DEF OrderElements
<1>8. sum(vEnq) = c => \A k \in K : vEnq[k] = se[k]
  <2>1. \A k \in K : vEnq[k] \in Int /\ se[k] \in Int /\ vEnq[k] <= se[k]
    BY <1>2, <1>5
  <2> QED BY <2>1, <1>5, SameTotal
<1>9. sum(o) = 0 => \A k \in K : o[k] = 0
  BY <1>2, NoTotal
<1>10. n \in Nat /\ (away >= c /\ n <= c => sum(o) = 0)
  BY <1>1, <1>4
<1>11. CASE Renewed(e, o, se)
  <2>1. /\ \A k \in K : se[k] <= vOut[k] + o[k]
        /\ \A k \in K : vNxt'[k] = 0 /\ vEnq'[k] = vEnq[k] + e[k] - se[k]
                        /\ vOut'[k] = vOut[k] + o[k] - se[k]
    BY <1>11 DEF Renewed
  <2>2. sum(vEnq') = over /\ sum(vNxt') = 0
    BY <1>1, <1>2, <1>5, <2>1 DEF sum
  <2>3. sum(vOut') = sum(vOut) + sum(o) - sum(se)
    BY <1>1, <1>2, <2>1 DEF sum
  <2>4. \A k \in K : vEnq'[k] + vNxt'[k] - vOut'[k] <= vC'[k]
    BY <1>2, <1>7, <2>1
  <2>5. sum(se) < c => \A k \in K : vEnq'[k] = 0 /\ vOut'[k] = 0
    <3> SUFFICES ASSUME sum(se) < c PROVE \A k \in K : vEnq'[k] = 0 /\ vOut'[k] = 0
      OBVIOUS
    <3>1. over = 0
      <4> HIDE DEF over
      <4> QED BY <1>1, <1>5, <1>6
    <3>2. \A k \in K : vEnq'[k] \in Nat
      BY <1>2, <1>5, <2>1
    <3>3. \A k \in K : vEnq'[k] = 0
      BY <2>2, <3>1, <3>2, NoTotal
    <3> QED BY <1>2, <3>2, <3>3
  <2>6. ASSUME empty PROVE sum(vOut') = 0
    <3>1. CASE sum(se) < c
      BY <2>5, <3>1 DEF sum
    <3>2. CASE sum(se) >= c
      <4>1. sum(se) = c
        BY <1>1, <1>5, <1>6, <3>2
      <4> SUFFICES ASSUME sum(vOut') # 0 PROVE FALSE
        OBVIOUS
      <4>2. \A k \in K : vOut[k] <= se[k]
        BY <1>2, <1>5, <1>7
      <4>3. sum(vOut') \in Nat
        BY <1>2 DEF sum
      <4>4. sum(vOut) >= sum(se)
        BY <1>1, <1>4, <1>6, <2>3, <4>1, <4>3
      <4>5. \A k \in K : vOut[k] = se[k]
        BY <1>2, <4>2, <4>4, SameTotal
      <4>6. \A k \in K : vOut[k] = vEnq[k] /\ vEnq[k] = se[k]
        <5>1. \A k \in K : /\ vOut[k] \in Int /\ vEnq[k] \in Int /\ se[k] \in Int
                           /\ vOut[k] <= vEnq[k] /\ vEnq[k] <= se[k]
          BY <1>2, <1>5, <1>7
        <5> QED BY <4>5, <5>1
      <4>7. sum(vEnq) = c
        BY <4>1, <4>6 DEF sum
      <4>8. over = 0
        <5>1. c = 1
          BY <1>7, <4>6, <4>7
        <5> HIDE DEF over
        <5> QED BY <1>5, <5>1
      <4>9. \A k \in K : vEnq'[k] = 0
        BY <1>2, <2>2, <4>8, NoTotal
      <4>10. \A k \in K : vOut'[k] = 0
        BY <1>2, <4>9
      <4> QED BY <4>10 DEF sum
    <3> QED BY <1>1, <1>6, <3>1, <3>2
  <2>7. ASSUME ~empty, away' < c PROVE FALSE
    <3>1. n < c /\ away < c
      BY <1>1, <1>3, <1>4, <1>10, <2>7
    <3>2. sum(vOut) + sum(o) < c
      BY <1>7, <3>1
    <3>3. sum(se) < c
      <4>1. sum(vOut') \in Nat
        BY <1>2 DEF sum
      <4> QED BY <1>1, <1>4, <1>6, <2>3, <3>2, <4>1
    <3>4. \A k \in K : vEnq'[k] = 0 /\ vOut'[k] = 0
      BY <2>5, <3>3
    <3>5. sum(vNxt) = 0
      BY <1>1, <1>6, <1>7, <3>3
    <3>6. \A k \in K : vNxt[k] = 0
      BY <1>2, <3>5, NoTotal
    <3>7. \A k \in K : vC'[k] = vEnq'[k] - vOut'[k]
      BY <1>2, <1>7, <2>1, <3>1, <3>6
    <3>8. empty
      BY <3>4, <3>7
    <3> QED BY <2>7, <3>8
  <2>8. \A k \in K : old'[k] >= 0
    <3>1. CASE empty \/ n > c
      BY <1>3, <3>1
    <3>2. CASE ~empty /\ n <= c /\ away + sum(vC) < c
      BY <1>1, <1>2, <1>3, <1>6, <1>7, <3>2
    <3>3. CASE ~empty /\ n <= c /\ away + sum(vC) >= c
      <4>1. \A k \in K : old'[k] = old[k] - o[k]
        BY <1>3, <3>3
      <4>2. CASE away >= c
        BY <1>1, <1>2, <1>7, <1>9, <1>10, <3>3, <4>1, <4>2
      <4>3. CASE away < c
        <5>1. /\ \A k \in K : vEnq[k] = se[k] /\ vEnq[k] <= old[k] + vOut[k]
              /\ sum(vEnq) = c /\ sum(vOut) = away
          BY <1>7, <1>8, <3>3, <4>3
        <5>2. sum(vOut') = 0
          <6>1. sum(se) = c
            BY <5>1 DEF sum
          <6>2. sum(vOut') \in Nat
            BY <1>2 DEF sum
          <6> QED BY <1>1, <1>4, <2>3, <3>3, <5>1, <6>1, <6>2
        <5>3. \A k \in K : vOut'[k] = 0
          BY <1>2, <5>2, NoTotal
        <5> QED BY <1>1, <1>2, <2>1, <4>1, <5>1, <5>3
      <4> QED BY <1>1, <4>2, <4>3
    <3> QED BY <1>1, <1>6, <1>10, <3>1, <3>2, <3>3
  <2>9. ASSUME empty
        PROVE  /\ \A k \in K : vC'[k] = vEnq'[k] + vNxt'[k] - vOut'[k]
               /\ away' = 0 /\ \A k \in K : old'[k] = vC'[k]
               /\ sum(vC') = 0
    <3>1. away' = 0 /\ \A k \in K : vC'[k] = 0 /\ old'[k] = 0
      BY <1>3, <2>9
    <3>2. \A k \in K : vC'[k] = vEnq'[k] + vNxt'[k] - vOut'[k]
      BY <1>2, <2>1, <2>4, <3>1
    <3> QED BY <3>1, <3>2 DEF sum
  <2>10. sum(vEnq') <= c - 1
    <3> HIDE DEF over
    <3> QED BY <1>5, <2>2
  <2>11. ASSUME away' < c
         PROVE  /\ \A k \in K : vC'[k] = vEnq'[k] + vNxt'[k] - vOut'[k]
                /\ sum(vOut') = away' /\ away' + sum(vC') < c
                /\ \A k \in K : old'[k] = vC'[k]
    <3>1. empty
      BY <2>7, <2>11
    <3> QED BY <1>1, <2>6, <2>9, <3>1
  <2>12. sum(vEnq') \in Nat /\ away' \in Nat /\ sum(vC') \in Int
    <3>1. away' \in Nat
      BY <1>1, <1>3 DEF OrderTypeOK
    <3>2. \A k \in K : vEnq'[k] \in Nat /\ vC'[k] \in Int
      BY <1>2
    <3> QED BY <3>1, <3>2 DEF sum
  <2>13. \A k \in K : vOut'[k] <= vEnq'[k]
    BY <1>2
  <2> HIDE DEF over, n, empty
  <2> QED BY <1>1, <2>2, <2>4, <2>8, <2>10, <2>11, <2>12, <2>13 DEF OrderElements
<1>12. CASE Kept(e, o, se)
  <2>1. /\ \E k \in K : se[k] > vOut[k] + o[k]
        /\ \A k \in K : /\ vNxt'[k] = vNxt[k] + vEnq[k] + e[k] - se[k]
                        /\ vEnq'[k] = se[k] /\ vOut'[k] = vOut[k] + o[k]
    BY <1>12 DEF Kept
  <2>2. /\ sum(vEnq') = sum(se) /\ sum(vNxt') = sum(vNxt) + over
        /\ sum(vOut') = sum(vOut) + sum(o)
    <3>1. sum(vEnq') = sum(se)
      BY <2>1 DEF sum
    <3>0. \A k \in K : /\ vOut[k] \in Int /\ o[k] \in Int /\ vNxt[k] \in Int
                       /\ vEnq[k] \in Int /\ e[k] \in Int /\ se[k] \in Int
      BY <1>2
    <3>2. sum(vOut') = sum(vOut) + sum(o)
      BY <2>1, <3>0 DEF sum
    <3>3. sum(vNxt') = sum(vNxt) + over
      BY <2>1, <3>0 DEF sum
    <3> QED BY <3>1, <3>2, <3>3
  <2>3. sum(vNxt') > 0 => sum(vEnq') = c
    <3> HIDE DEF over
    <3> QED BY <1>1, <1>5, <1>6, <1>7, <2>2
  <2>4. \A k \in K : vEnq'[k] + vNxt'[k] - vOut'[k] <= vC'[k]
    BY <1>2, <1>7, <2>1
  <2>5. \E k \in K : vOut'[k] # vEnq'[k]
    BY <1>2, <2>1
  <2>6. ~empty
    BY <1>2, <2>1, <2>4, <2>5
  <2>7. \A k \in K : old'[k] >= 0
    <3>1. CASE n > c
      BY <1>3, <2>6, <3>1
    <3>2. CASE n <= c /\ away + sum(vC) < c
      BY <1>1, <1>2, <1>3, <1>6, <1>7, <2>6, <3>2
    <3>3. CASE n <= c /\ away + sum(vC) >= c
      <4>1. \A k \in K : old'[k] = old[k] - o[k]
        BY <1>3, <2>6, <3>3
      <4>2. CASE away >= c
        BY <1>1, <1>2, <1>7, <1>9, <1>10, <3>3, <4>1, <4>2
      <4>3. CASE away < c
        <5>1. \A k \in K : vEnq[k] = se[k] /\ vEnq[k] <= old[k] + vOut[k]
          BY <1>7, <1>8, <3>3, <4>3
        <5> QED BY <1>1, <1>2, <2>1, <4>1, <5>1
      <4> QED BY <1>1, <4>2, <4>3
    <3> QED BY <1>1, <1>6, <1>10, <3>1, <3>2, <3>3
  <2>8. ASSUME away' < c
        PROVE  /\ \A k \in K : vC'[k] = vEnq'[k] + vNxt'[k] - vOut'[k]
               /\ sum(vOut') = away'
               /\ away' + sum(vC') < c => \A k \in K : old'[k] = vC'[k]
               /\ away' + sum(vC') >= c => /\ sum(vEnq') = c
                                             /\ \A k \in K : vEnq'[k] <= old'[k] + vOut'[k]
    <3>1. n < c /\ away < c /\ away' = n
      BY <1>1, <1>3, <1>4, <1>10, <2>6, <2>8
    <3>2. \A k \in K : vC'[k] = vEnq'[k] + vNxt'[k] - vOut'[k]
      BY <1>2, <1>7, <2>1, <3>1
    <3>3. sum(vOut') = away'
      BY <1>7, <2>2, <3>1
    <3>4. sum(vC') = sum(vC) + sum(e) - sum(o) /\ sum(vC') \in Nat
      <4>1. \A k \in K : vC[k] \in Int /\ e[k] \in Int /\ o[k] \in Int
        BY <1>2
      <4>2. \A k \in K : vC'[k] = vC[k] + e[k] - o[k] /\ vC'[k] \in Nat
        BY <1>2
      <4>3. sum(vC') = sum(vC) + sum(e) - sum(o)
        BY <4>1, <4>2 DEF sum
      <4>4. sum(vC') \in Nat
        BY <4>2 DEF sum
      <4> QED BY <4>3, <4>4
    <3>5. away + sum(vC) < c => \A k \in K : old'[k] = vC'[k]
      BY <1>1, <1>2, <1>3, <1>7, <2>6, <3>1
    <3>6. away + sum(vC) >= c => \A k \in K : vEnq'[k] <= old'[k] + vOut'[k]
      <4> SUFFICES ASSUME away + sum(vC) >= c
                   PROVE  \A k \in K : vEnq'[k] <= old'[k] + vOut'[k]
        OBVIOUS
      <4>1. \A k \in K : vEnq[k] = se[k] /\ vEnq[k] <= old[k] + vOut[k]
        BY <1>7, <1>8, <3>1
      <4>2. \A k \in K : old'[k] = old[k] - o[k]
        BY <1>1, <1>3, <1>10, <2>6, <3>1
      <4> QED BY <1>1, <1>2, <2>1, <4>1, <4>2
    <3>7. away' + sum(vC') < c => away + sum(vC) < c
      BY <1>1, <1>4, <1>6, <3>1, <3>4
    <3>8. ASSUME away' + sum(vC') >= c PROVE sum(vEnq') = c
      <4>1. sum(vC') = sum(vEnq') + sum(vNxt') - sum(vOut')
        <5>1. \A k \in K : vEnq'[k] \in Int /\ vNxt'[k] \in Int /\ vOut'[k] \in Int
          BY <1>2
        <5> QED BY <3>2, <5>1 DEF sum
      <4>2. sum(vEnq') \in Nat /\ sum(vNxt') \in Nat /\ sum(vOut') \in Nat
        BY <1>2 DEF sum
      <4>3. sum(vEnq') <= c
        BY <1>5, <2>2
      <4> QED BY <1>1, <2>3, <3>3, <3>8, <4>1, <4>2, <4>3
    <3>9. sum(vEnq') <= c /\ sum(vEnq') \in Nat
      BY <1>2, <1>5, <2>2 DEF sum
    <3>10. \A k \in K : vC'[k] = vEnq'[k] + vNxt'[k] - vOut'[k] /\ vNxt'[k] \in Nat
                        /\ vOut'[k] \in Nat /\ vEnq'[k] \in Nat
      BY <1>2, <3>2
    <3>11. (\A k \in K : old'[k] = vC'[k]) => \A k \in K : vEnq'[k] <= old'[k] + vOut'[k]
      BY <3>10
    <3>12. away' + sum(vC') >= c => \A k \in K : vEnq'[k] <= old'[k] + vOut'[k]
      <4>1. CASE away + sum(vC) < c
        BY <3>5, <3>11, <4>1
      <4>2. CASE away + sum(vC) >= c
        BY <3>6, <4>2
      <4> QED BY <1>1, <1>6, <4>1, <4>2
    <3> QED BY <3>2, <3>3, <3>5, <3>7, <3>8, <3>12
  <2>9. sum(vEnq') <= c /\ \A k \in K : vOut'[k] <= vEnq'[k]
    BY <1>2, <1>5, <2>2
  <2> HIDE DEF over, n, empty
  <2> QED BY <2>3, <2>4, <2>5, <2>7, <2>8, <2>9 DEF OrderElements
<1> QED BY <1>2, <1>11, <1>12

\* OrderInv holds at timestep 0.
LEMMA OrderInit ==
  ASSUME md = 1, TypedInit, SumInv
  PROVE  OrderTypeOK /\ OrderElements
<1>1. PICK e \in vec(mk), o \in vec(mo) :
        /\ E = The(sum(e)) /\ arrivals(Empty, I, E, D, B) /\ sum(o) <= md
        /\ vC = minus(e, o) /\ vC \in vec(c)
        /\ vEnq = e /\ vNxt = None /\ vOut = o /\ away = sum(o) /\ old = vC
  BY DEF TypedInit
<1>2. c \in Nat \ {0} /\ mk \in Nat /\ md \in Nat /\ mo \in Nat
  BY ParamsAssumption, TypedAssumption
<1>3. /\ e \in [Types -> Int] /\ o \in [Types -> Int] /\ vC \in [Types -> Int]
      /\ sum(e) \in Nat /\ sum(o) \in 0 .. 1
  BY <1>1, <1>2, VecSum
<1>4. \A k \in {0, 1, 2} : /\ e[k] \in Nat /\ o[k] \in Nat /\ vC[k] \in Nat
                           /\ vC[k] = e[k] - o[k] /\ vNxt[k] = 0
  <2>1. \A k \in {0, 1, 2} : e[k] \in Nat /\ o[k] \in Nat /\ vC[k] \in Nat
    BY <1>1, <1>2, VecElements
  <2>2. \A k \in {0, 1, 2} : vC[k] = e[k] - o[k]
    BY <1>1, <1>3, Elements
  <2> QED BY <1>1, <2>1, <2>2, NoneElements
<1>5. sum(e) <= c
  <2>1. 0 \in Bufs
    BY TypedAssumption DEF Bufs
  <2> QED BY <1>1, <1>2, <1>3, <2>1, OneBuffer DEF arrivals, enqs, Empty
<1>6. OrderTypeOK
  BY <1>1, <1>2, <1>3 DEF OrderTypeOK
<1>7. /\ sum(vEnq) = sum(e) /\ sum(vNxt) = 0 /\ sum(vOut) = away /\ away \in 0 .. 1
      /\ sum(vC) \in Nat /\ sum(vEnq) = sum(vC) + away
  <2>1. sum(e) = e[0] + e[1] + e[2] /\ sum(o) = o[0] + o[1] + o[2]
    BY DEF sum
  <2>2. sum(vC) = vC[0] + vC[1] + vC[2]
    BY DEF sum
  <2>3. /\ sum(vEnq) = sum(e) /\ sum(vOut) = sum(o) /\ sum(vNxt) = 0
    BY <1>1, <1>4, <2>1 DEF sum
  <2>4. sum(vC) = sum(e) - sum(o) /\ sum(vC) \in Nat
    BY <1>4, <2>1, <2>2
  <2> QED BY <1>1, <1>3, <2>3, <2>4
<1>8. /\ \A k \in {0, 1, 2} : vOut[k] <= vEnq[k] /\ vC[k] = vEnq[k] + vNxt[k] - vOut[k]
      /\ \A k \in {0, 1, 2} : vEnq[k] <= old[k] + vOut[k] /\ old[k] = vC[k] /\ old[k] >= 0
  BY <1>1, <1>4
<1>9. sum(vEnq) = c /\ (\A k \in {0, 1, 2} : vOut[k] = vEnq[k]) => c = 1
  <2> SUFFICES ASSUME sum(vEnq) = c, \A k \in {0, 1, 2} : vOut[k] = vEnq[k] PROVE c = 1
    OBVIOUS
  <2>1. sum(vOut) = c
    BY DEF sum
  <2> QED BY <1>2, <1>7, <2>1
<1>10. \A k \in {0, 1, 2} : vEnq[k] + vNxt[k] - vOut[k] <= vC[k]
  BY <1>4, <1>8
<1>11. away + sum(vC) >= c => sum(vEnq) = c
  BY <1>2, <1>3, <1>5, <1>7
<1>12. sum(vEnq) <= c /\ ~(sum(vNxt) > 0)
  BY <1>5, <1>7
<1>13. OrderElements
  BY <1>7, <1>8, <1>9, <1>10, <1>11, <1>12 DEF OrderElements
<1> QED BY <1>6, <1>13

\* Packets a window apart keep their order, for every capacity and any traffic.  With
\* md = 1, as under every scheduler of the repository; with md = 2 a buffer can run
\* empty one packet into its next window, and the c packets that InOrder is about are
\* not a window then.
THEOREM WindowsKeepOrder ==
  ASSUME md = 1
  PROVE  TypedSpec => []InOrder
<1>1. TypedInit => SumInv /\ OrderTypeOK /\ OrderInv
  BY OrderInit, OrderByElements, SumsInit
<1>2. SumInv /\ OrderTypeOK /\ OrderInv /\ [TypedNext]_typedVars
        => SumInv' /\ OrderTypeOK' /\ OrderInv'
  <2>1. SumInv /\ [TypedNext]_typedVars => SumInv'
    BY SumsStep
  <2>2. ASSUME UNCHANGED typedVars, OrderTypeOK, OrderInv PROVE OrderTypeOK' /\ OrderInv'
    BY <2>2 DEF typedVars, windVars, OrderTypeOK, OrderInv, InOrder
  <2>3. (SumInv /\ OrderTypeOK => (OrderInv <=> OrderElements))'
    BY OrderByElements, PTL
  <2>4. ASSUME SumInv, OrderTypeOK, OrderInv, TypedNext, SumInv'
        PROVE  OrderTypeOK' /\ OrderInv'
    <3>1. PICK e \in vec(mk), d \in 0 .. me, o \in vec(mo) :
            /\ vC' = left(vC, e, o) /\ typedBuffer(vC, e, d, o, B')
            /\ \E se \in splits(vEnq, e) : typedWinds(e, o, se, vEnq', vNxt', vOut')
            /\ historyAfter(e, o)
      BY <2>4 DEF TypedNext
    <3>2. PICK se \in splits(vEnq, e) : typedWinds(e, o, se, vEnq', vNxt', vOut')
      BY <3>1
    <3>3. sum(o) <= md /\ vC' = minus(plus(vC, e), o) /\ vC' \in vec(c)
      BY <3>1 DEF typedBuffer, left
    <3>4. OrderTypeOK'
      BY <2>4, <3>1, <3>3, HistoryByElements
    <3>5. OrderElements
      BY <2>4, OrderByElements
    <3>6. OrderElements'
      BY <2>4, <3>1, <3>2, <3>3, <3>5, OrderStep
    <3> QED BY <2>3, <2>4, <3>4, <3>6
  <2> QED BY <2>1, <2>2, <2>4
<1>3. OrderInv => InOrder
  BY DEF OrderInv
<1> QED BY <1>1, <1>2, <1>3, PTL DEF TypedSpec

-----------------------------------------------------------------------------
(***************************************************************************)
(* The queue.  First, how many packets of each type a sequence has.        *)
(***************************************************************************)
Packets == Seq(Types)

\* Where a sequence has packets of type k.
at(s, k) == {j \in DOMAIN s : s[j] = k}

\* Vectors, type by type.
LEMMA PlusAt ==
  ASSUME NEW u \in [Types -> Int], NEW v \in [Types -> Int], NEW k \in Types
  PROVE  plus(u, v)[k] = u[k] + v[k]
BY DEF plus

LEMMA MinusAt ==
  ASSUME NEW u \in [Types -> Int], NEW v \in [Types -> Int], NEW k \in Types
  PROVE  minus(u, v)[k] = u[k] - v[k]
BY DEF minus

LEMMA VecEqual ==
  ASSUME NEW u \in [Types -> Int], NEW v \in [Types -> Int], \A k \in Types : u[k] = v[k]
  PROVE  u = v
OBVIOUS

\* An element of a vector of natural numbers is at most the sum.
LEMMA NatVec ==
  ASSUME NEW v \in [Types -> Nat]
  PROVE  /\ v \in [Types -> Int] /\ sum(v) \in Nat
         /\ \A k \in Types : v[k] \in Nat /\ v[k] <= sum(v)
         /\ sum(v) = 0 => v = None
<1>1. /\ v[0] \in Nat /\ v[1] \in Nat /\ v[2] \in Nat
      /\ \A k \in Types : k = 0 \/ k = 1 \/ k = 2
  BY DEF Types
<1>2. \A k \in Types : v[k] \in Nat /\ v[k] <= sum(v)
  BY <1>1 DEF sum
<1>3. ASSUME sum(v) = 0 PROVE v = None
  <2>1. \A k \in Types : v[k] = 0
    BY <1>2, <1>3
  <2> QED BY <2>1 DEF None
<1> QED BY <1>1, <1>2, <1>3 DEF sum

LEMMA AtFinite ==
  ASSUME NEW s \in Packets, NEW k
  PROVE  /\ IsFiniteSet(at(s, k)) /\ Cardinality(at(s, k)) \in Nat
         /\ DOMAIN s = 1 .. Len(s) /\ Len(s) \in Nat
<1>1. DOMAIN s = 1 .. Len(s) /\ Len(s) \in Nat
  BY LenProperties DEF Packets
<1>2. IsFiniteSet(1 .. Len(s))
  BY <1>1, FS_Interval
<1>3. at(s, k) \subseteq 1 .. Len(s)
  BY <1>1 DEF at
<1>4. IsFiniteSet(at(s, k))
  BY <1>2, <1>3, FS_Subset
<1> QED BY <1>1, <1>4, FS_CardinalityType

\* Together they are as many as the sequence is long.
LEMMA CountTotal ==
  ASSUME NEW s \in Packets
  PROVE  count(s) \in [Types -> Nat] /\ sum(count(s)) = Len(s)
<1>1. \A k \in Types : count(s)[k] = Cardinality(at(s, k))
  BY DEF count, at
<1>2. count(s) \in [Types -> Nat]
  BY <1>1, AtFinite DEF count
<1> DEFINE A == at(s, 0)
           R == at(s, 1)
           Z == at(s, 2)
<1>3. /\ IsFiniteSet(A) /\ IsFiniteSet(R) /\ IsFiniteSet(Z)
      /\ Cardinality(A) \in Nat /\ Cardinality(R) \in Nat /\ Cardinality(Z) \in Nat
      /\ DOMAIN s = 1 .. Len(s) /\ Len(s) \in Nat
  BY AtFinite
<1>4. A \cap R = {} /\ (A \cup R) \cap Z = {}
  BY DEF at
<1>5. (A \cup R) \cup Z = 1 .. Len(s)
  <2>1. \A j \in 1 .. Len(s) : s[j] \in {0, 1, 2}
    BY ElementOfSeq DEF Packets, Types
  <2> QED BY <1>3, <2>1 DEF at
<1> HIDE DEF A, R, Z
<1>6. Cardinality({}) = 0 /\ Cardinality(1 .. Len(s)) = Len(s)
  <2>1. Cardinality({}) = 0
    BY FS_EmptySet
  <2>2. Cardinality(1 .. Len(s)) = IF 1 > Len(s) THEN 0 ELSE Len(s) - 1 + 1
    <3>1. 1 \in Int /\ Len(s) \in Int
      BY <1>3
    <3> QED BY <3>1, FS_Interval
  <2> QED BY <1>3, <2>1, <2>2
<1>7. /\ IsFiniteSet(A \cup R)
      /\ Cardinality(A \cup R) = Cardinality(A) + Cardinality(R)
  <2>1. /\ IsFiniteSet(A \cup R)
        /\ Cardinality(A \cup R) = Cardinality(A) + Cardinality(R) - Cardinality(A \cap R)
    BY <1>3, FS_Union
  <2>2. Cardinality(A \cap R) = 0
    BY <1>4, <1>6, Zenon
  <2> QED BY <1>3, <2>1, <2>2
<1>8. Cardinality((A \cup R) \cup Z) = Cardinality(A \cup R) + Cardinality(Z)
  <2>1. Cardinality(A \cup R) \in Nat
    BY <1>3, <1>7
  <2>2. Cardinality((A \cup R) \cup Z)
          = Cardinality(A \cup R) + Cardinality(Z) - Cardinality((A \cup R) \cap Z)
    BY <1>3, <1>7, FS_Union
  <2>3. Cardinality((A \cup R) \cap Z) = 0
    BY <1>4, <1>6, Zenon
  <2> QED BY <1>3, <2>1, <2>2, <2>3
<1>9. Len(s) = Cardinality(A) + Cardinality(R) + Cardinality(Z)
  BY <1>3, <1>5, <1>6, <1>7, <1>8
<1>10. count(s)[0] = Cardinality(A) /\ count(s)[1] = Cardinality(R)
       /\ count(s)[2] = Cardinality(Z)
  BY <1>1 DEF Types, A, R, Z
<1> QED BY <1>2, <1>9, <1>10 DEF sum

\* A sequence after another.
LEMMA CountConcat ==
  ASSUME NEW s \in Packets, NEW t \in Packets
  PROVE  s \o t \in Packets /\ count(s \o t) = plus(count(s), count(t))
<1> DEFINE l == Len(s)
           st == s \o t
<1>1. /\ st \in Packets /\ Len(st) = l + Len(t)
      /\ \A i \in 1 .. l + Len(t) : st[i] = IF i <= l THEN s[i] ELSE t[i - l]
  BY ConcatProperties DEF Packets
<1>2. ASSUME NEW k \in Types
      PROVE  Cardinality(at(st, k)) = Cardinality(at(s, k)) + Cardinality(at(t, k))
  <2> DEFINE later == {j \in l + 1 .. l + Len(t) : t[j - l] = k}
             f == [j \in at(t, k) |-> j + l]
  <2>1. /\ IsFiniteSet(at(s, k)) /\ IsFiniteSet(at(t, k))
        /\ Cardinality(at(s, k)) \in Nat /\ Cardinality(at(t, k)) \in Nat
        /\ DOMAIN s = 1 .. l /\ l \in Nat /\ DOMAIN t = 1 .. Len(t) /\ Len(t) \in Nat
        /\ DOMAIN st = 1 .. l + Len(t)
    BY <1>1, AtFinite
  <2>2. at(st, k) = at(s, k) \cup later
    <3>1. ASSUME NEW j \in at(st, k) PROVE j \in at(s, k) \cup later
      BY <1>1, <2>1 DEF at
    <3>2. ASSUME NEW j \in at(s, k) PROVE j \in at(st, k)
      BY <1>1, <2>1 DEF at
    <3>3. ASSUME NEW j \in later PROVE j \in at(st, k)
      BY <1>1, <2>1 DEF at
    <3> QED BY <3>1, <3>2, <3>3
  <2>3. at(s, k) \cap later = {}
    BY <2>1 DEF at
  <2>4. f \in Bijection(at(t, k), later)
    <3>1. f \in [at(t, k) -> later]
      BY <2>1 DEF at
    <3>2. \A i, j \in at(t, k) : f[i] = f[j] => i = j
      BY <2>1 DEF at
    <3>3. ASSUME NEW j \in later PROVE \E i \in at(t, k) : f[i] = j
      <4>1. j - l \in at(t, k) /\ f[j - l] = j
        BY <2>1 DEF at
      <4> QED BY <4>1
    <3> QED BY <3>1, <3>2, <3>3, Fun_IsBij
  <2> HIDE DEF f, later
  <2>5. IsFiniteSet(later) /\ Cardinality(later) = Cardinality(at(t, k))
    <3>1. ExistsBijection(at(t, k), later)
      BY <2>4 DEF ExistsBijection
    <3> QED BY <2>1, <3>1, FS_Bijection
  <2>6. Cardinality(at(s, k) \cup later) = Cardinality(at(s, k)) + Cardinality(later) - 0
    BY <2>1, <2>3, <2>5, FS_Union, FS_EmptySet
  <2> QED BY <2>1, <2>2, <2>5, <2>6
<1>3. /\ count(st) = [k \in Types |-> Cardinality(at(st, k))]
      /\ \A k \in Types : count(s)[k] = Cardinality(at(s, k))
      /\ \A k \in Types : count(t)[k] = Cardinality(at(t, k))
  BY DEF count, at
<1> QED BY <1>1, <1>2, <1>3 DEF plus

\* A sequence divided in two.
LEMMA Divided ==
  ASSUME NEW s \in Packets, NEW n \in 0 .. Len(s)
  PROVE  /\ Prefix(s, n) \in Packets /\ Len(Prefix(s, n)) = n
         /\ Suffix(s, n) \in Packets /\ Len(Suffix(s, n)) = Len(s) - n
         /\ Prefix(s, n) \o Suffix(s, n) = s
         /\ \A i \in 1 .. n : Prefix(s, n)[i] = s[i]
         /\ \A i \in 1 .. Len(s) - n : Suffix(s, n)[i] = s[n + i]
<1>1. Len(s) \in Nat /\ \A i \in 1 .. Len(s) : s[i] \in Types
  BY LenProperties, ElementOfSeq DEF Packets
<1>2. /\ Prefix(s, n) \in Packets /\ Len(Prefix(s, n)) = n
      /\ \A i \in 1 .. n : Prefix(s, n)[i] = s[i]
  <2>1. \A i \in 1 .. n : s[i] \in Types
    BY <1>1
  <2>2. /\ SubSeq(s, 1, n) \in Seq(Types)
        /\ Len(SubSeq(s, 1, n)) = IF 1 <= n THEN n - 1 + 1 ELSE 0
        /\ \A i \in 1 .. n - 1 + 1 : SubSeq(s, 1, n)[i] = s[1 + i - 1]
    BY <2>1, SubSeqProperties
  <2> QED BY <2>2 DEF Prefix, Packets
<1>3. /\ Suffix(s, n) \in Packets /\ Len(Suffix(s, n)) = Len(s) - n
      /\ \A i \in 1 .. Len(s) - n : Suffix(s, n)[i] = s[n + i]
  <2>1. \A i \in n + 1 .. Len(s) : s[i] \in Types
    BY <1>1
  <2>2. /\ SubSeq(s, n + 1, Len(s)) \in Seq(Types)
        /\ Len(SubSeq(s, n + 1, Len(s))) = IF n + 1 <= Len(s) THEN Len(s) - (n + 1) + 1 ELSE 0
        /\ \A i \in 1 .. Len(s) - (n + 1) + 1 : SubSeq(s, n + 1, Len(s))[i] = s[(n + 1) + i - 1]
    BY <1>1, <2>1, SubSeqProperties
  <2> QED BY <1>1, <2>2 DEF Suffix, Packets
<1> DEFINE u == Prefix(s, n)
           v == Suffix(s, n)
<1>4. /\ u \o v \in Packets /\ Len(u \o v) = Len(u) + Len(v)
      /\ \A i \in 1 .. Len(u) + Len(v) : (u \o v)[i] = IF i <= Len(u) THEN u[i] ELSE v[i - Len(u)]
  BY <1>2, <1>3, ConcatProperties DEF Packets
<1> HIDE DEF u, v
<1>5. Len(u \o v) = Len(s) /\ \A i \in 1 .. Len(s) : (u \o v)[i] = s[i]
  <2>1. /\ Len(u) = n /\ Len(v) = Len(s) - n /\ n \in Nat /\ n <= Len(s)
        /\ \A i \in 1 .. n : u[i] = s[i]
        /\ \A i \in 1 .. Len(s) - n : v[i] = s[n + i]
    BY <1>1, <1>2, <1>3 DEF u, v
  <2>2. Len(u \o v) = Len(s)
    BY <1>1, <1>4, <2>1
  <2>3. ASSUME NEW i \in 1 .. Len(s) PROVE (u \o v)[i] = s[i]
    <3>1. CASE i <= n
      BY <1>1, <1>4, <2>1, <3>1
    <3>2. CASE ~(i <= n)
      <4>1. i - n \in 1 .. Len(s) - n /\ n + (i - n) = i
        BY <1>1, <2>1, <3>2
      <4> QED BY <1>1, <1>4, <2>1, <3>2, <4>1
    <3> QED BY <3>1, <3>2
  <2> QED BY <2>2, <2>3
<1>6. u \o v = s
  BY <1>4, <1>5, SeqEqual DEF Packets
<1> QED BY <1>2, <1>3, <1>6 DEF u, v

\* The first packets of a sequence after another.
LEMMA PrefixOfConcat ==
  ASSUME NEW s \in Packets, NEW t \in Packets, NEW n \in 0 .. Len(s) + Len(t)
  PROVE  /\ Len(s) \in Nat /\ Len(t) \in Nat /\ Len(s \o t) = Len(s) + Len(t)
         /\ n <= Len(s) => Prefix(s \o t, n) = Prefix(s, n)
         /\ n >= Len(s) => Prefix(s \o t, n) = s \o Prefix(t, n - Len(s))
<1>1. Len(s) \in Nat /\ Len(t) \in Nat
  BY LenProperties DEF Packets
<1>2. /\ s \o t \in Packets /\ Len(s \o t) = Len(s) + Len(t)
      /\ \A i \in 1 .. Len(s) + Len(t) : (s \o t)[i] = IF i <= Len(s) THEN s[i] ELSE t[i - Len(s)]
  BY ConcatProperties DEF Packets
<1> DEFINE u == Prefix(s \o t, n)
<1>3. /\ u \in Packets /\ Len(u) = n
      /\ \A i \in 1 .. n : u[i] = (s \o t)[i]
  <2>1. s \o t \in Packets /\ n \in 0 .. Len(s \o t)
    BY <1>2
  <2> QED BY <2>1, Divided
<1> HIDE DEF u
<1>4. ASSUME n <= Len(s) PROVE u = Prefix(s, n)
  <2>1. /\ Prefix(s, n) \in Packets /\ Len(Prefix(s, n)) = n
        /\ \A i \in 1 .. n : Prefix(s, n)[i] = s[i]
    BY <1>1, <1>4, Divided
  <2>2. \A i \in 1 .. Len(u) : u[i] = Prefix(s, n)[i]
    BY <1>1, <1>2, <1>3, <1>4, <2>1
  <2> QED BY <1>3, <2>1, <2>2, SeqEqual DEF Packets
<1>5. ASSUME n >= Len(s) PROVE u = s \o Prefix(t, n - Len(s))
  <2> DEFINE v == Prefix(t, n - Len(s))
             w == s \o v
  <2>1. /\ v \in Packets /\ Len(v) = n - Len(s)
        /\ \A i \in 1 .. n - Len(s) : v[i] = t[i]
    <3>1. n - Len(s) \in 0 .. Len(t)
      BY <1>1, <1>5
    <3> QED BY <3>1, Divided
  <2> HIDE DEF v
  <2>2. /\ w \in Packets /\ Len(w) = Len(s) + Len(v)
        /\ \A i \in 1 .. Len(s) + Len(v) : w[i] = IF i <= Len(s) THEN s[i] ELSE v[i - Len(s)]
    BY <2>1, ConcatProperties DEF Packets
  <2> HIDE DEF w
  <2>3. Len(u) = Len(w)
    BY <1>1, <1>3, <2>1, <2>2
  <2>4. ASSUME NEW i \in 1 .. Len(u) PROVE u[i] = w[i]
    <3>1. /\ i \in 1 .. n /\ i \in 1 .. Len(s) + Len(t) /\ i \in 1 .. Len(s) + Len(v)
          /\ u[i] = (s \o t)[i]
      BY <1>1, <1>3, <1>5, <2>1
    <3>2. CASE i <= Len(s)
      BY <1>2, <2>2, <3>1, <3>2
    <3>3. CASE ~(i <= Len(s))
      <4>1. i - Len(s) \in 1 .. n - Len(s)
        BY <1>1, <3>1, <3>3
      <4> QED BY <1>2, <2>1, <2>2, <3>1, <3>3, <4>1
    <3> QED BY <3>2, <3>3
  <2>5. u = w
    BY <1>3, <2>2, <2>3, <2>4, SeqEqual DEF Packets
  <2> QED BY <2>5 DEF w, v
<1> QED BY <1>1, <1>2, <1>4, <1>5 DEF u

\* What of a sequence is in its first packets and what in the rest.
LEMMA CountPrefix ==
  ASSUME NEW s \in Packets, NEW n \in 0 .. Len(s)
  PROVE  /\ count(Prefix(s, n)) \in [Types -> Nat] /\ sum(count(Prefix(s, n))) = n
         /\ count(Suffix(s, n)) \in [Types -> Nat]
         /\ \A k \in Types : /\ count(Suffix(s, n))[k] = count(s)[k] - count(Prefix(s, n))[k]
                             /\ count(Prefix(s, n))[k] <= count(s)[k]
<1> DEFINE u == Prefix(s, n)
           v == Suffix(s, n)
<1>1. u \in Packets /\ Len(u) = n /\ v \in Packets /\ u \o v = s
  BY Divided
<1> HIDE DEF u, v
<1>2. /\ count(u) \in [Types -> Nat] /\ sum(count(u)) = n /\ count(v) \in [Types -> Nat]
      /\ count(s) = plus(count(u), count(v))
  BY <1>1, CountTotal, CountConcat
<1>3. count(u) \in [Types -> Int] /\ count(v) \in [Types -> Int]
  BY <1>2, NatVec
<1>4. ASSUME NEW k \in Types
      PROVE  count(v)[k] = count(s)[k] - count(u)[k] /\ count(u)[k] <= count(s)[k]
  <2>1. count(s)[k] = count(u)[k] + count(v)[k]
    BY <1>2, <1>3, PlusAt
  <2>2. count(u)[k] \in Nat /\ count(v)[k] \in Nat
    BY <1>2
  <2> QED BY <2>1, <2>2
<1> QED BY <1>2, <1>4 DEF u, v

\* The first packets of the rest.
LEMMA CountMiddle ==
  ASSUME NEW s \in Packets, NEW n \in 0 .. Len(s), NEW m \in 0 .. Len(s) - n, NEW k \in Types
  PROVE  count(Prefix(s, n + m))[k] = count(Prefix(s, n))[k] + count(Prefix(Suffix(s, n), m))[k]
<1> DEFINE u == Prefix(s, n)
           v == Suffix(s, n)
<1>1. /\ u \in Packets /\ Len(u) = n /\ v \in Packets /\ Len(v) = Len(s) - n /\ u \o v = s
      /\ Len(s) \in Nat
  BY Divided, LenProperties DEF Packets
<1> HIDE DEF u, v
<1>2. n + m \in 0 .. Len(u) + Len(v) /\ n + m >= Len(u) /\ (n + m) - Len(u) = m
      /\ m \in 0 .. Len(v)
  BY <1>1
<1>3. Prefix(s, n + m) = u \o Prefix(v, m)
  <2>1. Prefix(u \o v, n + m) = u \o Prefix(v, (n + m) - Len(u))
    BY <1>1, <1>2, PrefixOfConcat
  <2> QED BY <1>1, <1>2, <2>1
<1>4. Prefix(v, m) \in Packets
  BY <1>1, <1>2, Divided
<1>5. count(Prefix(s, n + m)) = plus(count(u), count(Prefix(v, m)))
  BY <1>1, <1>3, <1>4, CountConcat
<1>6. count(u) \in [Types -> Int] /\ count(Prefix(v, m)) \in [Types -> Int]
  BY <1>1, <1>4, CountTotal, NatVec
<1>7. plus(count(u), count(Prefix(v, m)))[k] = count(u)[k] + count(Prefix(v, m))[k]
  BY <1>6, PlusAt
<1> QED BY <1>5, <1>7 DEF u, v

-----------------------------------------------------------------------------
(***************************************************************************)
(* The queue and the windows.  As long as the buffer has behaved like a    *)
(* queue, the queue holds what the buffer holds.  As long as it has sent   *)
(* fewer than c packets, too, what of the window is still there are the    *)
(* first packets of the queue.                                             *)
(***************************************************************************)
rest(we, wo) == sum(we) - sum(wo)

QueueInv ==
  fifo =>
    /\ q \in Packets
    /\ count(q) = vC
    /\ away < c => count(Prefix(q, rest(vEnq, vOut))) = minus(vEnq, vOut)

LEMMA QueueInit ==
  ASSUME md = 1, TypedInit, SumInv
  PROVE  QueueInv
<1>1. PICK e \in vec(mk), o \in vec(mo) :
        /\ vC = minus(e, o) /\ vC \in vec(c) /\ vEnq = e /\ vOut = o
        /\ \E s \in orders(e, e) : count(Prefix(s, sum(o))) = o /\ q = Suffix(s, sum(o))
  BY DEF TypedInit
<1>2. PICK s \in orders(e, e) : count(Prefix(s, sum(o))) = o /\ q = Suffix(s, sum(o))
  BY <1>1
<1>3. c \in Nat /\ mk \in Nat /\ md \in Nat /\ mo \in Nat
  BY ParamsAssumption, TypedAssumption
<1>4. /\ e \in [Types -> Int] /\ o \in [Types -> Int] /\ sum(e) \in Nat /\ sum(o) \in Nat
      /\ vC \in [Types -> Int] /\ sum(vC) \in Nat
  BY <1>1, <1>3, VecSum
<1>5. sum(vC) = sum(e) - sum(o)
  BY <1>1, <1>4, Sums
<1>6. s \in Packets /\ Len(s) = sum(e) /\ count(s) = e
  <2>1. s \in [1 .. sum(e) -> Types] /\ count(s) = e
    BY DEF orders
  <2>2. s \in Packets
    <3>1. s \in UNION {[1 .. n -> Types] : n \in Nat}
      BY <1>4, <2>1
    <3> QED BY <3>1, SeqDef DEF Packets
  <2> QED BY <1>4, <2>1, <2>2, CountTotal
<1>7. sum(o) \in 0 .. Len(s)
  BY <1>4, <1>5, <1>6
<1>8. q \in Packets /\ Len(q) = sum(e) - sum(o)
  BY <1>2, <1>6, <1>7, Divided
<1>9. count(q) = vC
  <2>1. count(q) \in [Types -> Int]
    BY <1>8, CountTotal, NatVec
  <2>2. \A k \in Types : count(q)[k] = e[k] - o[k]
    BY <1>2, <1>6, <1>7, CountPrefix
  <2>3. \A k \in Types : vC[k] = e[k] - o[k]
    BY <1>1, <1>4, MinusAt
  <2> QED BY <1>4, <2>1, <2>2, <2>3, VecEqual
<1>10. Prefix(q, rest(vEnq, vOut)) = q
  <2>1. rest(vEnq, vOut) = Len(q)
    BY <1>1, <1>8 DEF rest
  <2> QED BY <1>8, <2>1, SubSeqFull DEF Prefix, Packets
<1> QED BY <1>1, <1>8, <1>9, <1>10 DEF QueueInv

\* What comes is a sequence, which begins with what goes to the window.
LEMMA OrderFacts ==
  ASSUME NEW e \in vec(mk), NEW f, NEW s \in orders(e, f)
  PROVE  /\ s \in Packets /\ Len(s) = sum(e) /\ sum(e) \in Nat /\ count(s) = e
         /\ count(Prefix(s, sum(f))) = f
<1>1. /\ s \in [1 .. sum(e) -> Types] /\ count(s) = e /\ count(Prefix(s, sum(f))) = f
  BY DEF orders
<1>2. sum(e) \in Nat
  BY TypedAssumption, VecSum
<1>3. s \in UNION {[1 .. n -> Types] : n \in Nat}
  BY <1>1, <1>2
<1>4. s \in Packets
  BY <1>3, SeqDef DEF Packets
<1> QED BY <1>1, <1>2, <1>4, CountTotal

\* The packets of the queue and those that come.
LEMMA QueueAndArrivals ==
  ASSUME SumInv, q \in Packets, count(q) = vC,
         NEW e \in vec(mk), NEW s \in Packets, count(s) = e
  PROVE  /\ q \o s \in Packets
         /\ Len(q) = sum(vC) /\ Len(s) = sum(e) /\ Len(q \o s) = sum(vC) + sum(e)
         /\ sum(vC) \in Nat /\ sum(e) \in Nat
         /\ \A k \in Types : count(q \o s)[k] = vC[k] + e[k]
<1>1. /\ vC \in [Types -> Int] /\ e \in [Types -> Int] /\ sum(vC) \in Nat /\ sum(e) \in Nat
  BY ParamsAssumption, TypedAssumption, VecSum DEF SumInv
<1>2. Len(q) = sum(vC) /\ Len(s) = sum(e)
  BY CountTotal
<1>3. q \o s \in Packets /\ count(q \o s) = plus(vC, e)
  BY CountConcat
<1>4. Len(q \o s) = sum(vC) + sum(e)
  BY <1>2, ConcatProperties DEF Packets
<1>5. \A k \in Types : plus(vC, e)[k] = vC[k] + e[k]
  BY <1>1, PlusAt
<1> QED BY <1>1, <1>2, <1>3, <1>4, <1>5

\* The window's part of the queue and of what comes are the first packets of both.
LEMMA WindowFirst ==
  ASSUME SumInv, OrderElements, QueueInv, fifo, away < c,
         NEW e \in vec(mk), NEW se \in splits(vEnq, e),
         NEW s \in orders(e, minus(se, vEnq)), NEW k \in Types
  PROVE  /\ rest(se, vOut) \in 0 .. Len(q \o s)
         /\ count(Prefix(q \o s, rest(se, vOut)))[k] = se[k] - vOut[k]
<1> DEFINE f == minus(se, vEnq)
           all == q \o s
<1>1. c \in Nat \ {0} /\ mk \in Nat
  BY ParamsAssumption, TypedAssumption
<1>2. /\ vC \in [Types -> Int] /\ vEnq \in [Types -> Int] /\ vNxt \in [Types -> Int]
      /\ vOut \in [Types -> Int] /\ e \in [Types -> Int] /\ se \in [Types -> Int]
      /\ sum(vC) \in Nat /\ sum(vEnq) \in Nat /\ sum(vNxt) \in Nat /\ sum(vOut) \in Nat
      /\ sum(e) \in Nat /\ sum(se) \in Nat
  BY <1>1, VecSum DEF SumInv, splits
<1>3. /\ q \in Packets /\ count(q) = vC
      /\ count(Prefix(q, rest(vEnq, vOut))) = minus(vEnq, vOut)
  BY DEF QueueInv
<1>4. s \in Packets /\ count(s) = e /\ count(Prefix(s, sum(f))) = f
  BY OrderFacts
<1>5. /\ all \in Packets
      /\ Len(q) = sum(vC) /\ Len(s) = sum(e) /\ Len(all) = sum(vC) + sum(e)
  BY <1>3, <1>4, QueueAndArrivals
<1>6. \A j \in Types : /\ vC[j] \in Nat /\ vEnq[j] \in Nat /\ vNxt[j] \in Nat
                       /\ vOut[j] \in Nat /\ e[j] \in Nat /\ se[j] \in Nat
  BY <1>1 DEF SumInv, vec, splits
<1>7. \A j \in Types : /\ vC[j] = vEnq[j] + vNxt[j] - vOut[j] /\ vOut[j] <= vEnq[j]
  BY DEF OrderElements, Types
<1>8. sum(vC) = sum(vEnq) + sum(vNxt) - sum(vOut) /\ sum(vOut) <= sum(vEnq)
  BY <1>6, <1>7 DEF sum, Types
<1>9. /\ sum(vNxt) > 0 => sum(vEnq) = c
      /\ sum(se) <= c
      /\ \A j \in Types : vEnq[j] <= se[j]
  BY DEF OrderElements, splits, leq
<1>10. f \in [Types -> Int] /\ sum(f) = sum(se) - sum(vEnq) /\ f[k] = se[k] - vEnq[k]
  BY <1>2, Sums, MinusAt
<1>11. sum(vEnq) <= sum(se) /\ sum(se) <= sum(vEnq) + sum(e)
  <2>1. \A j \in Types : se[j] <= vEnq[j] + e[j]
    <3>1. plus(vEnq, e) \in [Types -> Int]
      BY <1>2, Sums
    <3>2. \A j \in Types : minus(plus(vEnq, e), se)[j] = vEnq[j] + e[j] - se[j]
      BY <1>2, <3>1, PlusAt, MinusAt
    <3>3. \A j \in Types : minus(plus(vEnq, e), se)[j] >= 0
      BY <1>1 DEF splits, vec
    <3> QED BY <1>6, <3>2, <3>3
  <2> QED BY <1>6, <1>9, <2>1 DEF sum, Types
<1> HIDE DEF f, all
<1>12. CASE sum(vNxt) = 0
  <2>1. vNxt[k] = 0
    <3>1. vNxt \in [Types -> Nat]
      BY <1>2, <1>6
    <3>2. vNxt = None
      BY <1>12, <3>1, NatVec
    <3> QED BY <3>2 DEF None
  <2>2. /\ rest(se, vOut) = Len(q) + sum(f) /\ sum(f) \in 0 .. Len(s)
        /\ Len(q) \in Nat /\ Len(s) \in Nat
    <3>1. Len(q) \in Nat /\ Len(s) \in Nat /\ Len(q) = sum(vC) /\ Len(s) = sum(e)
      BY <1>2, <1>5
    <3>2. sum(f) = sum(se) - sum(vEnq) /\ sum(f) \in 0 .. Len(s)
      BY <1>2, <1>10, <1>11, <3>1
    <3>3. sum(vC) = sum(vEnq) - sum(vOut)
      BY <1>2, <1>8, <1>12
    <3>4. rest(se, vOut) = sum(se) - sum(vOut)
      BY DEF rest
    <3>5. rest(se, vOut) = Len(q) + sum(f)
      BY <1>2, <3>1, <3>2, <3>3, <3>4
    <3> QED BY <3>1, <3>2, <3>5
  <2>3. Prefix(q \o s, Len(q) + sum(f)) = q \o Prefix(s, (Len(q) + sum(f)) - Len(q))
    <3>1. /\ Len(q) + sum(f) \in 0 .. Len(q) + Len(s) /\ Len(q) + sum(f) >= Len(q)
      BY <2>2
    <3> QED BY <1>3, <1>4, <3>1, PrefixOfConcat
  <2>4. Prefix(all, rest(se, vOut)) = q \o Prefix(s, sum(f))
    <3>1. (Len(q) + sum(f)) - Len(q) = sum(f)
      BY <2>2
    <3> QED BY <2>2, <2>3, <3>1 DEF all
  <2>5. Prefix(s, sum(f)) \in Packets
    BY <1>4, <2>2, Divided
  <2>6. count(Prefix(all, rest(se, vOut))) = plus(vC, f)
    BY <1>3, <1>4, <2>4, <2>5, CountConcat
  <2>7. plus(vC, f)[k] = vC[k] + f[k]
    BY <1>2, <1>10, PlusAt
  <2>8. vC[k] + f[k] = se[k] - vOut[k]
    BY <1>6, <1>7, <1>10, <2>1
  <2>9. rest(se, vOut) \in 0 .. Len(all)
    BY <1>2, <1>5, <2>2
  <2> QED BY <2>6, <2>7, <2>8, <2>9 DEF all
<1>13. CASE sum(vNxt) > 0
  <2>1. sum(se) = sum(vEnq) /\ sum(se) = c
    BY <1>2, <1>9, <1>11, <1>13
  <2>2. se[k] = vEnq[k]
    BY <1>6, <1>9, <2>1 DEF sum, Types
  <2>3. rest(se, vOut) = rest(vEnq, vOut) /\ rest(vEnq, vOut) \in 0 .. Len(q)
    BY <1>2, <1>5, <1>8, <2>1 DEF rest
  <2>4. Prefix(q \o s, rest(vEnq, vOut)) = Prefix(q, rest(vEnq, vOut))
    <3>1. /\ rest(vEnq, vOut) \in 0 .. Len(q) + Len(s) /\ rest(vEnq, vOut) <= Len(q)
      BY <1>2, <1>5, <2>3
    <3> QED BY <1>3, <1>4, <3>1, PrefixOfConcat
  <2>5. minus(vEnq, vOut)[k] = vEnq[k] - vOut[k]
    BY <1>2, MinusAt
  <2>6. rest(se, vOut) \in 0 .. Len(all)
    BY <1>2, <1>5, <2>3
  <2> QED BY <1>3, <2>2, <2>3, <2>4, <2>5, <2>6 DEF all
<1> QED BY <1>2, <1>12, <1>13

\* A timestep.
LEMMA QueueStep ==
  ASSUME md = 1, SumInv, OrderTypeOK, OrderElements, QueueInv,
         NEW e \in vec(mk), NEW o \in vec(mo), NEW se \in splits(vEnq, e),
         typedWinds(e, o, se, vEnq', vNxt', vOut'), sum(o) <= md,
         vC' = minus(plus(vC, e), o), vC' \in vec(c), historyAfter(e, o),
         SumInv', OrderElements',
         NEW s \in orders(e, minus(se, vEnq)), queueAfter(s, o)
  PROVE  QueueInv'
<1> DEFINE all == q \o s
<1> SUFFICES ASSUME fifo'
             PROVE  /\ q' \in Packets /\ count(q') = vC'
                    /\ away' < c => count(Prefix(q', rest(vEnq', vOut'))) = minus(vEnq', vOut')
  BY DEF QueueInv
<1>1. fifo /\ count(Prefix(all, sum(o))) = o /\ q' = Suffix(all, sum(o))
  BY DEF queueAfter
<1>2. q \in Packets /\ count(q) = vC
  BY <1>1 DEF QueueInv
<1>3. s \in Packets /\ count(s) = e
  BY OrderFacts
<1>4. /\ all \in Packets
      /\ Len(q) = sum(vC) /\ Len(s) = sum(e) /\ Len(all) = sum(vC) + sum(e)
      /\ \A k \in Types : count(all)[k] = vC[k] + e[k]
  BY <1>2, <1>3, QueueAndArrivals
<1>5. c \in Nat \ {0} /\ md \in Nat /\ mo \in Nat /\ mk \in Nat
  BY ParamsAssumption, TypedAssumption
<1>6. /\ vC \in [Types -> Int] /\ vEnq \in [Types -> Int] /\ vNxt \in [Types -> Int]
      /\ vOut \in [Types -> Int] /\ e \in [Types -> Int] /\ se \in [Types -> Int]
      /\ o \in [Types -> Int] /\ vC' \in [Types -> Int]
      /\ vEnq' \in [Types -> Int] /\ vNxt' \in [Types -> Int] /\ vOut' \in [Types -> Int]
  BY <1>5, VecSum DEF SumInv, splits
<1>7. /\ sum(vC) \in Nat /\ sum(vEnq) \in Nat /\ sum(vNxt) \in Nat /\ sum(vOut) \in Nat
      /\ sum(e) \in Nat /\ sum(se) \in Nat /\ sum(o) \in Nat /\ sum(vC') \in Nat
      /\ sum(vEnq') \in Nat /\ sum(vNxt') \in Nat /\ sum(vOut') \in Nat
  BY <1>5, VecSum DEF SumInv, splits
<1>8. \A k \in Types :
        /\ vC[k] \in Nat /\ vEnq[k] \in Nat /\ vNxt[k] \in Nat /\ vOut[k] \in Nat
        /\ e[k] \in Nat /\ o[k] \in Nat /\ se[k] \in Nat /\ vC'[k] = vC[k] + e[k] - o[k]
        /\ vEnq'[k] \in Nat /\ vNxt'[k] \in Nat /\ vOut'[k] \in Nat /\ vC'[k] \in Nat
        /\ vOut'[k] <= vEnq'[k] /\ vEnq[k] <= se[k] /\ se[k] <= vEnq[k] + e[k]
  <2>1. \A k \in Types : k = 0 \/ k = 1 \/ k = 2
    BY DEF Types
  <2>2. /\ \A k \in {0, 1, 2} :
             /\ vC[k] \in Nat /\ vEnq[k] \in Nat /\ vNxt[k] \in Nat /\ vOut[k] \in Nat
             /\ e[k] \in Nat /\ o[k] \in Nat /\ se[k] \in Nat /\ vC'[k] = vC[k] + e[k] - o[k]
             /\ vEnq'[k] \in Nat /\ vNxt'[k] \in Nat /\ vOut'[k] \in Nat
             /\ vOut'[k] <= vEnq'[k]
    BY <1>5, ByElements
  <2>3. \A k \in {0, 1, 2} : vEnq[k] <= se[k] /\ se[k] <= vEnq[k] + e[k]
    BY ByElements DEF Parted
  <2>4. \A k \in {0, 1, 2} : vC'[k] \in Nat
    BY <1>5 DEF vec, Types
  <2> QED BY <2>1, <2>2, <2>3, <2>4
<1>9. sum(vC') = sum(vC) + sum(e) - sum(o)
  BY RemainingOfSums DEF SumInv
<1>10. sum(o) \in 0 .. Len(all)
  BY <1>4, <1>7, <1>9
<1>11. q' \in Packets /\ Len(q') = sum(vC') /\ Len(all) - sum(o) = sum(vC')
  <2>1. Len(all) - sum(o) = sum(vC')
    BY <1>4, <1>7, <1>9
  <2>2. Suffix(all, sum(o)) \in Packets /\ Len(Suffix(all, sum(o))) = Len(all) - sum(o)
    <3> HIDE DEF all
    <3> QED BY <1>4, <1>10, Divided
  <2> QED BY <1>1, <2>1, <2>2
<1>12. count(q') = vC'
  <2>1. count(q') \in [Types -> Int]
    BY <1>11, CountTotal, NatVec
  <2>2. ASSUME NEW k \in Types PROVE count(q')[k] = vC'[k]
    <3>1. count(Suffix(all, sum(o)))[k] = count(all)[k] - count(Prefix(all, sum(o)))[k]
      <4> HIDE DEF all
      <4> QED BY <1>4, <1>10, CountPrefix
    <3>2. count(q')[k] = count(all)[k] - o[k] /\ count(all)[k] = vC[k] + e[k]
      BY <1>1, <1>4, <3>1
    <3> HIDE DEF all
    <3> QED BY <1>8, <3>2
  <2> QED BY <1>6, <2>1, <2>2, VecEqual
<1> HIDE DEF all
<1>13. ASSUME away' < c
       PROVE  count(Prefix(q', rest(vEnq', vOut'))) = minus(vEnq', vOut')
  <2>1. /\ \A k \in Types : vC'[k] = vEnq'[k] + vNxt'[k] - vOut'[k]
        /\ sum(vC') = sum(vEnq') + sum(vNxt') - sum(vOut')
    <3>1. \A k \in Types : vC'[k] = vEnq'[k] + vNxt'[k] - vOut'[k]
      BY <1>13 DEF OrderElements, Types
    <3>2. /\ vC'[0] = vEnq'[0] + vNxt'[0] - vOut'[0]
          /\ vC'[1] = vEnq'[1] + vNxt'[1] - vOut'[1]
          /\ vC'[2] = vEnq'[2] + vNxt'[2] - vOut'[2]
      BY <3>1 DEF Types
    <3>3. \A k \in {0, 1, 2} : /\ vC'[k] \in Nat /\ vEnq'[k] \in Nat
                               /\ vNxt'[k] \in Nat /\ vOut'[k] \in Nat
      BY <1>8 DEF Types
    <3>4. sum(vC') = sum(vEnq') + sum(vNxt') - sum(vOut')
      BY <3>2, <3>3 DEF sum
    <3> QED BY <3>1, <3>4
  <2>2. rest(vEnq', vOut') \in 0 .. sum(vC')
    <3>1. sum(vOut') <= sum(vEnq')
      BY <1>8 DEF sum, Types
    <3> QED BY <1>7, <2>1, <3>1 DEF rest
  <2>3. /\ count(Prefix(q', rest(vEnq', vOut'))) \in [Types -> Int]
        /\ sum(count(Prefix(q', rest(vEnq', vOut')))) = rest(vEnq', vOut')
    BY <1>11, <2>2, CountPrefix, NatVec
  <2>4. minus(vEnq', vOut') \in [Types -> Int]
        /\ \A k \in Types : minus(vEnq', vOut')[k] = vEnq'[k] - vOut'[k]
    BY <1>6, Sums, MinusAt
  <2>5. CASE \A k \in Types : vC'[k] = 0
    <3>1. \A k \in Types : vEnq'[k] - vOut'[k] = 0
      BY <1>8, <2>1, <2>5
    <3>2. rest(vEnq', vOut') = 0
      BY <1>8, <3>1 DEF rest, sum, Types
    <3>3. count(Prefix(q', rest(vEnq', vOut'))) = None
      BY <1>11, <2>2, <2>3, <3>2, CountPrefix, NatVec
    <3>4. \A k \in Types : None[k] = 0
      BY DEF None
    <3>5. \A k \in Types : count(Prefix(q', rest(vEnq', vOut')))[k] = minus(vEnq', vOut')[k]
      BY <2>4, <3>1, <3>3, <3>4
    <3> QED BY <2>3, <2>4, <3>5, VecEqual
  <2>6. CASE ~(\A k \in Types : vC'[k] = 0)
    <3>1. away + sum(o) < c /\ away < c /\ sum(vOut) = away /\ away \in Nat
      <4>1. ~(\A k \in {0, 1, 2} : vC'[k] = 0)
        BY <2>6 DEF Types
      <4>2. /\ away + sum(o) <= c => away' = away + sum(o)
            /\ away + sum(o) > c => away' = c + 1
        BY <4>1, HistoryByElements
      <4>3. away \in Nat
        BY <1>5 DEF OrderTypeOK
      <4>4. away + sum(o) < c /\ away < c
        BY <1>5, <1>7, <1>13, <4>2, <4>3
      <4> QED BY <4>3, <4>4 DEF OrderElements
    <3>2. Kept(e, o, se)
      <4> SUFFICES ASSUME Renewed(e, o, se) PROVE FALSE
        BY ByElements
      <4>1. \A k \in Types : /\ se[k] <= vOut[k] + o[k] /\ vNxt'[k] = 0
                             /\ vEnq'[k] = vEnq[k] + e[k] - se[k]
                             /\ vOut'[k] = vOut[k] + o[k] - se[k]
        BY DEF Renewed, Types
      <4>2. sum(se) <= sum(vOut) + sum(o)
        BY <1>8, <4>1 DEF sum, Types
      <4>3. sum(se) < c
        BY <1>5, <1>7, <3>1, <4>2
      <4>4. \A k \in Types : vEnq'[k] = 0
        <5>1. vEnq[0] + e[0] - se[0] + (vEnq[1] + e[1] - se[1]) + (vEnq[2] + e[2] - se[2]) <= 0
          <6>1. se[0] + se[1] + se[2] # c
            BY <1>5, <1>7, <4>3 DEF sum
          <6> QED BY <1>8, <6>1, ByElements DEF Parted, Types
        <5>2. vEnq'[0] + vEnq'[1] + vEnq'[2] <= 0
          BY <4>1, <5>1 DEF Types
        <5>3. vEnq'[0] \in Nat /\ vEnq'[1] \in Nat /\ vEnq'[2] \in Nat
          BY <1>8 DEF Types
        <5>4. vEnq'[0] = 0 /\ vEnq'[1] = 0 /\ vEnq'[2] = 0
          BY <5>2, <5>3
        <5> QED BY <5>4 DEF Types
      <4>5. \A k \in Types : vC'[k] = 0
        BY <1>8, <2>1, <4>1, <4>4
      <4> QED BY <2>6, <4>5
    <3>3. \A k \in Types : vEnq'[k] = se[k] /\ vOut'[k] = vOut[k] + o[k]
      BY <3>2 DEF Kept, Types
    <3>4. sum(vEnq') = sum(se) /\ sum(vOut') = sum(vOut) + sum(o)
      BY <1>8, <3>3 DEF sum, Types
    <3>5. sum(o) + rest(vEnq', vOut') = rest(se, vOut)
      BY <1>7, <3>4 DEF rest
    <3>6. ASSUME NEW k \in Types
          PROVE  count(Prefix(q', rest(vEnq', vOut')))[k] = minus(vEnq', vOut')[k]
      <4>1. count(Prefix(all, rest(se, vOut)))[k] = se[k] - vOut[k]
        BY <1>1, <3>1, WindowFirst DEF all
      <4>2. rest(vEnq', vOut') \in 0 .. Len(all) - sum(o)
        BY <1>11, <2>2
      <4>3. count(Prefix(all, sum(o) + rest(vEnq', vOut')))[k]
              = count(Prefix(all, sum(o)))[k] + count(Prefix(q', rest(vEnq', vOut')))[k]
        BY <1>1, <1>4, <1>10, <4>2, CountMiddle
      <4>4. se[k] - vOut[k] = o[k] + count(Prefix(q', rest(vEnq', vOut')))[k]
        BY <1>1, <3>5, <4>1, <4>3
      <4>5. count(Prefix(q', rest(vEnq', vOut')))[k] \in Int
        BY <2>3
      <4>6. minus(vEnq', vOut')[k] = se[k] - (vOut[k] + o[k])
        BY <2>4, <3>3
      <4>7. se[k] \in Int /\ vOut[k] \in Int /\ o[k] \in Int
        BY <1>8
      <4> QED BY <4>4, <4>5, <4>6, <4>7
    <3> QED BY <2>3, <2>4, <3>6, VecEqual
  <2> QED BY <2>5, <2>6
<1> QED BY <1>11, <1>12, <1>13

-----------------------------------------------------------------------------
(***************************************************************************)
(* What a queue may do.  The facts of FifoRuns, one by one: what fits is   *)
(* taken, the window takes the first of it that it has room for, and what  *)
(* leaves comes from the window.                                           *)
(***************************************************************************)

\* A buffer that has behaved like a queue and has sent fewer than c packets.
Queueing == SumInv /\ OrderTypeOK /\ OrderElements /\ QueueInv /\ sum(vC) <= c /\ fifo /\ away < c

\* Its windows by number.
LEMMA QueueingSums ==
  ASSUME Queueing
  PROVE  /\ c \in Nat \ {0} /\ mk \in Nat
         /\ \A k \in Types : /\ vC[k] \in Nat /\ vEnq[k] \in Nat /\ vNxt[k] \in Nat
                             /\ vOut[k] \in Nat /\ vOut[k] <= vEnq[k]
         /\ vC \in [Types -> Int] /\ vEnq \in [Types -> Int]
         /\ vNxt \in [Types -> Int] /\ vOut \in [Types -> Int]
         /\ sum(vC) \in Nat /\ sum(vEnq) \in Nat /\ sum(vNxt) \in Nat /\ sum(vOut) \in Nat
         /\ sum(vC) = sum(vEnq) + sum(vNxt) - sum(vOut)
         /\ sum(vC) <= c /\ sum(vEnq) <= c /\ sum(vOut) <= sum(vEnq) /\ sum(vOut) < c
         /\ sum(vNxt) > 0 => sum(vEnq) = c
         /\ q \in Packets /\ count(q) = vC /\ Len(q) = sum(vC)
<1>1. c \in Nat \ {0} /\ mk \in Nat
  BY ParamsAssumption, TypedAssumption
<1>2. /\ vC \in [Types -> Int] /\ vEnq \in [Types -> Int]
      /\ vNxt \in [Types -> Int] /\ vOut \in [Types -> Int]
      /\ sum(vC) \in Nat /\ sum(vEnq) \in Nat /\ sum(vNxt) \in Nat /\ sum(vOut) \in Nat
  BY <1>1, VecSum DEF Queueing, SumInv
<1>3. \A k \in Types : /\ vC[k] \in Nat /\ vEnq[k] \in Nat /\ vNxt[k] \in Nat /\ vOut[k] \in Nat
  BY <1>1 DEF Queueing, SumInv, vec
<1>4. \A k \in Types : vC[k] = vEnq[k] + vNxt[k] - vOut[k] /\ vOut[k] <= vEnq[k]
  BY DEF Queueing, OrderElements, Types
<1>5. /\ sum(vC) = sum(vEnq) + sum(vNxt) - sum(vOut) /\ sum(vOut) <= sum(vEnq)
  <2>1. /\ vC[0] = vEnq[0] + vNxt[0] - vOut[0] /\ vOut[0] <= vEnq[0]
        /\ vC[1] = vEnq[1] + vNxt[1] - vOut[1] /\ vOut[1] <= vEnq[1]
        /\ vC[2] = vEnq[2] + vNxt[2] - vOut[2] /\ vOut[2] <= vEnq[2]
    BY <1>4 DEF Types
  <2>2. \A k \in {0, 1, 2} : /\ vC[k] \in Nat /\ vEnq[k] \in Nat
                             /\ vNxt[k] \in Nat /\ vOut[k] \in Nat
    BY <1>3 DEF Types
  <2> QED BY <2>1, <2>2 DEF sum
<1>6. /\ sum(vC) <= c /\ sum(vEnq) <= c /\ (sum(vNxt) > 0 => sum(vEnq) = c)
      /\ sum(vOut) = away /\ away < c
  BY DEF Queueing, OrderElements
<1>7. q \in Packets /\ count(q) = vC
  BY DEF Queueing, QueueInv
<1>8. Len(q) = sum(vC)
  BY <1>7, CountTotal
<1> QED BY <1>1, <1>2, <1>3, <1>4, <1>5, <1>6, <1>7, <1>8

\* What fits is taken.
LEMMA Taken ==
  ASSUME Queueing, NEW s \in Packets, Len(s) <= me, \A k \in Types : count(s)[k] <= mk,
         NEW r, r = Prefix(s, Least(Len(s), c - Len(q)))
  PROVE  /\ r \in Packets /\ count(r) \in vec(mk) /\ sum(count(r)) = Len(r)
         /\ Len(r) \in Nat /\ Len(s) - Len(r) \in 0 .. me /\ Len(s) \in 0 .. me
         /\ sum(vC) + Len(r) <= c
         /\ Len(s) - Len(r) > 0 => sum(vC) + Len(r) = c
<1> DEFINE l == Least(Len(s), c - Len(q))
<1>1. /\ c \in Nat /\ mk \in Nat /\ sum(vC) \in Nat /\ sum(vC) <= c /\ Len(q) = sum(vC)
  BY QueueingSums
<1>2. Len(s) \in Nat /\ me \in Nat
  BY ParamsAssumption, LenProperties DEF Packets
<1>3. /\ l \in 0 .. Len(s) /\ sum(vC) + l <= c
      /\ Len(s) - l > 0 => sum(vC) + l = c
  BY <1>1, <1>2 DEF Least
<1>4. r = Prefix(s, l)
  OBVIOUS
<1> HIDE DEF l
<1>5. r \in Packets /\ Len(r) = l
  BY <1>3, <1>4, Divided
<1>6. count(r) \in [Types -> Nat] /\ sum(count(r)) = Len(r)
  BY <1>5, CountTotal
<1>7. ASSUME NEW k \in Types PROVE count(r)[k] \in 0 .. mk
  <2>1. count(r)[k] <= count(s)[k]
    BY <1>3, <1>4, CountPrefix
  <2>2. count(s)[k] \in Nat /\ count(r)[k] \in Nat
    BY <1>6, CountTotal
  <2>3. count(s)[k] <= mk
    OBVIOUS
  <2> QED BY <1>1, <2>1, <2>2, <2>3
<1>8. count(r) \in vec(mk)
  <2>1. count(r) = [k \in Types |-> count(r)[k]]
    BY <1>6
  <2> QED BY <1>7, <2>1 DEF vec
<1>9. Len(s) - Len(r) \in 0 .. me /\ Len(s) \in 0 .. me /\ Len(r) \in Nat
  BY <1>2, <1>3, <1>5
<1> QED BY <1>3, <1>5, <1>6, <1>8, <1>9

\* What leaves is of the queue and of what was taken.
LEMMA Sent ==
  ASSUME md = 1, Queueing, NEW r \in Packets, count(r) \in vec(mk), sum(vC) + Len(r) <= c,
         NEW n \in 0 .. Least(md, Len(q \o r)), NEW o, o = count(Prefix(q \o r, n))
  PROVE  /\ o \in vec(mo) /\ sum(o) = n /\ sum(o) <= md
         /\ left(vC, count(r), o) \in vec(c)
         /\ sum(left(vC, count(r), o)) = sum(vC) + Len(r) - n
         /\ sum(vC) + Len(r) - n \in 0 .. c
<1> DEFINE all == q \o r
           e == count(r)
           w == left(vC, e, o)
<1>1. /\ c \in Nat /\ mk \in Nat /\ sum(vC) \in Nat /\ vC \in [Types -> Int]
      /\ q \in Packets /\ count(q) = vC
  BY QueueingSums
<1>2. /\ all \in Packets /\ Len(r) = sum(e) /\ Len(all) = sum(vC) + sum(e) /\ sum(e) \in Nat
      /\ \A k \in Types : count(all)[k] = vC[k] + e[k]
  BY <1>1, QueueAndArrivals DEF Queueing
<1>3. /\ n \in 0 .. Len(all) /\ n \in 0 .. md /\ md \in Nat /\ mo \in Nat \ {0}
  BY <1>2, TypedAssumption DEF Least
<1> HIDE DEF all
<1>4. /\ o \in [Types -> Nat] /\ sum(o) = n
  BY <1>3, CountPrefix, <1>2 DEF all
<1>5. o \in vec(mo)
  <2>1. \A k \in Types : o[k] \in 0 .. mo
    <3>1. \A k \in Types : o[k] \in Nat /\ o[k] <= sum(o)
      BY <1>4, NatVec
    <3> QED BY <1>3, <1>4, <3>1
  <2>2. o = [k \in Types |-> o[k]]
    BY <1>4
  <2> QED BY <2>1, <2>2 DEF vec
<1>6. e \in [Types -> Int] /\ o \in [Types -> Int]
  BY <1>4, CountTotal, NatVec
<1>7. w \in [Types -> Int] /\ sum(w) = sum(vC) + sum(e) - sum(o)
  <2>1. plus(vC, e) \in [Types -> Int] /\ sum(plus(vC, e)) = sum(vC) + sum(e)
    BY <1>1, <1>6, Sums
  <2>2. w \in [Types -> Int] /\ sum(w) = sum(plus(vC, e)) - sum(o)
    BY <1>6, <2>1, Sums DEF left
  <2>3. sum(vC) \in Int /\ sum(e) \in Int /\ sum(o) \in Int
    BY <1>1, <1>6, Sums
  <2> HIDE DEF w, e
  <2> QED BY <2>1, <2>2, <2>3
<1>8. ASSUME NEW k \in Types PROVE w[k] \in Nat
  <2>1. plus(vC, e) \in [Types -> Int] /\ plus(vC, e)[k] = vC[k] + e[k]
    BY <1>1, <1>6, Sums, PlusAt
  <2>2. w[k] = plus(vC, e)[k] - o[k]
    BY <1>6, <2>1, MinusAt DEF left
  <2>3. count(Suffix(all, n))[k] = count(all)[k] - count(Prefix(all, n))[k]
    BY <1>2, <1>3, CountPrefix
  <2>4. count(Suffix(all, n))[k] \in Nat
    BY <1>2, <1>3, CountPrefix
  <2>5. count(all)[k] = vC[k] + e[k] /\ o = count(Prefix(all, n))
    BY <1>2 DEF all
  <2> HIDE DEF w, e
  <2> QED BY <2>1, <2>2, <2>3, <2>4, <2>5
<1> HIDE DEF w, e
<1>9. sum(w) = sum(vC) + Len(r) - n /\ sum(vC) + Len(r) - n \in 0 .. c
  BY <1>1, <1>2, <1>3, <1>4, <1>7
<1>10. w \in vec(c)
  <2>1. w \in [Types -> Nat]
    <3>1. w = [k \in Types |-> w[k]]
      BY <1>7
    <3> QED BY <1>8, <3>1
  <2>2. \A k \in Types : w[k] \in Nat /\ w[k] <= sum(w)
    BY <2>1, NatVec
  <2>3. \A k \in Types : w[k] \in 0 .. c
    BY <1>1, <1>9, <2>2
  <2>4. w = [k \in Types |-> w[k]]
    BY <2>1
  <2> QED BY <2>3, <2>4 DEF vec
<1> QED BY <1>3, <1>4, <1>5, <1>9, <1>10 DEF w, e

\* The constraints of the buffer allow it.
LEMMA BufferAllows ==
  ASSUME md = 1, Queueing, NEW s \in Packets, Len(s) <= me, \A k \in Types : count(s)[k] <= mk,
         NEW r, r = Prefix(s, Least(Len(s), c - Len(q))),
         NEW n \in 0 .. Least(md, Len(q \o r)), NEW o, o = count(Prefix(q \o r, n))
  PROVE  \E b \in [Bufs -> BOOLEAN] : typedBuffer(vC, count(r), Len(s) - Len(r), o, b)
<1> DEFINE e == count(r)
           d == Len(s) - Len(r)
           w == left(vC, e, o)
<1>1. /\ c \in Nat \ {0} /\ sum(vC) \in Nat
  BY QueueingSums
<1>2. /\ r \in Packets /\ e \in vec(mk) /\ sum(e) = Len(r)
      /\ Len(r) \in Nat /\ d \in 0 .. me /\ Len(s) \in 0 .. me
      /\ sum(vC) + Len(r) <= c /\ (d > 0 => sum(vC) + Len(r) = c)
  BY Taken
<1>3. /\ sum(o) = n /\ sum(o) <= md /\ w \in vec(c)
      /\ sum(w) = sum(vC) + Len(r) - n /\ sum(vC) + Len(r) - n \in 0 .. c
  BY <1>2, Sent
<1> HIDE DEF e, w
<1>4. me \in Nat /\ MAX_I \in Nat /\ me <= MAX_I /\ Bufs = {0}
  BY ParamsAssumption, TypedAssumption DEF Bufs
<1>5. sum(e) + d = Len(s) /\ sum(e) + d \in 0 .. MAX_I /\ sum(e) \in 0 .. me
  BY <1>2, <1>4
<1> DEFINE b == [i \in Bufs |-> backlogged(sum(vC), sum(e))]
<1>6. b \in [Bufs -> BOOLEAN]
  BY DEF backlogged
<1>7. arrivals(The(sum(vC)), The(sum(e) + d), The(sum(e)), The(d), b)
  <2>1. /\ The(sum(e) + d) \in [Bufs -> 0 .. MAX_I] /\ The(sum(e)) \in [Bufs -> 0 .. me]
    BY <1>5 DEF The
  <2>2. \A i \in Bufs : enqs(The(sum(vC))[i], The(sum(e))[i])
    BY <1>1, <1>2 DEF enqs, The
  <2>3. b = [i \in Bufs |-> backlogged(The(sum(vC))[i], The(sum(e))[i])]
    BY DEF The
  <2>4. The(d) = [i \in Bufs |-> enq_deq_sum(The(sum(e) + d)[i], The(sum(e))[i])]
    <3>1. d = (sum(e) + d) - sum(e)
      BY <1>2
    <3>2. The(d) = [i \in Bufs |-> (sum(e) + d) - sum(e)]
      BY <3>1 DEF The
    <3> HIDE DEF d
    <3> QED BY <3>2 DEF The, enq_deq_sum
  <2>5. \A i \in Bufs : The(d)[i] \in 0 .. me
    BY <1>2 DEF The
  <2>6. drops(sum(vC), sum(e), d, backlogged(sum(vC), sum(e)))
    <3>1. d \in Nat /\ sum(e) \in Nat
      BY <1>2, <1>4
    <3>2. d > 0 => sum(vC) + sum(e) = c
      BY <1>2
    <3> HIDE DEF d
    <3> QED BY <1>1, <3>1, <3>2 DEF drops, backlogged
  <2>7. \A i \in Bufs : drops(The(sum(vC))[i], The(sum(e))[i], The(d)[i], b[i])
    BY <2>6 DEF The
  <2> HIDE DEF b, d
  <2> QED BY <2>1, <2>2, <2>3, <2>4, <2>5, <2>7 DEF arrivals
<1>8. departures(The(sum(vC)), The(sum(e)), The(sum(o)), The(sum(w)))
  <2>1. sum(w) = sum(vC) + sum(e) - sum(o) /\ sum(vC) + sum(e) - sum(o) \in 0 .. c
    BY <1>2, <1>3
  <2> QED BY <2>1 DEF departures, remaining, The
<1> HIDE DEF d, b
<1>9. typedBuffer(vC, e, d, o, b)
  BY <1>3, <1>7, <1>8 DEF typedBuffer, w
<1> QED BY <1>6, <1>9 DEF e, d

\* The window takes the first of what comes, as many as it has room for.
LEMMA WindowTakes ==
  ASSUME Queueing, NEW r \in Packets, count(r) \in vec(mk), sum(vC) + Len(r) <= c
  PROVE  \E se \in splits(vEnq, count(r)) : r \in orders(count(r), minus(se, vEnq))
<1> DEFINE e == count(r)
           g == Least(Len(r), c - sum(vEnq))
           f == count(Prefix(r, g))
           h == count(Suffix(r, g))
           se == plus(vEnq, f)
           sn == minus(plus(vEnq, e), se)
<1>1. /\ c \in Nat \ {0} /\ vEnq \in [Types -> Int]
      /\ \A k \in Types : vEnq[k] \in Nat
      /\ sum(vC) \in Nat /\ sum(vEnq) \in Nat /\ sum(vNxt) \in Nat /\ sum(vOut) \in Nat
      /\ sum(vC) = sum(vEnq) + sum(vNxt) - sum(vOut) /\ sum(vEnq) <= c /\ sum(vOut) < c
  BY QueueingSums
<1>2. e \in [Types -> Nat] /\ sum(e) = Len(r) /\ Len(r) \in Nat
  BY CountTotal, LenProperties DEF Packets
<1>3. /\ g \in 0 .. Len(r) /\ sum(vEnq) + g <= c
      /\ g < Len(r) => sum(vEnq) + g = c
  BY <1>1, <1>2 DEF Least
<1> HIDE DEF g
<1>4. /\ f \in [Types -> Nat] /\ sum(f) = g /\ h \in [Types -> Nat]
  BY <1>3, CountPrefix
<1>5. \A k \in Types : h[k] = e[k] - f[k]
  BY <1>3, CountPrefix
<1> HIDE DEF e, f, h
<1>6. e \in [Types -> Int] /\ f \in [Types -> Int] /\ h \in [Types -> Int]
  BY <1>2, <1>4
<1>7. se \in [Types -> Int] /\ sum(se) = sum(vEnq) + g
  BY <1>1, <1>4, <1>6, Sums
<1>8. ASSUME NEW k \in Types PROVE se[k] = vEnq[k] + f[k] /\ vEnq[k] \in Nat /\ f[k] \in Nat
  BY <1>1, <1>4, <1>6, PlusAt
<1>9. sn \in [Types -> Int] /\ sum(sn) = Len(r) - g
  <2>1. plus(vEnq, e) \in [Types -> Int] /\ sum(plus(vEnq, e)) = sum(vEnq) + sum(e)
    BY <1>1, <1>6, Sums
  <2>2. sn \in [Types -> Int] /\ sum(sn) = sum(plus(vEnq, e)) - sum(se)
    BY <1>7, <2>1, Sums
  <2> HIDE DEF sn, se
  <2> QED BY <1>1, <1>2, <1>3, <1>7, <2>1, <2>2
<1>10. ASSUME NEW k \in Types PROVE sn[k] = h[k] /\ h[k] \in Nat
  <2>1. plus(vEnq, e) \in [Types -> Int] /\ plus(vEnq, e)[k] = vEnq[k] + e[k]
    BY <1>1, <1>6, Sums, PlusAt
  <2>2. sn[k] = plus(vEnq, e)[k] - se[k]
    BY <1>7, <2>1, MinusAt
  <2>3. e[k] \in Nat /\ h[k] \in Nat /\ h[k] = e[k] - f[k]
    BY <1>2, <1>4, <1>5
  <2> HIDE DEF sn, se
  <2> QED BY <1>8, <2>1, <2>2, <2>3
<1> HIDE DEF se, sn
<1>11. se \in vec(c)
  <2>1. \A k \in Types : se[k] \in Nat
    BY <1>8
  <2>2. se = [k \in Types |-> se[k]]
    BY <1>7
  <2>3. se \in [Types -> Nat]
    BY <2>1, <2>2
  <2>4. \A k \in Types : se[k] \in 0 .. c
    <3>1. \A k \in Types : se[k] <= sum(se)
      BY <2>3, NatVec
    <3> QED BY <1>1, <1>3, <1>7, <2>1, <3>1
  <2> QED BY <2>2, <2>4 DEF vec
<1>12. Len(r) - g \in 0 .. c - 1
  <2>1. c \in Nat /\ Len(r) \in Nat /\ g \in 0 .. Len(r) /\ sum(vEnq) \in Nat /\ c > 0
    BY <1>1, <1>2, <1>3
  <2>2. CASE g = Len(r)
    BY <2>1, <2>2
  <2>3. CASE g < Len(r)
    <3>1. sum(vEnq) + g = c
      BY <1>3, <2>3
    <3>2. /\ sum(vNxt) \in Nat /\ sum(vOut) \in Nat /\ sum(vOut) < c
          /\ sum(vEnq) + sum(vNxt) - sum(vOut) + Len(r) <= c
      BY <1>1
    <3> QED BY <2>1, <2>3, <3>1, <3>2
  <2> QED BY <2>1, <2>2, <2>3
<1>13. sn \in vec(c)
  <2>1. \A k \in Types : sn[k] \in Nat
    BY <1>10
  <2>2. sn = [k \in Types |-> sn[k]]
    BY <1>9
  <2>3. sn \in [Types -> Nat]
    BY <2>1, <2>2
  <2>4. \A k \in Types : sn[k] \in 0 .. c
    <3>1. \A k \in Types : sn[k] <= sum(sn)
      BY <2>3, NatVec
    <3> QED BY <1>1, <1>9, <1>12, <2>1, <3>1
  <2> QED BY <2>2, <2>4 DEF vec
<1>14. leq(vEnq, se)
  BY <1>8 DEF leq
<1>15. sum(se) <= c /\ sum(sn) <= c - 1 /\ (sum(sn) > 0 => sum(se) = c)
  BY <1>1, <1>2, <1>3, <1>7, <1>9, <1>12
<1>16. se \in splits(vEnq, e)
  BY <1>11, <1>13, <1>14, <1>15 DEF splits, sn
<1>17. minus(se, vEnq) = f
  <2>1. minus(se, vEnq) \in [Types -> Int]
    BY <1>1, <1>7, Sums
  <2>2. ASSUME NEW k \in Types PROVE minus(se, vEnq)[k] = f[k]
    <3>1. minus(se, vEnq)[k] = se[k] - vEnq[k]
      BY <1>1, <1>7, MinusAt
    <3> QED BY <1>8, <3>1
  <2> QED BY <1>6, <2>1, <2>2, VecEqual
<1>18. r \in orders(e, f)
  <2>1. r \in [1 .. sum(e) -> Types]
    BY <1>2, LenProperties DEF Packets
  <2>2. count(r) = e /\ count(Prefix(r, sum(f))) = f
    BY <1>4 DEF e, f
  <2> QED BY <2>1, <2>2 DEF orders
<1> QED BY <1>16, <1>17, <1>18 DEF e

\* What leaves first is of the window.
LEMMA LeavesWindow ==
  ASSUME md = 1, Queueing, NEW e \in vec(mk), NEW se \in splits(vEnq, e),
         NEW r \in orders(e, minus(se, vEnq)), NEW n \in 0 .. Least(md, Len(q \o r)),
         NEW k \in Types
  PROVE  vOut[k] + count(Prefix(q \o r, n))[k] <= se[k]
<1> DEFINE all == q \o r
           z == rest(se, vOut)
<1>1. /\ c \in Nat \ {0} /\ mk \in Nat
      /\ vEnq \in [Types -> Int] /\ vOut \in [Types -> Int]
      /\ sum(vC) \in Nat /\ sum(vEnq) \in Nat /\ sum(vNxt) \in Nat /\ sum(vOut) \in Nat
      /\ sum(vC) = sum(vEnq) + sum(vNxt) - sum(vOut)
      /\ sum(vOut) <= sum(vEnq) /\ sum(vOut) < c
      /\ sum(vNxt) > 0 => sum(vEnq) = c
      /\ q \in Packets /\ count(q) = vC
  BY QueueingSums
<1>2. r \in Packets /\ count(r) = e
  BY OrderFacts
<1>3. /\ all \in Packets /\ Len(all) = sum(vC) + sum(e) /\ sum(e) \in Nat
  BY <1>1, <1>2, QueueAndArrivals DEF Queueing
<1>4. z \in 0 .. Len(all) /\ count(Prefix(all, z))[k] = se[k] - vOut[k]
  BY WindowFirst DEF Queueing
<1>5. n \in 0 .. Len(all) /\ n \in 0 .. 1
  BY <1>3 DEF Least
<1>6. n <= z
  <2> SUFFICES ASSUME n > z PROVE FALSE
    BY <1>3, <1>4, <1>5
  <2>1. z = 0 /\ Len(all) > 0
    BY <1>3, <1>4, <1>5
  <2>2. /\ se \in [Types -> Int] /\ sum(se) \in Nat
    BY <1>1, VecSum DEF splits
  <2>3. sum(se) = sum(vOut)
    BY <1>1, <2>1, <2>2 DEF rest
  <2>4. sum(minus(plus(vEnq, e), se)) = sum(vEnq) + sum(e) - sum(se)
    <3>1. e \in [Types -> Int]
      BY <1>1, VecSum
    <3>2. plus(vEnq, e) \in [Types -> Int] /\ sum(plus(vEnq, e)) = sum(vEnq) + sum(e)
      BY <1>1, <3>1, Sums
    <3>3. sum(minus(plus(vEnq, e), se)) = sum(plus(vEnq, e)) - sum(se)
      BY <2>2, <3>2, Sums
    <3> QED BY <1>1, <1>3, <2>2, <3>2, <3>3
  <2>5. sum(minus(plus(vEnq, e), se)) > 0 => sum(se) = c
    BY DEF splits
  <2>6. sum(e) = 0 /\ sum(vEnq) = sum(vOut)
    <3>1. /\ c \in Nat /\ sum(vEnq) \in Nat /\ sum(vOut) \in Nat /\ sum(e) \in Nat
          /\ sum(vOut) <= sum(vEnq) /\ sum(vOut) < c
      BY <1>1, <1>3
    <3>2. sum(vEnq) + sum(e) - sum(vOut) > 0 => sum(vOut) = c
      BY <2>3, <2>4, <2>5
    <3> QED BY <3>1, <3>2
  <2>7. sum(vNxt) > 0
    BY <1>1, <1>3, <2>1, <2>6
  <2> QED BY <1>1, <2>6, <2>7
<1> HIDE DEF all, z
<1>7. z - n \in 0 .. Len(all) - n /\ n + (z - n) = z
  BY <1>3, <1>4, <1>5, <1>6
<1>8. count(Prefix(all, z))[k]
        = count(Prefix(all, n))[k] + count(Prefix(Suffix(all, n), z - n))[k]
  <2>1. count(Prefix(all, n + (z - n)))[k]
          = count(Prefix(all, n))[k] + count(Prefix(Suffix(all, n), z - n))[k]
    BY <1>3, <1>5, <1>7, CountMiddle
  <2> QED BY <1>7, <2>1
<1>9. count(Prefix(Suffix(all, n), z - n))[k] \in Nat
  <2>1. Suffix(all, n) \in Packets /\ Len(Suffix(all, n)) = Len(all) - n
    BY <1>3, <1>5, Divided
  <2>2. z - n \in 0 .. Len(Suffix(all, n))
    BY <1>7, <2>1
  <2> QED BY <2>1, <2>2, CountPrefix
<1>10. count(Prefix(all, n))[k] \in Nat
  BY <1>3, <1>5, CountPrefix
<1>11. se[k] \in Int /\ vOut[k] \in Int
  BY <1>1, VecSum DEF splits
<1>12. vOut[k] + count(Prefix(all, n))[k] <= se[k]
  BY <1>4, <1>8, <1>9, <1>10, <1>11
<1> QED BY <1>12 DEF all

\* The constraints of the windows allow it.
LEMMA WindowsAllow ==
  ASSUME md = 1, Queueing, NEW e \in vec(mk), NEW se \in splits(vEnq, e),
         NEW r \in orders(e, minus(se, vEnq)), NEW n \in 0 .. Least(md, Len(q \o r)),
         sum(vC) + sum(e) <= c, NEW o \in vec(mo), o = count(Prefix(q \o r, n))
  PROVE  windowsAllow(e, o, se)
<1> DEFINE sn == minus(plus(vEnq, e), se)
           to == plus(vOut, o)
           wn == plus(vNxt, sn)
           wo == minus(to, se)
<1>0. mo \in Nat
  BY TypedAssumption
<1>1. /\ c \in Nat \ {0} /\ mk \in Nat /\ md \in Nat
      /\ vEnq \in [Types -> Int] /\ vOut \in [Types -> Int] /\ vNxt \in [Types -> Int]
      /\ \A k \in Types : vOut[k] \in Nat /\ vNxt[k] \in Nat
      /\ sum(vC) \in Nat /\ sum(vEnq) \in Nat /\ sum(vNxt) \in Nat /\ sum(vOut) \in Nat
      /\ sum(vC) = sum(vEnq) + sum(vNxt) - sum(vOut)
      /\ sum(vC) <= c /\ sum(vOut) <= sum(vEnq) /\ sum(vOut) < c
      /\ sum(vNxt) > 0 => sum(vEnq) = c
  BY QueueingSums
<1>2. /\ se \in vec(c) /\ sn \in vec(c) /\ sum(se) <= c /\ sum(sn) <= c - 1
      /\ sum(sn) > 0 => sum(se) = c
  BY DEF splits
<1>3. /\ e \in [Types -> Int] /\ o \in [Types -> Int] /\ se \in [Types -> Int]
      /\ sn \in [Types -> Int]
      /\ sum(e) \in Nat /\ sum(se) \in Nat /\ sum(sn) \in Nat
  <2> HIDE DEF sn
  <2>1. e \in [Types -> Int] /\ sum(e) \in Nat
    BY <1>1, VecSum
  <2>2. o \in [Types -> Int]
    BY <1>0, VecSum
  <2>3. se \in [Types -> Int] /\ sum(se) \in Nat
    BY <1>1, <1>2, VecSum
  <2>4. sn \in [Types -> Int] /\ sum(sn) \in Nat
    BY <1>1, <1>2, VecSum
  <2> QED BY <2>1, <2>2, <2>3, <2>4
<1>4. \A k \in Types : o[k] \in Nat /\ se[k] \in 0 .. c /\ sn[k] \in 0 .. c
  <2> HIDE DEF sn
  <2>1. \A k \in Types : o[k] \in Nat
    <3>1. o \in [Types -> 0 .. mo]
      BY DEF vec
    <3> QED BY <1>0, <3>1
  <2>2. \A k \in Types : se[k] \in 0 .. c /\ sn[k] \in 0 .. c
    BY <1>2 DEF vec
  <2> QED BY <2>1, <2>2
<1>5. sum(sn) = sum(vEnq) + sum(e) - sum(se)
  <2>1. plus(vEnq, e) \in [Types -> Int] /\ sum(plus(vEnq, e)) = sum(vEnq) + sum(e)
    BY <1>1, <1>3, Sums
  <2>2. sum(sn) = sum(plus(vEnq, e)) - sum(se)
    BY <1>3, <2>1, Sums
  <2> HIDE DEF sn
  <2> QED BY <1>1, <1>3, <2>1, <2>2
<1> HIDE DEF sn
<1>6. to \in [Types -> Int] /\ wn \in [Types -> Int] /\ sum(wn) = sum(vNxt) + sum(sn)
  BY <1>1, <1>3, Sums
<1>7. \A k \in Types : to[k] = vOut[k] + o[k] /\ wn[k] = vNxt[k] + sn[k]
  BY <1>1, <1>3, PlusAt
<1>8. \A k \in Types : to[k] \in 0 .. c /\ to[k] <= se[k]
  <2>1. ASSUME NEW k \in Types PROVE to[k] \in 0 .. c /\ to[k] <= se[k]
    <3>1. vOut[k] + o[k] <= se[k]
      BY LeavesWindow
    <3>2. to[k] = vOut[k] + o[k]
      BY <1>7
    <3>3. vOut[k] \in Nat /\ o[k] \in Nat /\ se[k] \in Nat /\ se[k] <= c /\ c \in Nat
      BY <1>1, <1>4
    <3> HIDE DEF to
    <3>4. vOut[k] + o[k] \in 0 .. c
      BY <3>1, <3>3
    <3> QED BY <3>1, <3>2, <3>4
  <2> QED BY <2>1
<1>9. sum(to) <= 2 * c
  <2>1. leq(to, se)
    BY <1>8 DEF leq
  <2>2. sum(to) <= sum(se) /\ sum(to) \in Int
    BY <1>3, <1>6, <2>1, Sums
  <2> QED BY <1>1, <1>2, <1>3, <2>2
<1>10. wo \in [Types -> Int] /\ \A k \in Types : wo[k] = to[k] - se[k]
  BY <1>3, <1>6, Sums, MinusAt
<1>11. /\ None \in [Types -> Int] /\ None \in vec(c) /\ sum(None) = 0
       /\ \A k \in Types : None[k] = 0
  BY <1>1 DEF None, vec, sum, Types
<1> HIDE DEF to, wn, wo
<1>12. CASE leq(se, to)
  <2>1. wo = None
    <3>1. \A k \in Types : se[k] <= to[k]
      BY <1>12 DEF leq
    <3>2. ASSUME NEW k \in Types PROVE wo[k] = None[k]
      <4>1. se[k] \in Nat /\ to[k] \in Nat /\ se[k] <= to[k] /\ to[k] <= se[k]
        BY <1>1, <1>4, <1>8, <3>1
      <4>2. wo[k] = to[k] - se[k] /\ None[k] = 0
        BY <1>10, <1>11
      <4> QED BY <4>1, <4>2
    <3> QED BY <1>10, <1>11, <3>2, VecEqual
  <2>2. sn = plus(None, sn)
    <3>1. plus(None, sn) \in [Types -> Int]
      BY <1>3, <1>11, Sums
    <3>2. ASSUME NEW k \in Types PROVE sn[k] = plus(None, sn)[k]
      <4>1. plus(None, sn)[k] = None[k] + sn[k]
        BY <1>3, <1>11, PlusAt
      <4>2. sn[k] \in Int /\ None[k] = 0
        BY <1>4, <1>11
      <4> QED BY <4>1, <4>2
    <3> QED BY <1>3, <3>1, <3>2, VecEqual
  <2>3. windows(se, sn, to, sn, None, wo)
    BY <1>12, <2>2 DEF windows, wo
  <2>4. leq(wo, sn)
    <3>1. \A k \in Types : None[k] <= sn[k]
      BY <1>4, <1>11
    <3> QED BY <2>1, <3>1 DEF leq
  <2>5. wo \in vec(c) /\ sum(None) < c
    BY <1>1, <1>11, <2>1
  <2>6. typedWinds(e, o, se, sn, None, wo)
    BY <1>2, <1>9, <1>11, <2>3, <2>4, <2>5 DEF typedWinds, to, sn
  <2> QED BY <2>6 DEF windowsAllow, wo, to, sn
<1>13. CASE ~leq(se, to)
  <2>1. windows(se, sn, to, se, wn, to)
    BY <1>13 DEF windows, wn
  <2>2. leq(to, se)
    BY <1>8 DEF leq
  <2>3. sum(wn) < c
    <3>1. CASE sum(sn) > 0
      <4>1. sum(se) = c /\ sum(wn) = sum(vNxt) + (sum(vEnq) + sum(e) - sum(se))
        BY <1>2, <1>5, <1>6, <3>1
      <4>2. /\ sum(vC) + sum(e) <= c /\ sum(vC) = sum(vEnq) + sum(vNxt) - sum(vOut)
            /\ sum(vOut) < c
        BY <1>1
      <4>3. /\ c \in Nat /\ sum(vC) \in Nat /\ sum(vEnq) \in Nat /\ sum(vNxt) \in Nat
            /\ sum(vOut) \in Nat /\ sum(e) \in Nat
        BY <1>1, <1>3
      <4> QED BY <4>1, <4>2, <4>3
    <3>2. CASE sum(sn) = 0
      <4>1. sum(vNxt) > 0 => sum(vNxt) <= sum(vOut)
        BY <1>1
      <4>2. sum(vNxt) < c
        BY <1>1, <4>1
      <4> QED BY <1>1, <1>6, <3>2, <4>2
    <3> QED BY <1>3, <3>1, <3>2
  <2>4. to \in vec(c)
    <3>1. to = [k \in Types |-> to[k]]
      BY <1>6
    <3> QED BY <1>8, <3>1 DEF vec
  <2>5. wn \in vec(c)
    <3>1. wn = [k \in Types |-> wn[k]]
      BY <1>6
    <3>2. \A k \in Types : wn[k] \in Nat
      <4>1. ASSUME NEW k \in Types PROVE wn[k] \in Nat
        <5>1. wn[k] = vNxt[k] + sn[k] /\ vNxt[k] \in Nat /\ sn[k] \in Nat
          BY <1>1, <1>4, <1>7
        <5> QED BY <5>1
      <4> QED BY <4>1
    <3>3. wn \in [Types -> Nat]
      BY <3>1, <3>2
    <3>4. \A k \in Types : wn[k] <= sum(wn) /\ sum(wn) \in Nat
      BY <3>3, NatVec
    <3>5. \A k \in Types : wn[k] \in 0 .. c
      BY <1>1, <2>3, <3>2, <3>4
    <3> QED BY <3>1, <3>5 DEF vec
  <2>6. typedWinds(e, o, se, se, wn, to)
    BY <1>2, <1>9, <2>1, <2>2, <2>3, <2>4, <2>5 DEF typedWinds, to, sn
  <2> QED BY <2>6 DEF windowsAllow, wn, to, sn
<1> QED BY <1>12, <1>13

\* The windows hold back nothing that a queue would do.
LEMMA QueueAllows ==
  ASSUME md = 1, Queueing
  PROVE  FifoRuns
<1> SUFFICES ASSUME NEW s \in {r \in UNION {[1 .. n -> Types] : n \in 0 .. me} :
                                 \A k \in Types : count(r)[k] <= mk},
                    NEW r, r = Prefix(s, Least(Len(s), c - Len(q))),
                    NEW n \in 0 .. Least(md, Len(q \o r)),
                    NEW o, o = count(Prefix(q \o r, n))
             PROVE  /\ count(r) \in vec(mk) /\ Len(s) - Len(r) \in 0 .. me /\ o \in vec(mo)
                    /\ \E b \in [Bufs -> BOOLEAN] :
                         typedBuffer(vC, count(r), Len(s) - Len(r), o, b)
                    /\ \E se \in splits(vEnq, count(r)) :
                         r \in orders(count(r), minus(se, vEnq))
                           /\ windowsAllow(count(r), o, se)
  BY DEF FifoRuns
<1>1. s \in Packets /\ Len(s) <= me /\ \A k \in Types : count(s)[k] <= mk
  <2>1. PICK l \in 0 .. me : s \in [1 .. l -> Types]
    OBVIOUS
  <2>2. l \in Nat /\ l <= me
    BY ParamsAssumption
  <2>3. s \in Seq(Types)
    BY <2>1, <2>2, SeqDef
  <2>4. Len(s) = l
    BY <2>1, <2>2, <2>3, LenProperties
  <2> QED BY <2>2, <2>3, <2>4 DEF Packets
<1>2. /\ r \in Packets /\ count(r) \in vec(mk) /\ sum(count(r)) = Len(r)
      /\ Len(s) - Len(r) \in 0 .. me /\ sum(vC) + Len(r) <= c
  BY <1>1, Taken
<1>3. o \in vec(mo)
  BY <1>2, Sent
<1>4. \E b \in [Bufs -> BOOLEAN] : typedBuffer(vC, count(r), Len(s) - Len(r), o, b)
  BY <1>1, BufferAllows
<1>5. PICK se \in splits(vEnq, count(r)) : r \in orders(count(r), minus(se, vEnq))
  BY <1>2, WindowTakes
<1>6. windowsAllow(count(r), o, se)
  BY <1>2, <1>3, <1>5, WindowsAllow
<1> QED BY <1>2, <1>3, <1>4, <1>5, <1>6

\* Until the buffer has sent c packets without running empty the constraints allow
\* whatever a FIFO queue may do, for every capacity and whatever is offered, in
\* whatever order.  With md = 1, as above.
THEOREM QueueAllowed ==
  ASSUME md = 1
  PROVE  TypedSpec => []FifoRuns
<1> DEFINE Inv == SumInv /\ OrderTypeOK /\ OrderElements /\ QueueInv
<1>1. TypedInit => Inv
  BY OrderInit, SumsInit, QueueInit
<1>2. Inv /\ [TypedNext]_typedVars => Inv'
  <2>1. SumInv /\ [TypedNext]_typedVars => SumInv'
    BY SumsStep
  <2>2. ASSUME UNCHANGED typedVars, OrderTypeOK, OrderElements, QueueInv
        PROVE  OrderTypeOK' /\ OrderElements' /\ QueueInv'
    BY <2>2 DEF typedVars, windVars, OrderTypeOK, OrderElements, QueueInv, rest
  <2>3. ASSUME SumInv, OrderTypeOK, OrderElements, QueueInv, TypedNext, SumInv'
        PROVE  OrderTypeOK' /\ OrderElements' /\ QueueInv'
    <3>1. PICK e \in vec(mk), d \in 0 .. me, o \in vec(mo) :
            /\ vC' = left(vC, e, o) /\ typedBuffer(vC, e, d, o, B')
            /\ \E se \in splits(vEnq, e) :
                 /\ typedWinds(e, o, se, vEnq', vNxt', vOut')
                 /\ \E s \in orders(e, minus(se, vEnq)) : queueAfter(s, o)
            /\ historyAfter(e, o)
      BY <2>3 DEF TypedNext
    <3>2. PICK se \in splits(vEnq, e) :
            /\ typedWinds(e, o, se, vEnq', vNxt', vOut')
            /\ \E s \in orders(e, minus(se, vEnq)) : queueAfter(s, o)
      BY <3>1
    <3>3. PICK s \in orders(e, minus(se, vEnq)) : queueAfter(s, o)
      BY <3>2
    <3>4. sum(o) <= md /\ vC' = minus(plus(vC, e), o) /\ vC' \in vec(c)
      BY <3>1 DEF typedBuffer, left
    <3>5. OrderTypeOK'
      BY <2>3, <3>1, <3>4, HistoryByElements
    <3>6. OrderElements'
      BY <2>3, <3>1, <3>2, <3>4, OrderStep
    <3>7. QueueInv'
      BY <2>3, <3>1, <3>2, <3>3, <3>4, <3>6, QueueStep
    <3> QED BY <3>5, <3>6, <3>7
  <2> QED BY <2>1, <2>2, <2>3
<1>3. Inv /\ WindTypeOK => FifoRuns
  <2> SUFFICES ASSUME Inv, WindTypeOK PROVE FifoRuns
    OBVIOUS
  <2>1. sum(vC) <= c
    <3>1. C \in [Bufs -> 0 .. c] /\ C = The(sum(vC))
      BY DEF WindTypeOK, bounds, SumInv
    <3>2. sum(vC) \in 0 .. c
      BY <3>1, OneBuffer
    <3> QED BY <3>2, ParamsAssumption
  <2>2. CASE fifo /\ away < c
    <3>1. Queueing
      BY <2>1, <2>2 DEF Queueing
    <3> QED BY <3>1, QueueAllows
  <2>3. CASE ~(fifo /\ away < c)
    BY <2>3 DEF FifoRuns
  <2> QED BY <2>2, <2>3
<1> HIDE DEF Inv
<1>4. TypedSpec => []Inv
  BY <1>1, <1>2, PTL DEF TypedSpec
<1>5. TypedSpec => []WindTypeOK
  BY TypedRefinesWinds, WindType, PTL DEF SumsAreScalar
<1> QED BY <1>3, <1>4, <1>5, PTL
=============================================================================
