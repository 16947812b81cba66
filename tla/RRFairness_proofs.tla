------------------------- MODULE RRFairness_proofs -------------------------
(***************************************************************************)
(* The round-robin CP is fair, for every number of buffers, every capacity *)
(* and every input: IInv of RRFairness is inductive.  And the forms in     *)
(* which the code writes the turn, chains over all buffers, say the same   *)
(* as the declarative one.                                                 *)
(***************************************************************************)
EXTENDS MCRR, STSChecker_proofs

-----------------------------------------------------------------------------
(***************************************************************************)
(* The ring.                                                               *)
(***************************************************************************)

\* Going forward from a buffer reaches every buffer within one turn.
LEMMA FwdRange ==
  ASSUME NEW s \in Bufs, NEW i \in Bufs
  PROVE  fwd(s, i) \in 1 .. num_bufs
BY ParamsAssumption DEF fwd, Bufs

\* Only the buffer itself is a full turn away.
LEMMA FwdSelf ==
  ASSUME NEW s \in Bufs, NEW i \in Bufs
  PROVE  fwd(s, i) = num_bufs <=> s = i
BY ParamsAssumption DEF fwd, Bufs

\* Moving on to a buffer that is not farther than i shortens the way to i by
\* the distance moved.
LEMMA FwdAdvance ==
  ASSUME NEW s \in Bufs, NEW l \in Bufs, NEW i \in Bufs,
         l # i, fwd(s, l) <= fwd(s, i)
  PROVE  fwd(l, i) = fwd(s, i) - fwd(s, l)
BY ParamsAssumption DEF fwd, Bufs

-----------------------------------------------------------------------------
(***************************************************************************)
(* What the turn guarantees in the timestep it is chosen for.              *)
(***************************************************************************)

\* RRChecker::out sends one packet from the buffer whose turn it is, if that
\* buffer is backlogged, and nothing else.
LEMMA OutOfTurn ==
  ASSUME NEW b \in [Bufs -> BOOLEAN], NEW s \in Bufs, NEW i \in Bufs
  PROVE  out(b, s)[i] = IF b[i] /\ s = i THEN 1 ELSE 0
BY DEF out

\* The outputs are within the bounds of the array O.
LEMMA OutType ==
  ASSUME NEW b, NEW s
  PROVE  out(b, s) \in [Bufs -> 0 .. 1] /\ out(b, s) \in [Bufs -> 0 .. md]
BY ParamsAssumption DEF out

\* RRChecker::trs gives the turn to a backlogged buffer, and meets it no later
\* than any other backlogged one.
LEMMA TurnMeets ==
  ASSUME NEW s \in Bufs, NEW bp \in [Bufs -> BOOLEAN], NEW sp \in Bufs,
         trs(s, bp, sp), NEW i \in Bufs, bp[i]
  PROVE  bp[sp] /\ fwd(s, sp) <= fwd(s, i)
BY DEF trs

\* A backlogged buffer that sends nothing still has a packet afterwards.
LEMMA KeepsPacket ==
  ASSUME NEW pc \in [Bufs -> 0 .. c], NEW i, NEW e \in [Bufs -> 0 .. me], NEW d, NEW b,
         NEW o, NEW pcp, arrivals(pc, i, e, d, b), departures(pc, e, o, pcp),
         NEW j \in Bufs, b[j], o[j] = 0
  PROVE  pcp[j] > 0
<1>1. b[j] = (pc[j] + e[j] > 0)
  BY DEF arrivals, backlogged
<1>2. pc[j] + e[j] > 0
  BY <1>1, Zenon
<1>3. pcp[j] = pc[j] + e[j] - o[j]
  BY DeparturesType
<1> QED BY <1>2, <1>3

\* A buffer with a packet is backlogged in the next timestep.
LEMMA StaysBacklogged ==
  ASSUME NEW pc \in [Bufs -> 0 .. c], NEW i, NEW e \in [Bufs -> 0 .. me], NEW d, NEW b,
         arrivals(pc, i, e, d, b), NEW j \in Bufs, pc[j] > 0
  PROVE  b[j]
<1>1. b[j] = (pc[j] + e[j] > 0)
  BY DEF arrivals, backlogged
<1>2. pc[j] + e[j] > 0
  OBVIOUS
<1> QED BY <1>1, <1>2, Zenon

-----------------------------------------------------------------------------
(***************************************************************************)
(* Type correctness.                                                       *)
(***************************************************************************)
\* The first timestep of RRChecker is well typed.
LEMMA InitType == FairInit => TypeOK
<1> SUFFICES ASSUME FairInit PROVE TypeOK
  OBVIOUS
<1>0. Init
  BY DEF FairInit
<1>1. I \in [Bufs -> 0 .. MAX_I] /\ E \in [Bufs -> 0 .. me]
      /\ D \in [Bufs -> 0 .. me] /\ B \in [Bufs -> BOOLEAN]
  BY <1>0, ArrivalsType, EmptyType DEF Init
<1>2. C \in [Bufs -> 0 .. c]
  BY <1>0, <1>1, DeparturesType, EmptyType DEF Init
<1>3. S \in Bufs /\ O \in [Bufs -> 0 .. md] /\ O \in [Bufs -> 0 .. 1]
  BY <1>0, OutType DEF Init
<1>4. wait \in [Bufs -> Nat]
  BY <1>3 DEF FairInit, waitAfter, Empty
<1>5. lead \in [Bufs -> [Bufs -> Nat]]
  BY <1>3 DEF FairInit, leadAfter, Empty
<1> QED BY <1>1, <1>2, <1>3, <1>4, <1>5 DEF TypeOK, bounds

\* A timestep of RRChecker preserves the types.
LEMMA NextType == TypeOK /\ [FairNext]_fairVars => TypeOK'
<1> SUFFICES ASSUME TypeOK, FairNext PROVE TypeOK'
  BY DEF TypeOK, bounds, fairVars
<1>0. Next
  BY DEF FairNext
<1>1. C \in [Bufs -> 0 .. c] /\ wait \in [Bufs -> Nat]
      /\ lead \in [Bufs -> [Bufs -> Nat]]
  BY DEF TypeOK, bounds
<1>2. I' \in [Bufs -> 0 .. MAX_I] /\ E' \in [Bufs -> 0 .. me]
      /\ D' \in [Bufs -> 0 .. me] /\ B' \in [Bufs -> BOOLEAN]
  BY <1>0, <1>1, ArrivalsType DEF Next, timestep
<1>3. C' \in [Bufs -> 0 .. c]
  BY <1>0, <1>1, <1>2, DeparturesType DEF Next, timestep
<1>4. S' \in Bufs /\ O' \in [Bufs -> 0 .. md] /\ O' \in [Bufs -> 0 .. 1]
  BY <1>0, OutType DEF Next, timestep
<1>5. wait' \in [Bufs -> Nat]
  BY <1>1 DEF FairNext, waitAfter
<1>6. lead' \in [Bufs -> [Bufs -> Nat]]
  BY <1>1, <1>4 DEF FairNext, leadAfter
<1> QED BY <1>2, <1>3, <1>4, <1>5, <1>6 DEF TypeOK, bounds

\* Every array stays in its declared range, and the turn is always a buffer
\* although the code declares no bound for S.
THEOREM TypeCorrect == FairSpec => []TypeOK
BY InitType, NextType, PTL DEF FairSpec

-----------------------------------------------------------------------------
(***************************************************************************)
(* The inductive invariant.                                                *)
(***************************************************************************)
\* At timestep 0 only the buffer whose turn it is has sent.
LEMMA InitInv == FairInit => IInv
<1> SUFFICES ASSUME FairInit PROVE IInv
  OBVIOUS
<1>1. TypeOK
  BY InitType
<1>2. B \in [Bufs -> BOOLEAN] /\ S \in Bufs
  BY <1>1 DEF TypeOK, bounds
<1>3. \A i \in Bufs : O[i] = IF B[i] /\ S = i THEN 1 ELSE 0
  BY <1>2, OutOfTurn DEF FairInit, Init
<1>4. WaitInv
  <2> SUFFICES ASSUME NEW i \in Bufs, wait[i] > 0
               PROVE  wait[i] + fwd(S, i) <= num_bufs
    BY DEF WaitInv
  <2>1. wait[i] = 1 /\ S # i
    BY <1>2, <1>3 DEF FairInit, waitAfter, Empty
  <2> QED BY <2>1, <1>2, FwdRange, FwdSelf, ParamsAssumption
<1>5. ASSUME NEW i \in Bufs, NEW j \in Bufs
      PROVE  /\ lead[i][j] <= 1
             /\ lead[i][j] > 0 => C[j] > 0 /\ fwd(S, j) < fwd(S, i)
  <2>1. lead[i][j] = LET n == (IF B[j] THEN O[i] ELSE 0) - O[j]
                     IN  IF n < 0 THEN 0 ELSE n
    BY <1>3 DEF FairInit, leadAfter, Empty
  <2>2. lead[i][j] <= 1
    BY <2>1, <1>3
  <2>3. ASSUME lead[i][j] > 0 PROVE C[j] > 0 /\ fwd(S, j) < fwd(S, i)
    <3>1. B[j] /\ O[j] = 0 /\ S = i /\ S # j
      BY <2>1, <2>3, <1>3
    <3>2. C[j] > 0
      BY <1>1, <3>1, KeepsPacket, EmptyType DEF FairInit, Init, TypeOK, bounds
    <3> QED BY <3>1, <3>2, <1>2, FwdRange, FwdSelf, ParamsAssumption
  <2> QED BY <2>2, <2>3
<1> QED BY <1>1, <1>4, <1>5 DEF IInv, FairShare, LeadInv

\* A timestep of RRChecker preserves the invariant: the turn moves towards every
\* buffer that waits, and of two buffers it meets the one behind first.
LEMMA NextInv == IInv /\ [FairNext]_fairVars => IInv'
<1> SUFFICES ASSUME IInv, [FairNext]_fairVars PROVE IInv'
  OBVIOUS
<1>1. TypeOK /\ TypeOK'
  BY NextType DEF IInv
<1>2. CASE UNCHANGED fairVars
  BY <1>1, <1>2 DEF IInv, TypeOK, bounds, WaitInv, FairShare, LeadInv, fairVars
<1>3. CASE FairNext
  <2>1. /\ S \in Bufs /\ S' \in Bufs
        /\ B' \in [Bufs -> BOOLEAN]
        /\ wait \in [Bufs -> Nat]
        /\ lead \in [Bufs -> [Bufs -> Nat]]
    BY <1>1 DEF TypeOK, bounds
  <2>2. \A i \in Bufs : O'[i] = IF B'[i] /\ S' = i THEN 1 ELSE 0
    BY <1>3, <2>1, OutOfTurn DEF FairNext, Next, timestep
  <2>3. \A i \in Bufs : B'[i] => B'[S'] /\ fwd(S, S') <= fwd(S, i)
    BY <1>3, <2>1, TurnMeets DEF FairNext, Next, timestep
  <2>4. \A i \in Bufs : B'[i] /\ i # S' => fwd(S', i) = fwd(S, i) - fwd(S, S')
    BY <2>1, <2>3, FwdAdvance
  <2>5. WaitInv'
    <3> SUFFICES ASSUME NEW i \in Bufs, wait'[i] > 0
                 PROVE  wait'[i] + fwd(S', i) <= num_bufs
      BY DEF WaitInv
    <3>1. B'[i] /\ O'[i] = 0 /\ wait'[i] = wait[i] + 1
      BY <1>3 DEF FairNext, waitAfter
    <3>2. S' # i
      BY <3>1, <2>2
    <3>3. fwd(S', i) = fwd(S, i) - fwd(S, S')
      BY <3>1, <3>2, <2>4
    <3>4. fwd(S, i) \in 1 .. num_bufs /\ fwd(S, S') \in 1 .. num_bufs
      BY <2>1, FwdRange
    <3>5. wait[i] \in Nat /\ (wait[i] > 0 => wait[i] + fwd(S, i) <= num_bufs)
      BY <2>1 DEF IInv, WaitInv
    <3> QED BY <3>1, <3>3, <3>4, <3>5, ParamsAssumption
  <2>6. /\ \A j \in Bufs : B'[j] /\ O'[j] = 0 => C'[j] > 0
        /\ \A j \in Bufs : C[j] > 0 => B'[j]
    <3>1. /\ C \in [Bufs -> 0 .. c] /\ E' \in [Bufs -> 0 .. me]
          /\ arrivals(C, I', E', D', B') /\ departures(C, E', O', C')
      BY <1>1, <1>3 DEF FairNext, Next, timestep, TypeOK, bounds
    <3>2. ASSUME NEW j \in Bufs, B'[j], O'[j] = 0 PROVE C'[j] > 0
      BY ONLY <3>1, <3>2, KeepsPacket
    <3>3. ASSUME NEW j \in Bufs, C[j] > 0 PROVE B'[j]
      BY ONLY <3>1, <3>3, StaysBacklogged
    <3> QED BY <3>2, <3>3, Zenon
  <2>7. ASSUME NEW i \in Bufs, NEW j \in Bufs
        PROVE  /\ lead'[i][j] <= 1
               /\ lead'[i][j] > 0 => C'[j] > 0 /\ fwd(S', j) < fwd(S', i)
    <3>1. lead'[i][j] = LET n == lead[i][j] + (IF B'[j] THEN O'[i] ELSE 0) - O'[j]
                        IN  IF n < 0 THEN 0 ELSE n
      BY <1>3 DEF FairNext, leadAfter
    <3>2. /\ lead[i][j] \in 0 .. 1
          /\ lead[i][j] = 1 => B'[j] /\ fwd(S, j) < fwd(S, i)
      BY <2>1, <2>6 DEF IInv, FairShare, LeadInv
    <3>3. /\ fwd(S, i) \in 1 .. num_bufs /\ fwd(S, j) \in 1 .. num_bufs
          /\ fwd(S', i) \in 1 .. num_bufs /\ fwd(S', j) \in 1 .. num_bufs
          /\ fwd(S, S') \in 1 .. num_bufs
      BY <2>1, FwdRange
    <3>4. CASE ~B'[j]
      BY <3>1, <3>2, <3>4, <2>2
    <3>5. CASE B'[j] /\ S' = j
      <4>1. O'[j] = 1 /\ O'[i] \in 0 .. 1
        BY <2>2, <3>5
      <4>2. lead'[i][j] = IF lead[i][j] + O'[i] - 1 < 0 THEN 0 ELSE lead[i][j] + O'[i] - 1
        BY <3>1, <3>5, <4>1
      <4>3. i = j \/ O'[i] = 0
        BY <2>2, <3>5
      <4>4. i = j => lead[i][j] = 0
        BY <3>2, <3>3
      <4>5. lead'[i][j] = 0
        BY <3>2, <4>1, <4>2, <4>3, <4>4
      <4> QED BY <4>5
    <3>6. CASE B'[j] /\ S' # j /\ S' = i
      <4>1. fwd(S, i) <= fwd(S, j)
        BY <2>3, <3>6
      <4>2. lead[i][j] = 0
        BY <4>1, <3>2, <3>3
      <4>3. O'[i] \in 0 .. 1 /\ O'[j] = 0
        BY <2>2, <3>6
      <4>4. fwd(S', i) = num_bufs /\ fwd(S', j) # num_bufs
        BY <3>6, <2>1, FwdSelf
      <4> QED BY <3>1, <3>3, <3>6, <4>2, <4>3, <4>4, <2>6, ParamsAssumption
    <3>7. CASE B'[j] /\ S' # j /\ S' # i
      <4>1. O'[i] = 0 /\ O'[j] = 0
        BY <2>2, <3>7
      <4>2. lead'[i][j] = lead[i][j]
        BY <3>1, <3>2, <3>7, <4>1
      <4>3. ASSUME lead[i][j] = 1 PROVE fwd(S', j) < fwd(S', i)
        <5>1. fwd(S, S') <= fwd(S, j) /\ fwd(S, j) < fwd(S, i)
          BY <2>3, <3>2, <3>7, <4>3
        <5>2. /\ fwd(S', j) = fwd(S, j) - fwd(S, S')
              /\ fwd(S', i) = fwd(S, i) - fwd(S, S')
          BY <5>1, <3>3, <3>7, <2>1, FwdAdvance
        <5> QED BY <5>1, <5>2, <3>3, ParamsAssumption
      <4> QED BY <3>2, <3>7, <4>1, <4>2, <4>3, <2>6
    <3> QED BY <3>4, <3>5, <3>6, <3>7
  <2> QED BY <1>1, <2>5, <2>7 DEF IInv, FairShare, LeadInv
<1> QED BY <1>2, <1>3

\* How long a buffer of RRChecker has waited, and which of two buffers is ahead,
\* is bounded by where the turn is.
THEOREM Inductive == FairSpec => []IInv
BY InitInv, NextInv, PTL DEF FairSpec

-----------------------------------------------------------------------------
(***************************************************************************)
(* The results.                                                            *)
(***************************************************************************)

\* A backlogged buffer of RRChecker sends within num_bufs timesteps.
THEOREM NoStarvation == FairSpec => []BoundedWait
<1>1. IInv => BoundedWait
  <2> SUFFICES ASSUME IInv, NEW i \in Bufs PROVE wait[i] <= num_bufs - 1
    BY DEF BoundedWait
  <2>1. wait[i] \in Nat /\ S \in Bufs
    BY DEF IInv, TypeOK
  <2>2. wait[i] > 0 => wait[i] + fwd(S, i) <= num_bufs
    BY DEF IInv, WaitInv
  <2> QED BY <2>1, <2>2, FwdRange, ParamsAssumption
<1> QED BY <1>1, Inductive, PTL

\* In no stretch of timesteps does a buffer of RRChecker send more than one packet
\* more than another that has packets, whichever of them runs empty meanwhile.
THEOREM PairwiseFair == FairSpec => []FairShare
<1>1. IInv => FairShare
  BY DEF IInv
<1> QED BY <1>1, Inductive, PTL

\* RRChecker sends exactly one packet when a buffer is backlogged and none when
\* no buffer is.
THEOREM NeverIdle == FairSpec => []WorkConserving
<1>1. ASSUME NEW b \in [Bufs -> BOOLEAN], NEW s \in Bufs,
             (\E i \in Bufs : b[i]) => b[s]
      PROVE  /\ (\E i \in Bufs : b[i]) => \E i \in Bufs :
                   /\ out(b, s)[i] = 1
                   /\ \A j \in Bufs \ {i} : out(b, s)[j] = 0
             /\ (\A i \in Bufs : ~b[i]) => out(b, s) = Empty
  <2>1. \A i \in Bufs : out(b, s)[i] = IF b[i] /\ s = i THEN 1 ELSE 0
    BY OutOfTurn
  <2>2. ASSUME \E i \in Bufs : b[i]
        PROVE  \E i \in Bufs : /\ out(b, s)[i] = 1
                               /\ \A j \in Bufs \ {i} : out(b, s)[j] = 0
    BY <2>1, <2>2, <1>1
  <2>3. ASSUME \A i \in Bufs : ~b[i] PROVE out(b, s) = Empty
    BY <2>3 DEF out, Empty
  <2> QED BY <2>2, <2>3
<1>2. FairInit => WorkConserving
  <2> SUFFICES ASSUME FairInit PROVE WorkConserving
    OBVIOUS
  <2>1. B \in [Bufs -> BOOLEAN] /\ S \in Bufs
    BY InitType DEF TypeOK, bounds
  <2>2. ((\E i \in Bufs : B[i]) => B[S]) /\ O = out(B, S)
    BY DEF FairInit, Init, init
  <2> QED BY <1>1, <2>1, <2>2 DEF WorkConserving
<1>3. TypeOK /\ WorkConserving /\ [FairNext]_fairVars => WorkConserving'
  <2> SUFFICES ASSUME TypeOK, FairNext PROVE WorkConserving'
    BY DEF WorkConserving, fairVars
  <2>1. B' \in [Bufs -> BOOLEAN] /\ S' \in Bufs
    BY NextType DEF TypeOK, bounds
  <2>2. ((\E i \in Bufs : B'[i]) => B'[S']) /\ O' = out(B', S')
    BY DEF FairNext, Next, timestep, trs
  <2> QED BY <1>1, <2>1, <2>2 DEF WorkConserving
<1> QED BY <1>2, <1>3, TypeCorrect, PTL DEF FairSpec

\* RRChecker implements the CP without a scheduler, so that what TrivialSts
\* promises about buffers it keeps.
THEOREM RefinesTrivialSts == Spec => ImplementsBase
<1>1. Base!Bufs = Bufs /\ Base!Empty = Empty
  BY DEF Bufs, Base!Bufs, Empty, Base!Empty
<1>2. ASSUME NEW pc, NEW i, NEW e, NEW d, NEW b, arrivals(pc, i, e, d, b)
      PROVE  Base!arrivals(pc, i, e, d, b)
  BY <1>1, <1>2 DEF arrivals, Base!arrivals, enqs, Base!enqs, drops, Base!drops,
     backlogged, Base!backlogged, enq_deq_sum, Base!enq_deq_sum
<1>3. ASSUME NEW pc, NEW e, NEW o, NEW pcp, departures(pc, e, o, pcp)
      PROVE  Base!departures(pc, e, o, pcp)
  BY <1>1, <1>3 DEF departures, Base!departures, remaining, Base!remaining
<1>4. Init => Base!Init
  BY <1>1, <1>2, <1>3, OutType DEF Init, Base!Init, Base!out
<1>5. [Next]_rrVars => [Base!Next]_(Base!bufVars)
  BY <1>1, <1>2, <1>3, OutType DEF Next, timestep, Base!Next, Base!out, rrVars, Base!bufVars
<1> QED BY <1>4, <1>5, PTL DEF Spec, ImplementsBase, Base!Spec
-----------------------------------------------------------------------------
(***************************************************************************)
(* The code's formulations of the turn.                                    *)
(***************************************************************************)

\* Counting on around the ring, as the code does it.
LEMMA RingMod ==
  ASSUME NEW n \in Nat \ {0}, NEW x \in 0 .. n - 1
  PROVE  x % n = x /\ (x + n) % n = x
OBVIOUS

\* The buffer that is j steps ahead, for each distance once.
LEMMA Ahead ==
  ASSUME NEW s \in Bufs, NEW j \in 1 .. num_bufs
  PROVE  /\ (s + j) % num_bufs \in Bufs
         /\ fwd(s, (s + j) % num_bufs) = j
         /\ \A i \in Bufs : fwd(s, i) = j => i = (s + j) % num_bufs
<1>1. num_bufs \in Nat \ {0} /\ s \in 0 .. num_bufs - 1
  BY ParamsAssumption DEF Bufs
<1>2. (s + j) % num_bufs = IF s + j >= num_bufs THEN s + j - num_bufs ELSE s + j
  <2>1. CASE s + j >= num_bufs
    <3>1. s + j - num_bufs \in 0 .. num_bufs - 1 /\ (s + j - num_bufs) + num_bufs = s + j
      BY <1>1, <2>1
    <3> QED BY <1>1, <2>1, <3>1, RingMod
  <2>2. CASE ~(s + j >= num_bufs)
    BY <1>1, <2>2, RingMod
  <2> QED BY <2>1, <2>2
<1> QED BY <1>1, <1>2 DEF fwd, Bufs

\* RRChecker::trs leaves no choice.
LEMMA TurnUnique ==
  ASSUME NEW s \in Bufs, NEW b \in [Bufs -> BOOLEAN], NEW p \in Bufs, NEW q \in Bufs,
         trs(s, b, p), trs(s, b, q)
  PROVE  p = q
<1>1. CASE \E i \in Bufs : b[i]
  <2>1. fwd(s, p) <= fwd(s, q) /\ fwd(s, q) <= fwd(s, p)
    BY <1>1 DEF trs
  <2>2. fwd(s, p) = fwd(s, q)
    BY <2>1, FwdRange
  <2> QED BY <2>2, Ahead, FwdRange
<1>2. CASE ~\E i \in Bufs : b[i]
  BY <1>2 DEF trs
<1> QED BY <1>1, <1>2

\* The chain of ite goes through the buffers from the farthest to the nearest.
LEMMA IteChain ==
  ASSUME NEW s \in Bufs, NEW b \in [Bufs -> BOOLEAN]
  PROVE  trs_ite(s, b) \in Bufs /\ trs(s, b, trs_ite(s, b))
<1> DEFINE l(j) == (s - j + num_bufs) % num_bufs
           x[j \in 0 .. num_bufs - 1] == IF j = 0 THEN s ELSE IF b[l(j)] THEN l(j) ELSE x[j - 1]
           G == [j \in 1 .. num_bufs - 1 |-> [p \in Bufs |-> IF b[l(j)] THEN l(j) ELSE p]]
           m == num_bufs - 1
<1>1. trs_ite(s, b) = x[m]
  BY DEF trs_ite
<1>2. m \in Nat /\ num_bufs = m + 1
  BY ParamsAssumption
<1>3. ASSUME NEW j \in 1 .. m
      PROVE  /\ l(j) \in Bufs /\ fwd(s, l(j)) = num_bufs - j
             /\ \A i \in Bufs : fwd(s, i) = num_bufs - j => i = l(j)
  <2>1. num_bufs - j \in 1 .. num_bufs /\ s - j + num_bufs = s + (num_bufs - j)
    BY <1>2 DEF Bufs
  <2> QED BY <2>1, Ahead
<1> HIDE DEF l
<1>4. G \in Loops(m, Bufs)
  BY <1>3 DEF Loops
<1>5. PICK f \in [0 .. m -> Bufs] : Computes(f, m, s, G)
  <2> HIDE DEF G, x, m
  <2> QED BY <1>2, <1>4, Recursion, Zenon
<1>6. f[0] = s /\ \A j \in 1 .. m : f[j] = IF b[l(j)] THEN l(j) ELSE f[j - 1]
  <2> SUFFICES ASSUME NEW j \in 1 .. m PROVE f[j] = IF b[l(j)] THEN l(j) ELSE f[j - 1]
    BY <1>5 DEF Computes
  <2>1. f[j - 1] \in Bufs
    BY <1>2, <1>5
  <2>2. f[j] = G[j][f[j - 1]]
    BY <1>5 DEF Computes
  <2> QED BY <2>1, <2>2
<1>7. f = [j \in 0 .. m |-> IF j = 0 THEN s ELSE IF b[l(j)] THEN l(j) ELSE f[j - 1]]
  <2>1. \A j \in 0 .. m : j # 0 => j \in 1 .. m
    BY <1>2
  <2> HIDE DEF m, x, G
  <2> QED BY <1>5, <1>6, <2>1
<1>8. x = [j \in 0 .. m |-> IF j = 0 THEN s ELSE IF b[l(j)] THEN l(j) ELSE x[j - 1]]
  BY <1>7
<1> HIDE DEF x, G
<1>9. x[0] = s /\ \A j \in 1 .. m : x[j] = IF b[l(j)] THEN l(j) ELSE x[j - 1]
  <2>1. \A j \in 0 .. m : x[j] = IF j = 0 THEN s ELSE IF b[l(j)] THEN l(j) ELSE x[j - 1]
    BY <1>8
  <2>2. 0 \in 0 .. m /\ \A j \in 1 .. m : j \in 0 .. m /\ j # 0
    BY <1>2
  <2> HIDE DEF m
  <2> QED BY <2>1, <2>2
<1> DEFINE Far(i, j) == i # s /\ fwd(s, i) >= num_bufs - j
           T == {j \in 0 .. m :
                   \/ x[j] = s /\ \A i \in Bufs : Far(i, j) => ~b[i]
                   \/ /\ x[j] \in Bufs /\ Far(x[j], j) /\ b[x[j]]
                      /\ \A i \in Bufs : Far(i, j) /\ b[i] => fwd(s, x[j]) <= fwd(s, i)}
<1>10. 0 \in T
  BY <1>2, <1>9, FwdRange, FwdSelf
<1>11. ASSUME NEW j \in 0 .. m - 1, j \in T PROVE j + 1 \in T
  <2> DEFINE k == l(j + 1)
  <2>1. j + 1 \in 1 .. m /\ j + 1 \in 0 .. m /\ (j + 1) - 1 = j
    BY <1>2
  <2>2. x[j + 1] = IF b[k] THEN k ELSE x[j]
    BY <1>9, <2>1
  <2>3. /\ k \in Bufs /\ fwd(s, k) = num_bufs - (j + 1)
        /\ \A i \in Bufs : fwd(s, i) = num_bufs - (j + 1) => i = k
    BY <1>3, <2>1
  <2> HIDE DEF k
  <2>4. k # s
    BY <1>2, <2>3, FwdSelf
  <2>5. \A i \in Bufs : fwd(s, i) \in 1 .. num_bufs
    BY FwdRange
  <2>6. \A i \in Bufs : Far(i, j + 1) <=> Far(i, j) \/ i = k
    BY <1>2, <2>3, <2>4, <2>5
  <2>7. \A i \in Bufs : Far(i, j + 1) => fwd(s, k) <= fwd(s, i)
    BY <1>2, <2>3, <2>5
  <2>8. b[k] \in BOOLEAN
    BY <2>3
  <2> HIDE DEF Far
  <2>9. CASE b[k]
    BY <2>1, <2>2, <2>3, <2>6, <2>7, <2>9
  <2>10. CASE ~b[k]
    BY <1>11, <2>1, <2>2, <2>6, <2>10
  <2> QED BY <2>8, <2>9, <2>10
<1>12. m \in T
  <2> HIDE DEF T
  <2>1. \A j \in 0 .. m : j \in T
    BY <1>2, <1>10, <1>11, UpTo
  <2> QED BY <1>2, <2>1
<1>13. \A i \in Bufs : Far(i, m) <=> i # s
  BY <1>2, FwdRange
<1> HIDE DEF Far
<1>14. CASE x[m] = s /\ \A i \in Bufs : i # s => ~b[i]
  <2>1. \A i \in Bufs : b[i] => i = s
    BY <1>14
  <2>2. trs(s, b, s)
    BY <2>1, FwdRange DEF trs
  <2> QED BY <1>1, <1>14, <2>2
<1>15. CASE /\ x[m] \in Bufs /\ b[x[m]]
            /\ \A i \in Bufs : i # s /\ b[i] => fwd(s, x[m]) <= fwd(s, i)
  <2>1. \A i \in Bufs : fwd(s, x[m]) <= num_bufs /\ fwd(s, s) = num_bufs
    BY <1>15, FwdRange, FwdSelf
  <2>2. \A i \in Bufs : b[i] => fwd(s, x[m]) <= fwd(s, i)
    BY <1>15, <2>1
  <2> QED BY <1>1, <1>15, <2>2 DEF trs
<1> QED BY <1>12, <1>13, <1>14, <1>15

\* The implications for the buffers 1, 2, ... steps ahead name the same buffer.
LEMMA Implications ==
  ASSUME NEW s \in Bufs, NEW b \in [Bufs -> BOOLEAN], NEW p \in Bufs
  PROVE  trs(s, b, p) <=> turn_transition(s, b, p)
<1> DEFINE ahead(j) == (s + j) % num_bufs
           x(j) == \A h \in 1 .. j - 1 : ~b[ahead(h)]
<1>1. turn_transition(s, b, p) <=>
        /\ \A j \in 1 .. num_bufs - 1 : x(j) /\ b[ahead(j)] => p = ahead(j)
        /\ x(num_bufs) => p = s
  BY DEF turn_transition
<1>2. \A j \in 1 .. num_bufs : ahead(j) \in Bufs /\ fwd(s, ahead(j)) = j
  BY Ahead
<1>3. \A i \in Bufs : fwd(s, i) \in 1 .. num_bufs /\ i = ahead(fwd(s, i))
  BY Ahead, FwdRange
<1>4. num_bufs \in Nat \ {0} /\ fwd(s, s) = num_bufs
  BY FwdSelf, ParamsAssumption
<1> HIDE DEF ahead
<1>5. ASSUME NEW j \in 1 .. num_bufs
      PROVE  x(j) <=> \A i \in Bufs : b[i] => fwd(s, i) >= j
  <2>1. ASSUME x(j), NEW i \in Bufs, b[i] PROVE fwd(s, i) >= j
    BY <1>3, <1>4, <2>1
  <2>2. ASSUME \A i \in Bufs : b[i] => fwd(s, i) >= j, NEW h \in 1 .. j - 1
        PROVE  ~b[ahead(h)]
    BY <1>2, <1>4, <2>2
  <2> QED BY <2>1, <2>2
<1> HIDE DEF x
<1>6. CASE ~\E i \in Bufs : b[i]
  BY <1>1, <1>2, <1>4, <1>5, <1>6 DEF trs
<1>7. CASE \E i \in Bufs : b[i]
  <2> DEFINE T == {fwd(s, i) : i \in {h \in Bufs : b[h]}}
  <2>1. T \in SUBSET Nat /\ T # {}
    BY <1>3, <1>7
  <2>2. PICK n \in T : \A t \in T : n <= t
    <3> HIDE DEF T
    <3> QED BY <2>1, NatMin
  <2>3. PICK q \in Bufs : b[q] /\ fwd(s, q) = n
    OBVIOUS
  <2>4. \A i \in Bufs : b[i] => fwd(s, q) <= fwd(s, i)
    BY <2>2, <2>3
  <2> HIDE DEF T
  <2>5. trs(s, b, q)
    BY <2>3, <2>4 DEF trs
  <2>6. trs(s, b, p) <=> p = q
    BY <2>5, TurnUnique
  <2>7. ASSUME NEW j \in 1 .. num_bufs PROVE x(j) <=> j <= fwd(s, q)
    BY <1>3, <1>4, <1>5, <2>3, <2>4
  <2>8. turn_transition(s, b, p) => p = q
    <3>1. CASE fwd(s, q) = num_bufs
      <4>1. q = s
        BY <3>1, FwdSelf
      <4> QED BY <1>1, <1>4, <2>7, <3>1, <4>1
    <3>2. CASE fwd(s, q) # num_bufs
      <4>1. fwd(s, q) \in 1 .. num_bufs - 1 /\ q = ahead(fwd(s, q))
        BY <1>3, <1>4, <3>2
      <4>2. x(fwd(s, q))
        BY <1>3, <2>7
      <4> QED BY <1>1, <2>3, <4>1, <4>2
    <3> QED BY <3>1, <3>2
  <2>9. ASSUME p = q PROVE turn_transition(s, b, p)
    <3>1. ASSUME NEW j \in 1 .. num_bufs - 1, x(j), b[ahead(j)] PROVE q = ahead(j)
      <4>1. j \in 1 .. num_bufs /\ ahead(j) \in Bufs /\ fwd(s, ahead(j)) = j
        BY <1>2, <1>4
      <4>2. fwd(s, q) <= j /\ j <= fwd(s, q) /\ fwd(s, q) \in 1 .. num_bufs
        BY <1>3, <2>4, <2>7, <3>1, <4>1
      <4>3. fwd(s, q) = j
        BY <4>2
      <4> QED BY <1>3, <4>3
    <3>2. ASSUME x(num_bufs) PROVE q = s
      BY <1>3, <1>4, <2>7, <3>2, FwdSelf
    <3> QED BY <1>1, <2>9, <3>1, <3>2
  <2> QED BY <2>6, <2>8, <2>9
<1> QED BY <1>6, <1>7

\* So do the implications for the turn at timestep 0.
LEMMA InitImplications ==
  ASSUME NEW b \in [Bufs -> BOOLEAN], NEW s \in Bufs
  PROVE  init(b, s) <=> init_implies(b, s)
<1> USE DEF init_implies
<1>1. CASE ~\E i \in Bufs : b[i]
  BY <1>1 DEF init
<1>2. CASE \E i \in Bufs : b[i]
  <2>1. Bufs \in SUBSET Nat /\ \A i \in Bufs : 0 .. i - 1 \in SUBSET Bufs
    BY ParamsAssumption DEF Bufs
  <2> DEFINE T == {i \in Bufs : b[i]}
  <2>2. T \in SUBSET Nat /\ T # {}
    BY <1>2, <2>1
  <2>3. PICK q \in T : \A i \in T : q <= i
    <3> HIDE DEF T
    <3> QED BY <2>2, NatMin
  <2>4. q \in Bufs /\ q \in Nat /\ b[q] /\ \A i \in Bufs : b[i] => q <= i
    BY <2>1, <2>3
  <2> HIDE DEF T
  <2>5. \A j \in 0 .. q - 1 : ~b[j]
    BY <2>1, <2>4
  <2>6. init(b, s) <=> s = q
    BY <1>2, <2>1, <2>4 DEF init
  <2>7. ASSUME NEW i \in Bufs, b[i], \A j \in 0 .. i - 1 : ~b[j] PROVE i = q
    <3>1. i \in Nat /\ q <= i /\ ~(q \in 0 .. i - 1)
      BY <2>1, <2>4, <2>7
    <3> QED BY <2>4, <3>1
  <2> QED BY <1>2, <2>4, <2>5, <2>6, <2>7
<1> QED BY <1>1, <1>2

\* The ite chain of RRChecker::trs, the implications of turn_transition and those of
\* RRChecker::init say what the model's trs and init say, for any number of buffers.
THEOREM TurnsAgree == FairSpec => []FormulationsAgree
<1>1. TypeOK => FormulationsAgree
  <2> SUFFICES ASSUME TypeOK, NEW s \in Bufs, NEW b \in [Bufs -> BOOLEAN]
               PROVE  /\ init(b, S) <=> init_implies(b, S)
                      /\ trs(S, b, s) <=> s = trs_ite(S, b)
                      /\ trs(S, b, s) <=> turn_transition(S, b, s)
    BY DEF FormulationsAgree
  <2>1. S \in Bufs
    BY DEF TypeOK
  <2>2. trs(S, b, s) <=> s = trs_ite(S, b)
    BY <2>1, IteChain, TurnUnique
  <2> QED BY <2>1, <2>2, Implications, InitImplications
<1> QED BY <1>1, TypeCorrect, PTL

-----------------------------------------------------------------------------
\* In every reachable state the constraints of the next timestep have a solution for
\* every input of up to me packets per buffer: no traffic is lost to the round robin.
THEOREM NothingExcluded == FairSpec => []Receptive
<1>1. TypeOK => Receptive
  <2> SUFFICES ASSUME TypeOK, NEW inp \in [Bufs -> 0 .. me]
               PROVE  \E e \in [Bufs -> 0 .. me], s \in Bufs :
                        timestep(inp, e, [n \in Bufs |-> enq_deq_sum(inp[n], e[n])],
                                 [n \in Bufs |-> backlogged(C[n], e[n])], s,
                                 out([n \in Bufs |-> backlogged(C[n], e[n])], s),
                                 [n \in Bufs |-> remaining(C[n], e[n],
                                    out([m \in Bufs |-> backlogged(C[m], e[m])], s)[n])])
    BY DEF Receptive
  <2>1. C \in [Bufs -> 0 .. c] /\ S \in Bufs
    BY DEF TypeOK, bounds
  <2>2. PICK e, d, b : arrivals(C, inp, e, d, b)
    BY <2>1, ArrivalsPossible
  <2>3. e \in [Bufs -> 0 .. me] /\ b \in [Bufs -> BOOLEAN]
    BY <2>1, <2>2, ArrivalsType
  <2>4. /\ d = [n \in Bufs |-> enq_deq_sum(inp[n], e[n])]
        /\ b = [n \in Bufs |-> backlogged(C[n], e[n])]
    BY <2>2 DEF arrivals
  <2>5. PICK s \in Bufs : trs(S, b, s)
    BY <2>1, <2>3, IteChain
  <2>6. /\ out(b, s) \in [Bufs -> 0 .. 1]
        /\ \A n \in Bufs : out(b, s)[n] = 1 => b[n]
    BY <2>3, OutType, OutOfTurn
  <2>7. PICK pcp : departures(C, e, out(b, s), pcp)
    BY <2>1, <2>2, <2>6, DeparturesPossible
  <2>8. pcp = [n \in Bufs |-> remaining(C[n], e[n], out(b, s)[n])]
    BY <2>7 DEF departures
  <2>9. timestep(inp, e, d, b, s, out(b, s), pcp)
    BY <2>2, <2>5, <2>7 DEF timestep
  <2> QED BY <2>3, <2>4, <2>8, <2>9
<1> QED BY <1>1, TypeCorrect, PTL
=============================================================================
