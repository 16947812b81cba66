----------------------------- MODULE RRFairness -----------------------------
(***************************************************************************)
(* How fair the round-robin CP is, for every buffer, every pair of buffers *)
(* and every input.  RRChecker with two history variables, which record    *)
(* the past and constrain nothing.                                         *)
(***************************************************************************)
EXTENDS RRChecker

VARIABLES
  wait,  \* wait[i]: timesteps buffer i has been backlogged without sending
  lead   \* lead[i][j]: the most packets by which i has sent more than j in any
         \*             stretch of timesteps up to now, those not counted that i
         \*             sent while j had nothing to send

fairVars == <<I, E, D, B, O, C, S, wait, lead>>

\* A history variable per buffer (pair), extended by one timestep.  RRChecker::query
\* compares what two buffers have sent in each of some timesteps; lead adds it up.
waitAfter(w, b, o) ==
  [i \in Bufs |-> IF b[i] /\ o[i] = 0 THEN w[i] + 1 ELSE 0]
leadAfter(l, b, o) ==
  [i \in Bufs |-> [j \in Bufs |->
     LET n == l[i][j] + (IF b[j] THEN o[i] ELSE 0) - o[j]
     IN  IF n < 0 THEN 0 ELSE n]]

FairInit ==
  /\ Init
  /\ wait = waitAfter(Empty, B, O)
  /\ lead = leadAfter([i \in Bufs |-> Empty], B, O)

FairNext ==
  /\ Next
  /\ wait' = waitAfter(wait, B', O')
  /\ lead' = leadAfter(lead, B', O')

FairSpec == FairInit /\ [][FairNext]_fairVars

-----------------------------------------------------------------------------
TypeOK ==
  /\ bounds
  /\ S \in Bufs
  /\ wait \in [Bufs -> Nat]
  /\ lead \in [Bufs -> [Bufs -> Nat]]

\* No starvation, with the exact bound: a backlogged buffer sends within
\* num_bufs timesteps, since RRChecker::trs passes every other backlogged buffer
\* at most once before it returns.
BoundedWait == \A i \in Bufs : wait[i] <= num_bufs - 1

\* Pairwise fairness: in no stretch of timesteps does a buffer send more than one
\* packet more than another, those not counted that it sends while the other has
\* none.  RRChecker::query asks for a lead of 3 over a whole run: by this property
\* buffer 2 must have sent in two timesteps at least in which buffer 1 was empty.
FairShare == \A i, j \in Bufs : lead[i][j] <= 1

\* Work conservation: exactly one packet leaves when some buffer is backlogged,
\* none otherwise, although RRChecker::out looks at the turn only.
WorkConserving ==
  /\ (\E i \in Bufs : B[i]) => \E i \in Bufs :
       O[i] = 1 /\ \A j \in Bufs \ {i} : O[j] = 0
  /\ (\A i \in Bufs : ~B[i]) => O = Empty

\* Every input the workload language can ask for, up to me packets per buffer,
\* is possible in every reachable state: the constraints of the buffers, the
\* scheduler and the bounds never exclude one, so an UNSAT answer is about all
\* traffic.  (Any enqueues and turn; the other arrays have no other value.)
Receptive ==
  \A inp \in [Bufs -> 0 .. me] : \E e \in [Bufs -> 0 .. me], s \in Bufs :
    LET d == [n \in Bufs |-> enq_deq_sum(inp[n], e[n])]
        b == [n \in Bufs |-> backlogged(C[n], e[n])]
        o == out(b, s)
        pcp == [n \in Bufs |-> remaining(C[n], e[n], o[n])]
    IN  timestep(inp, e, d, b, s, o, pcp)

-----------------------------------------------------------------------------
(***************************************************************************)
(* The inductive invariant.  wait[i] grows by one for each buffer the turn *)
(* passes on its way to i, so it is bounded by how far the turn has come:  *)
(* num_bufs less what is left of the way.  And if a buffer leads another,  *)
(* the other one still has a packet and the turn meets it first: what the  *)
(* leading buffer did since, or whether it ran empty, does not matter.     *)
(***************************************************************************)
WaitInv ==
  \A i \in Bufs : wait[i] > 0 => wait[i] + fwd(S, i) <= num_bufs

LeadInv ==
  \A i, j \in Bufs :
    lead[i][j] > 0 => C[j] > 0 /\ fwd(S, j) < fwd(S, i)

IInv == TypeOK /\ WaitInv /\ FairShare /\ LeadInv
=============================================================================
