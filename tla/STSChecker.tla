----------------------------- MODULE STSChecker -----------------------------
(***************************************************************************)
(* The buffers every contention point (CP) of Count Buffy is built on:     *)
(* class STSChecker of src/src/sts_checker.cpp.                            *)
(*                                                                         *)
(* The class emits Z3 constraints over arrays indexed by buffer and by     *)
(* timestep.  A satisfying assignment is a behaviour: the arrays at one    *)
(* timestep are a state, the constraints at timestep 0 are an initial      *)
(* predicate, those relating j-1 and j are a next-state relation.  That    *)
(* is how they are written here.  The horizon `timesteps' is left out, so  *)
(* what holds of these behaviours holds for every horizon.                 *)
(*                                                                         *)
(* Counts are scalars: the rr, prio, fq and hello-world programs all run   *)
(* with one packet type (PKT_TYPES = 1), where the vectors of lib.cpp have *)
(* one element and their sums are that element.                            *)
(*                                                                         *)
(* The module holds no specification of its own: trs, out and init are     *)
(* virtual in the class, and each CP's module supplies them.               *)
(***************************************************************************)
EXTENDS Integers

CONSTANTS
  num_bufs,  \* n:  number of input buffers
  c,         \* c:  capacity of each buffer, in packets
  me,        \* me: bound on the packets enqueued, and dropped, in a timestep
  md,        \* md: bound on the packets dequeued from a buffer in a timestep
  MAX_I      \* bound on the packets offered to a buffer in a timestep

\* The drivers pass MAX_ENQ = 4, MAX_DEQ = 1 and any capacity; MAX_I is 10.
ASSUME ParamsAssumption ==
  /\ num_bufs \in Nat \ {0}
  /\ c \in Nat \ {0}
  /\ me \in Nat \ {0}
  /\ md \in Nat \ {0}
  /\ MAX_I \in Nat
  /\ me <= MAX_I

VARIABLES
  I,  \* I[i]: packets offered to buffer i in this timestep
  E,  \* E[i]: packets of I[i] that were enqueued
  D,  \* D[i]: packets of I[i] that were dropped
  B,  \* B[i]: buffer i held a packet before the dequeue of this timestep
  O,  \* O[i]: packets dequeued from buffer i
  C   \* C[i]: packets left in buffer i at the end of the timestep

bufVars == <<I, E, D, B, O, C>>

Bufs == 0 .. num_bufs - 1

\* The backlog every buffer has before timestep 0.  The constraints the class
\* writes for timestep 0 are those of the later ones with this backlog.
Empty == [i \in Bufs |-> 0]

-----------------------------------------------------------------------------
(***************************************************************************)
(* Constraints on one buffer in one timestep, pc being its backlog at the  *)
(* end of the timestep before.                                             *)
(***************************************************************************)

\* [9], [10]: what is enqueued fits.
enqs(pc, e) == e + pc <= c

\* MUTANT of drops: a packet may be dropped while there is room.
drops_Any(pc, e, d, b) == b \/ d = 0

\* [11], [12]: packets are dropped from a full buffer only.
drops(pc, e, d, b) == IF b THEN d > 0 => pc + e = c ELSE d = 0

\* [7]: a buffer is backlogged when it can send in this timestep.
backlogged(pc, e) == pc + e > 0

\* [6], [8]: what stays in the buffer.
remaining(pc, e, o) == pc + e - o

\* [13]: an offered packet is enqueued or dropped; this is the dropped part.
enq_deq_sum(i, e) == i - e

-----------------------------------------------------------------------------
(***************************************************************************)
(* The constraints on all buffers, split at the scheduler: arrivals fixes  *)
(* i, e, d and b, which the scheduler reads to choose o; departures then   *)
(* fixes what is left.  The bounds of add_bound are conjuncts of both.     *)
(***************************************************************************)
arrivals(pc, i, e, d, b) ==
  /\ i \in [Bufs -> 0 .. MAX_I]
  /\ e \in [Bufs -> 0 .. me]
  /\ \A n \in Bufs : enqs(pc[n], e[n])
  /\ b = [n \in Bufs |-> backlogged(pc[n], e[n])]
  /\ d = [n \in Bufs |-> enq_deq_sum(i[n], e[n])]
  /\ \A n \in Bufs : d[n] \in 0 .. me
  /\ \A n \in Bufs : drops(pc[n], e[n], d[n], b[n])

departures(pc, e, o, pcp) ==
  /\ \A n \in Bufs : remaining(pc[n], e[n], o[n]) \in 0 .. c
  /\ pcp = [n \in Bufs |-> remaining(pc[n], e[n], o[n])]

\* The bounds the constructor puts on its arrays.
bounds ==
  /\ I \in [Bufs -> 0 .. MAX_I]
  /\ E \in [Bufs -> 0 .. me]
  /\ D \in [Bufs -> 0 .. me]
  /\ B \in [Bufs -> BOOLEAN]
  /\ O \in [Bufs -> 0 .. md]
  /\ C \in [Bufs -> 0 .. c]

-----------------------------------------------------------------------------
(***************************************************************************)
(* What a buffer promises, whatever the scheduler does.                    *)
(***************************************************************************)
Least(x, y) == IF x <= y THEN x ELSE y

\* Tail drop.  Readme.md calls a buffer "a fifo queue of packets with finite
\* capacity": it takes what fits and drops the rest, so that the constraints
\* enqs, drops and enq_deq_sum leave the solver no freedom in what it drops.
TailDropStep ==
  \A n \in Bufs : E'[n] = Least(I'[n], c - C[n]) /\ D'[n] = I'[n] - E'[n]
TailDrop == [][TailDropStep]_bufVars
=============================================================================
