------------------------------ MODULE LeafBase ------------------------------
(***************************************************************************)
(* The virtual output queues of a leaf or spine switch: class LeafBase of  *)
(* src/src/leaf_spine/leaf_base.cpp and its LeafBuff.  A buffer is a pair  *)
(* <<src, dst>> of ports.                                                  *)
(*                                                                         *)
(* The timing is not that of STSChecker: C is the backlog at the beginning *)
(* of a timestep, and what is enqueued in a timestep can leave in the next *)
(* one only.                                                               *)
(*                                                                         *)
(* Counts are scalars.  The constraints on a buffer compare sums over      *)
(* packet types, and a port carries packets of one type in a timestep:     *)
(* `valid' says so of the hosts, and a link carries what one match sends.  *)
(* The scheduler (init, trs, out) is virtual: FperfLeafSts and LeafSts.    *)
(***************************************************************************)
EXTENDS Integers, FiniteSets

CONSTANTS
  ports,     \* the keys of buffs: pairs <<src, dst>>
  used,      \* the buffers some packet type uses; the others are `empty'
  buff_cap,  \* capacity of a buffer
  max_enq,   \* bound on the packets enqueued, and dropped, in a timestep
  MAX_I      \* bound on the packets offered in a timestep

\* lsl.cpp and lst.cpp pass max_enq = 4 and 5, a capacity of at least 10; MAX_I is 10.
ASSUME LeafAssumption ==
  /\ ports \subseteq Nat \X Nat
  /\ IsFiniteSet(ports) /\ ports # {}
  /\ used \subseteq ports
  /\ buff_cap \in Nat \ {0}
  /\ max_enq \in 1 .. buff_cap
  /\ MAX_I \in Nat /\ max_enq <= MAX_I

VARIABLES
  C,       \* C[v]: packets in buffer v at the beginning of the timestep
  matched  \* the buffers that send in this timestep

get_in_ports == {v[1] : v \in ports}
get_out_ports == {v[2] : v \in ports}
get_buffs_for_src(s) == {v[2] : v \in {w \in ports : w[1] = s}}
get_buffs_for_dst(d) == {v[1] : v \in {w \in ports : w[2] = d}}

\* The maps are ordered by port: buffer 0 of a port is the one to its least peer.
First(S) == CHOOSE x \in S : \A y \in S : x <= y

\* The cyclic order of a round robin that last served h: x has its turn before y.
precedes(h, x, y) ==
  \/ h < x /\ x < y
  \/ x < y /\ y <= h
  \/ y <= h /\ h < x

-----------------------------------------------------------------------------
\* B: the buffers that can send.  In timestep 0 every buffer is empty.
backlogged(c) == {v \in used : c[v] > 0}

\* [9], [10]
enqs(c, e) == e + c <= buff_cap

\* [11], [12]: only a full buffer drops, and only if it held a packet before.
drops(c, e, d) == IF c > 0 THEN d > 0 => c + e = buff_cap ELSE d = 0

enq_deq_sum(e, d) == e + d

\* The constraints on one buffer that has c packets and is offered i.
accepts(c, i, e, d) ==
  /\ i \in 0 .. MAX_I /\ e \in 0 .. max_enq /\ d \in 0 .. max_enq
  /\ i = enq_deq_sum(e, d)
  /\ enqs(c, e)
  /\ drops(c, e, d)

\* [6], [8]: the next backlog, what was enqueued being e.
remaining(e) ==
  [v \in ports |-> C[v] + e[v] - (IF v \in matched THEN 1 ELSE 0)]

\* One timestep of the buffers, e being what is enqueued of some input.  A buffer
\* without a packet type is all zeros.
inputs(e) ==
  /\ \A v \in used : \E i \in 0 .. MAX_I, d \in 0 .. max_enq : accepts(C[v], i, e[v], d)
  /\ \A v \in ports \ used : e[v] = 0

bl_size(e) == C' = remaining(e) /\ \A v \in used : C'[v] \in 0 .. buff_cap

bl_init == C = [v \in ports |-> 0]

-----------------------------------------------------------------------------
\* A buffer takes what fits and drops the rest: for each backlog the constraints
\* accept every input up to max_enq, in one way.
TakesWhatFits ==
  \A v \in used : \A i \in 0 .. max_enq :
    \A e, d \in 0 .. max_enq :
      accepts(C[v], i, e, d)
        <=> /\ e = IF i <= buff_cap - C[v] THEN i ELSE buff_cap - C[v]
            /\ d = i - e
=============================================================================
