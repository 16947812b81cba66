-------------------------------- MODULE Loom --------------------------------
(***************************************************************************)
(* The Loom case study: class Composed of src/loom.cpp.  Round-robin CPs   *)
(* feed a merger, the merger a classifier, the classifier the two buffers  *)
(* of a strict-priority CP.                                                *)
(*                                                                         *)
(* Packets have types (Vectors).  enqs, drops and the schedulers compare   *)
(* vectors with numbers, which is to compare their sums, and are therefore *)
(* those of the other modules.                                             *)
(*                                                                         *)
(* The outputs of a CP are the inputs of the next in the same timestep.  A *)
(* timestep is evaluated along that flow: each round robin in the order of *)
(* the vector rrs, then the rest.                                          *)
(*                                                                         *)
(* Left out: the windows.  loom.cpp leaves use_win true, so that its CPs   *)
(* have them.  They can only remove behaviours: what Accounted, Type2First *)
(* and MergerIsWire say of every step stays true, and PriorityAccepts and  *)
(* Drains are about the CPs without them.  TypedWinds is about what they   *)
(* remove, nothing that a FIFO queue does until it has sent c packets; the *)
(* recorded runs, 10 timesteps with c of 10 or more, end before that.      *)
(* Left out too: the trs of PrioSTS, which TrsExcludesNothing of           *)
(* PrioSTS_proofs shows to follow from its out; the lower bounds of        *)
(* base_wl on the traffic.                                                 *)
(***************************************************************************)
EXTENDS Vectors, Sequences

CONSTANTS
  NumRR,    \* the number of round robins: 4 in the code
  c,        \* capacity of every buffer
  MAX_ENQ,  \* bound on what a buffer enqueues, or drops, of one type
  MAX_DEQ

ASSUME LoomAssumption ==
  /\ NumRR \in Nat \ {0}
  /\ c \in Nat \ {0}
  /\ MAX_ENQ \in Nat \ {0}
  /\ MAX_DEQ \in Nat \ {0}

VARIABLES
  rrC,   \* rrC[r][b]: the packets in buffer b of round robin r
  rrS,   \* the turns; NoTurn before timestep 0
  mgC,   \* mgC[r]: the packets in the buffer of the merger that r feeds
  prC,   \* prC[b]: the packets in buffer b of the priority CP
  link,  \* what the round robins sent in this timestep, as far as evaluated
  O      \* what left the system, once the timestep is evaluated

vars == <<rrC, rrS, mgC, prC, link, O>>

RRs == 1 .. NumRR
Bufs == 0 .. 1
NoTurn == 2

RR == INSTANCE RRChecker
        WITH num_bufs <- 2, me <- MAX_ENQ, md <- MAX_DEQ, MAX_I <- MAX_ENQ,
             I <- rrC, E <- rrC, D <- rrC, B <- rrC, C <- rrC, S <- rrS

Prio == INSTANCE PrioSTS
          WITH num_bufs <- 2, me <- MAX_ENQ, md <- MAX_DEQ, MAX_I <- MAX_ENQ,
               I <- prC, E <- prC, D <- prC, B <- prC, C <- prC

-----------------------------------------------------------------------------
\* MUTANT of arrives: the bound on D is one too low.
arrives_Strict(pc, i, e) ==
  LET d == [k \in Types |-> RR!enq_deq_sum(i[k], e[k])]
      b == RR!backlogged(sum(pc), sum(e))
  IN  /\ e \in vec(MAX_ENQ) /\ d \in vec(MAX_ENQ - 1)
      /\ RR!enqs(sum(pc), sum(e))
      /\ RR!drops(sum(pc), sum(e), sum(d), b)

\* A buffer holding pc enqueues e of the packets i, the rest being dropped.
arrives(pc, i, e) ==
  LET d == [k \in Types |-> RR!enq_deq_sum(i[k], e[k])]
      b == RR!backlogged(sum(pc), sum(e))
  IN  /\ e \in vec(MAX_ENQ) /\ d \in vec(MAX_ENQ)
      /\ RR!enqs(sum(pc), sum(e))
      /\ RR!drops(sum(pc), sum(e), sum(d), b)

\* What is left when o leaves.
left(pc, e, o) == [k \in Types |-> RR!remaining(pc[k], e[k], o[k])]

\* What a buffer can enqueue of the packets i.
enqueues(pc, i) == {e \in vec(MAX_ENQ) : arrives(pc, i, e)}

\* The ways n packets can leave.  Which packet leaves is not determined: a buffer
\* counts its packets of each type and keeps no order among them.
departures(pc, e, n) == {o \in vec(MAX_DEQ) : sum(o) = n /\ left(pc, e, o) \in vec(c)}

\* The buffers of a CP of two, from what they have in common.
both(x, y) == [n \in Bufs |-> IF n = 0 THEN x ELSE y]
backlog(pc, e) == [n \in Bufs |-> RR!backlogged(sum(pc[n]), sum(e[n]))]

-----------------------------------------------------------------------------
\* LoomStsRunner::base_wl: input i carries type i % 3 only; buffer 0 of round
\* robin r has input 3r, buffer 1 the sum of inputs 3r + 1 and 3r + 2.
inputs(n) == {i \in vec(MAX_ENQ) : \A k \in Types : (n = 0) # (k = 0) => i[k] = 0}

\* A round robin with turn s, of which bp are backlogged, gives its turn to sp.
turn(s, bp, sp) == IF s = NoTurn THEN RR!init(bp, sp) ELSE RR!trs(s, bp, sp)

\* MUTANT of merger_out: a buffer that was empty waits a timestep.
merger_out_Late(pc, e) == departures(pc, e, IF sum(pc) > 0 THEN 1 ELSE 0)

\* Merger::out: a backlogged buffer sends one packet.  Of the others it says
\* nothing.
merger_out(pc, e) ==
  UNION {departures(pc, e, n) :
           n \in IF RR!backlogged(sum(pc), sum(e)) THEN {1} ELSE 0 .. 3 * MAX_DEQ}

\* MUTANT of set_out: the two buffers are exchanged.
set_out_Swapped(v) == both([v EXCEPT ![2] = 0], [v EXCEPT ![0] = 0, ![1] = 0])

\* MUTANT of set_out: type 1 goes to both buffers.
set_out_Both(v) == both([v EXCEPT ![0] = 0], [v EXCEPT ![2] = 0])

\* Classifier::set_out: type 2 to the first buffer, types 0 and 1 to the second.
set_out(v) == both([v EXCEPT ![0] = 0, ![1] = 0], [v EXCEPT ![2] = 0])

\* What the classifier is given: the sum of the merger's outputs.
merged(o) ==
  LET upTo[r \in 0 .. NumRR] == IF r = 0 THEN None ELSE plus(upTo[r - 1], o[r])
  IN  upTo[NumRR]

\* The priority CP, holding pc and offered i: its next contents and its output.
priority(pc, i) ==
  UNION {LET e == both(e0, e1)
             sent(n) == departures(pc[n], e[n], Prio!out(backlog(pc, e))[n])
         IN  {<<left(pc[0], e0, o0), left(pc[1], e1, o1), plus(o0, o1)>> :
                o0 \in sent(0), o1 \in sent(1)} :
           e0 \in enqueues(pc[0], i[0]), e1 \in enqueues(pc[1], i[1])}

-----------------------------------------------------------------------------
Init ==
  /\ rrC = [r \in RRs |-> both(None, None)]
  /\ rrS = [r \in RRs |-> NoTurn]
  /\ mgC = [r \in RRs |-> None]
  /\ prC = both(None, None)
  /\ link = <<>>
  /\ O = None

\* Buffer r of the merger is offered p.
Merger(r, p) ==
  \E e \in enqueues(mgC[r], p) : \E o \in merger_out(mgC[r], e) :
    /\ mgC' = [mgC EXCEPT ![r] = left(@, e, o)]
    /\ link' = Append(link, o)

\* The next round robin and the merger's buffer behind it.  What the round robin
\* drops has no effect: the packets it enqueues are an input it can be offered.
Branch ==
  LET r == Len(link) + 1
      sent(e, s, n) ==
        departures(rrC[r][n], e[n], RR!out(backlog(rrC[r], e), s)[n])
  IN
  /\ r <= NumRR
  /\ \E e0 \in inputs(0), e1 \in inputs(1), s \in Bufs :
       LET e == both(e0, e1) IN
       /\ \A n \in Bufs : arrives(rrC[r][n], e[n], e[n])
       /\ turn(rrS[r], backlog(rrC[r], e), s)
       /\ \E o0 \in sent(e, s, 0), o1 \in sent(e, s, 1) :
            /\ rrC' = [rrC EXCEPT ![r] = [n \in Bufs |-> left(@[n], e[n], both(o0, o1)[n])]]
            /\ Merger(r, plus(o0, o1))
       /\ rrS' = [rrS EXCEPT ![r] = s]
  /\ O' = None
  /\ UNCHANGED prC

\* The classifier and the priority CP complete the timestep.
Priority ==
  /\ Len(link) = NumRR
  /\ \E out \in priority(prC, set_out(merged(link))) :
       /\ prC' = both(out[1], out[2])
       /\ O' = out[3]
  /\ link' = <<>>
  /\ UNCHANGED <<rrC, rrS, mgC>>

Next == Branch \/ Priority

\* A timestep always has a successor: time does not stop.
Spec == Init /\ [][Next]_vars /\ WF_vars(Next)

-----------------------------------------------------------------------------
\* The contents of a buffer, and what one buffer or CP sends in a timestep.
buffer == {v \in vec(c) : sum(v) <= c}
packet == {v \in vec(1) : sum(v) <= 1}

\* Types and bounds of the state.  At most one packet is on a link: Composed
\* sums the outputs of a CP's buffers, of which only one sends.
LoomTypeOK ==
  /\ rrC \in [RRs -> [Bufs -> buffer]]
  /\ rrS \in [RRs -> Bufs \cup {NoTurn}]
  /\ mgC \in [RRs -> buffer]
  /\ prC \in [Bufs -> buffer]
  /\ link \in UNION {[1 .. n -> packet] : n \in 0 .. NumRR}
  /\ O \in packet

\* The merger is a wire.  Merger::out says nothing of a buffer without backlog
\* and lets a buffer hold packets back, but because a round robin sends at most
\* one packet its buffers are always empty, and then the constraints leave one
\* behaviour: the packet is enqueued, sent on in the same timestep, never dropped.
MergerIsWire ==
  \A r \in RRs :
    /\ mgC[r] = None
    /\ \A p \in packet : enqueues(mgC[r], p) = {p} /\ merger_out(mgC[r], p) = {p}

\* The composition never excludes what the round robins send: the priority CP has
\* a step for every load up to one packet from each.  A full buffer must drop the
\* whole load, which its bound on D allows only if NumRR <= MAX_ENQ.  (The code's
\* four round robins meet its MAX_ENQ of four exactly.)
PriorityAccepts ==
  \A v \in vec(NumRR) : sum(v) <= NumRR => priority(prC, set_out(v)) # {}

\* Nothing is lost or made between the round robins and the output: of each type,
\* what leaves and what stays is what was there and what the round robins sent,
\* less what a full buffer of the priority CP drops.
AccountedStep ==
  Len(link) = NumRR =>
    LET held(k) == prC[0][k] + prC[1][k] + merged(link)[k]
        lost(k) == held(k) - O'[k] - prC'[0][k] - prC'[1][k]
    IN  /\ \A k \in Types : lost(k) >= 0
        /\ lost(2) > 0 => prC[0][2] + merged(link)[2] > c
        /\ lost(0) + lost(1) > 0 =>
             sum(prC[1]) + merged(link)[0] + merged(link)[1] > c
Accounted == [][AccountedStep]_vars

\* Type 2 goes first through the whole system: in a timestep in which a packet of
\* another type leaves, no packet of type 2 waited in the priority CP and none
\* arrived there.
Type2FirstStep == O'[0] + O'[1] > 0 => prC[0] = None /\ merged(link)[2] = 0
Type2First == [][Type2FirstStep]_vars

\* The round robin evaluated in this step enqueued nothing.
Silent ==
  Len(link') > Len(link) =>
    LET r == Len(link')
        all(C) == sum(C[r][0]) + sum(C[r][1])
    IN  all(rrC') = all(rrC) - sum(link'[r])

\* Whatever is in the system when its inputs fall silent leaves it: no turn, no
\* backlog and no pair of buffers can hold packets for good.
Drains ==
  <>[][Silent]_vars =>
    []<>(prC = both(None, None) /\ \A r \in RRs : rrC[r] = both(None, None))
=============================================================================
