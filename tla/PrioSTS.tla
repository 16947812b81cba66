------------------------------ MODULE PrioSTS ------------------------------
(***************************************************************************)
(* The strict-priority contention point: class PrioSTS of                  *)
(* src/src/prio_sts.cpp, over the buffers of STSChecker.  Buffer 0 has the *)
(* highest priority.  The CP has no state of its own: init is true.        *)
(***************************************************************************)
EXTENDS STSChecker

\* MUTANT of out: the loop forgets that a buffer before i was backlogged.
out_NoUntil(b) == [i \in Bufs |-> IF b[i] THEN 1 ELSE 0]

\* MUTANT of out: the last backlogged buffer sends.
out_Reversed(b) ==
  [i \in Bufs |-> IF b[i] /\ \A j \in Bufs : j > i => ~b[j] THEN 1 ELSE 0]

\* MUTANT of out: the loop over the buffers begins at the second one.
out_SkipsFirst(b) ==
  [i \in Bufs |-> IF i > 0 /\ b[i] /\ \A j \in Bufs : j < i => ~b[j] THEN 1 ELSE 0]

\* The first backlogged buffer sends one packet, the others none.
out(b) ==
  [i \in Bufs |-> IF b[i] /\ \A j \in Bufs : j < i => ~b[j] THEN 1 ELSE 0]

\* A backlogged buffer with a backlogged buffer before it stays backlogged.
trs(b, bp) == \A i, l \in Bufs : l > i => (b[i] => (b[l] => bp[l]))

-----------------------------------------------------------------------------
Init ==
  /\ arrivals(Empty, I, E, D, B)
  /\ O = out(B)
  /\ departures(Empty, E, O, C)

\* One timestep as buffers and out alone determine it.
OutNext ==
  /\ arrivals(C, I', E', D', B')
  /\ O' = out(B')
  /\ departures(C, E', O', C')

\* One timestep of the CP.
Next == OutNext /\ trs(B, B')

Spec == Init /\ [][Next]_bufVars

OutSpec == Init /\ [][OutNext]_bufVars

\* What PrioSTS::query counts: buffer i is backlogged and sends nothing.
blocked(i, b, o) == b[i] /\ o[i] = 0

-----------------------------------------------------------------------------
\* PrioSTS::trs is redundant: the buffers and PrioSTS::out alone, OutSpec, never
\* take a step it forbids, so it costs the solver time and excludes nothing.
\* (Readme.md presents it as what enforces the priorities.)
TrsRedundant == Spec

\* Why: a backlogged buffer that has a backlogged buffer before it does not send,
\* so it still holds a packet at the end of the timestep.
KeepsPacket ==
  \A i, l \in Bufs : l > i /\ B[i] /\ B[l] => C[l] > 0

PrioInv == bounds /\ KeepsPacket

Base == INSTANCE TrivialSts

\* The CP is a scheduler over the buffers of STSChecker and nothing more.
ImplementsBase == Base!Spec
=============================================================================
