------------------------------ MODULE RRChecker ------------------------------
(***************************************************************************)
(* The round-robin contention point: class RRChecker of                    *)
(* src/src/rr_checker.cpp, over the buffers of STSChecker.                 *)
(***************************************************************************)
EXTENDS STSChecker

VARIABLE S  \* S[0] of the code: the buffer whose turn it is

rrVars == <<I, E, D, B, O, C, S>>

\* Steps forward from buffer s to buffer i around the ring, 1 .. num_bufs:
\* a full turn leads from a buffer to itself.
fwd(s, i) == IF i > s THEN i - s ELSE i - s + num_bufs

-----------------------------------------------------------------------------
\* MUTANT of out: two packets leave.
out_Two(b, s) == [i \in Bufs |-> IF b[i] /\ s = i THEN md + 1 ELSE 0]

\* MUTANT of out: the backlog is not tested.
out_NoBacklog(b, s) == [i \in Bufs |-> IF s = i THEN 1 ELSE 0]

\* [5]: the buffer whose turn it is sends one packet if it is backlogged.
out(b, s) == [i \in Bufs |-> IF b[i] /\ s = i THEN 1 ELSE 0]

\* The turn at timestep 0: the first backlogged buffer, buffer 0 if none is.
init(b, s) ==
  IF \E i \in Bufs : b[i]
  THEN b[s] /\ \A i \in Bufs : b[i] => s <= i
  ELSE s = 0

\* MUTANT of trs: the scan starts at the buffer that was just served.
trs_Sticky(s, bp, sp) ==
  IF bp[s] THEN sp = s
  ELSE IF \E i \in Bufs : bp[i]
       THEN bp[sp] /\ \A i \in Bufs : bp[i] => fwd(s, sp) <= fwd(s, i)
       ELSE sp = s

\* MUTANT of trs: the scan always starts at buffer 0.
trs_FromZero(s, bp, sp) ==
  IF \E i \in Bufs : bp[i]
  THEN bp[sp] /\ \A i \in Bufs : bp[i] => sp <= i
  ELSE sp = s

\* MUTANT of trs: the turn moves on whether or not the next buffer has a packet.
trs_Blind(s, bp, sp) == fwd(s, sp) = (IF num_bufs = 1 THEN num_bufs ELSE 1)

\* The next turn.  The code builds a chain of ite from the farthest buffer to
\* the nearest, buffer s itself last: the first backlogged buffer met going
\* forward from s, and s when there is none.
trs(s, bp, sp) ==
  IF \E i \in Bufs : bp[i]
  THEN bp[sp] /\ \A i \in Bufs : bp[i] => fwd(s, sp) <= fwd(s, i)
  ELSE sp = s

-----------------------------------------------------------------------------
Init ==
  /\ arrivals(Empty, I, E, D, B)
  /\ S \in Bufs /\ init(B, S)
  /\ O = out(B, S)
  /\ departures(Empty, E, O, C)

\* The constraints on the arrays of the next timestep.
timestep(i, e, d, b, s, o, pcp) ==
  /\ arrivals(C, i, e, d, b)
  /\ s \in Bufs /\ trs(S, b, s)
  /\ o = out(b, s)
  /\ departures(C, e, o, pcp)

\* One timestep of the CP.
Next == timestep(I', E', D', B', S', O', C')

Spec == Init /\ [][Next]_rrVars

-----------------------------------------------------------------------------
Base == INSTANCE TrivialSts

\* The CP is a scheduler over the buffers of STSChecker and nothing more: what
\* RRChecker::out sends never asks a buffer for more than md packets or for a
\* packet it does not have.
ImplementsBase == Base!Spec
=============================================================================
