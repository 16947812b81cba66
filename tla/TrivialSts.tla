----------------------------- MODULE TrivialSts -----------------------------
(***************************************************************************)
(* The contention point without a scheduler: class TrivialSts of           *)
(* src/src/trivial_sts.cpp, whose out, init and trs are all true.  Only    *)
(* the buffers of STSChecker constrain what is sent, so this is the        *)
(* abstract specification every CP implements, and what it promises about  *)
(* buffers every CP keeps.                                                 *)
(***************************************************************************)
EXTENDS STSChecker

\* No constraint but the bounds of the array O.
out(o) == o \in [Bufs -> 0 .. md]

Init ==
  /\ arrivals(Empty, I, E, D, B)
  /\ out(O)
  /\ departures(Empty, E, O, C)

Next ==
  /\ arrivals(C, I', E', D', B')
  /\ out(O')
  /\ departures(C, E', O', C')

Spec == Init /\ [][Next]_bufVars

-----------------------------------------------------------------------------
\* The arrays stay in the ranges the constructor declares.
TypeOK == bounds
=============================================================================
