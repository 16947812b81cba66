-------------------------------- MODULE MCRR --------------------------------
(***************************************************************************)
(* RRFairness for TLC, and the checks of its trs against the code's two    *)
(* formulations of the same step.                                          *)
(***************************************************************************)
EXTENDS RRFairness

\* RRChecker::trs as it is written: ite over the buffers num_bufs-1 .. 1 steps
\* ahead of s, so that the nearest one decides last.
trs_ite(s, bp) ==
  LET x[j \in 0 .. num_bufs - 1] ==
        LET l == (s - j + num_bufs) % num_bufs
        IN  IF j = 0 THEN s ELSE IF bp[l] THEN l ELSE x[j - 1]
  IN  x[num_bufs - 1]

\* turn_transition, the earlier formulation the file keeps: implications over
\* the buffers 1 .. num_bufs-1 steps ahead, x saying none before was backlogged.
turn_transition(s, bp, sp) ==
  LET ahead(j) == (s + j) % num_bufs
      x(j) == \A h \in 1 .. j - 1 : ~bp[ahead(h)]
  IN  /\ \A j \in 1 .. num_bufs - 1 : x(j) /\ bp[ahead(j)] => sp = ahead(j)
      /\ x(num_bufs) => sp = s

\* RRChecker::init as it is written: implications over the buffers in order.
init_implies(b, s) ==
  /\ \A i \in Bufs : b[i] /\ (\A j \in 0 .. i - 1 : ~b[j]) => s = i
  /\ (\A i \in Bufs : ~b[i]) => s = 0

-----------------------------------------------------------------------------
\* The formulations agree wherever the turn is, on every backlog and next turn:
\* the ite chain of RRChecker::trs, the implications of turn_transition and those
\* of RRChecker::init each name the first backlogged buffer in their order.
FormulationsAgree ==
  \A s \in Bufs, b \in [Bufs -> BOOLEAN] :
    /\ init(b, S) <=> init_implies(b, S)
    /\ trs(S, b, s) <=> s = trs_ite(S, b)
    /\ trs(S, b, s) <=> turn_transition(S, b, s)
=============================================================================
