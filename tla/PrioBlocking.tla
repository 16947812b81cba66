---------------------------- MODULE PrioBlocking ----------------------------
(***************************************************************************)
(* Blocking in the strict-priority CP, which is what PrioSTS::query is     *)
(* about: a buffer is blocked in a timestep when it is backlogged and      *)
(* sends nothing.  PrioSTS with a history variable.                        *)
(***************************************************************************)
EXTENDS PrioSTS

VARIABLE quiet  \* quiet[i]: timesteps buffer i has been blocked while nothing
                \*           was enqueued in a buffer of higher priority

blockVars == <<I, E, D, B, O, C, quiet>>

\* Where `quiet' stops counting: beyond every bound DrainBound states.
MaxQuiet == (num_bufs - 1) * c

quietAfter(q, e, b, o) ==
  [i \in Bufs |-> IF blocked(i, b, o) /\ \A j \in Bufs : j < i => e[j] = 0
                  THEN Least(q[i] + 1, MaxQuiet) ELSE 0]

BlockInit == Init /\ quiet = quietAfter(Empty, E, B, O)

\* Buffers and PrioSTS::out determine each timestep; that PrioSTS::trs adds nothing
\* to them is TrsRedundant, so this is the CP as it is.
BlockNext == OutNext /\ quiet' = quietAfter(quiet, E', B', O')

-----------------------------------------------------------------------------
\* PrioSTS::query can only be satisfied by traffic: once nothing more arrives
\* before it, buffer i is blocked no longer than the i full buffers before it
\* take to drain, one of whose packets left in the timestep they filled up.
DrainBound ==
  \A i \in Bufs : quiet[i] <= (IF i = 0 THEN 0 ELSE i * c - 1)
=============================================================================
