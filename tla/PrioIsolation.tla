---------------------------- MODULE PrioIsolation ----------------------------
(***************************************************************************)
(* Isolation in the strict-priority CP: what happens in the first k        *)
(* buffers does not depend on the others.  PrioBlocking runs beside a      *)
(* second copy of PrioSTS, on inputs that agree on the first k buffers and *)
(* are otherwise unrelated.                                                *)
(***************************************************************************)
EXTENDS PrioBlocking

CONSTANT k  \* the buffers 0 .. k-1 get the same input in both copies

ASSUME kAssumption == k \in 1 .. num_bufs

VARIABLES I2, E2, D2, B2, O2, C2

Other == INSTANCE PrioSTS
           WITH I <- I2, E <- E2, D <- D2, B <- B2, O <- O2, C <- C2

isoVars == <<I, E, D, B, O, C, quiet, I2, E2, D2, B2, O2, C2>>

High == 0 .. k - 1

SameInput(i) == {j \in [Bufs -> 0 .. MAX_I] : \A n \in High : i[n] = j[n]}

IsoInit == BlockInit /\ I2 \in SameInput(I) /\ Other!Init

IsoNext == BlockNext /\ I2' \in SameInput(I') /\ Other!Next

IsoSpec == IsoInit /\ [][IsoNext]_isoVars

-----------------------------------------------------------------------------
\* Nothing a buffer of lower priority receives changes what PrioSTS::out sends
\* from the first k buffers, what they drop or what they hold, at any time.
Isolation ==
  \A n \in High : O[n] = O2[n] /\ D[n] = D2[n] /\ C[n] = C2[n]
=============================================================================
