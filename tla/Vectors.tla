------------------------------ MODULE Vectors ------------------------------
(***************************************************************************)
(* The vectors of src/src/lib.cpp: numbers of packets of each type, as     *)
(* functions of the type.  A comparison of two vectors is elementwise, one *)
(* of a vector with a number is about the vector's sum.                    *)
(***************************************************************************)
EXTENDS Integers

\* The packet types of the Loom case study, the CPs with more than one.
Types == 0 .. 2

\* The vectors that add_bound allows.
vec(bound) == [Types -> 0 .. bound]

None == [k \in Types |-> 0]

sum(v) == v[0] + v[1] + v[2]
plus(u, v) == [k \in Types |-> u[k] + v[k]]
minus(u, v) == [k \in Types |-> u[k] - v[k]]
leq(u, v) == \A k \in Types : u[k] <= v[k]
=============================================================================
