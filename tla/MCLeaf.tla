------------------------------- MODULE MCLeaf -------------------------------
(***************************************************************************)
(* A switch with three ports, and a buffer between every two of them: the  *)
(* spine of lsl.cpp.                                                       *)
(***************************************************************************)
EXTENDS LeafSwitch

MCPorts == {v \in (0 .. 2) \X (0 .. 2) : v[1] # v[2]}
=============================================================================
