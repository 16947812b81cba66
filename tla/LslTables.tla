----------------------------- MODULE LslTables -----------------------------
(***************************************************************************)
(* The same network as src/lsl.cpp has it, in tables written by hand: two  *)
(* spines, three leafs l1, l2 and l3 (0, 1 and 2 here), two hosts each.    *)
(***************************************************************************)
EXTENDS Integers, Sequences

\* The vectors of the code start at 0.
vector(s) == [n \in 0 .. Len(s) - 1 |-> s[n + 1]]

pkt_type_to_dst == vector(<<0, 1, 2, 3, 4, 5, 0, 1, 2, 3, 4, 5>>)
pkt_type_to_ecmp == vector(<<0, 0, 0, 0, 0, 0, 1, 1, 1, 1, 1, 1>>)

l_ports == {<<0, 1>>, <<0, 2>>, <<0, 3>>, <<1, 0>>, <<1, 2>>, <<1, 3>>,
            <<2, 0>>, <<2, 1>>, <<3, 0>>, <<3, 1>>}

l_pkt_type_to_nxt_hop ==
  vector(<<vector(<<0, 1, 2, 2, 2, 2, 0, 1, 3, 3, 3, 3>>),
           vector(<<2, 2, 0, 1, 2, 2, 3, 3, 0, 1, 3, 3>>),
           vector(<<2, 2, 2, 2, 0, 1, 3, 3, 3, 3, 0, 1>>)>>)

port_to_ecmp == vector(<<-1, -1, 0, 1>>)

l_src_port_to_input ==
  vector(<<vector(<<0, 1, -1, -1>>), vector(<<2, 3, -1, -1>>), vector(<<4, 5, -1, -1>>)>>)

\* s1_ports and s2_ports: the types for leaf 0, 1 and 2 behind each spine.
s_ports ==
  LET types == vector(<<vector(<<{0, 1}, {2, 3}, {4, 5}>>),
                        vector(<<{6, 7}, {8, 9}, {10, 11}>>)>>)
      pairs == {<<0, 1>>, <<0, 2>>, <<1, 0>>, <<1, 2>>, <<2, 0>>, <<2, 1>>}
  IN  [s \in 0 .. 1 |-> [v \in pairs |-> types[s][v[2]]]]

s_pkt_type_to_nxt_hop == vector(<<0, 0, 1, 1, 2, 2, 0, 0, 1, 1, 2, 2>>)

\* The buffers the query of lsl.cpp sums: what waits on the way from host 0 to
\* host 5 through the first spine.  A buffer is named by its switch and its ports.
path_C == <<<<<<"leaf", 0>>, <<0, 2>>>>, <<<<"spine", 0>>, <<0, 2>>>>, <<<<"leaf", 2>>, <<2, 1>>>>>>
=============================================================================
