---------------------------- MODULE LeafTopology ----------------------------
(***************************************************************************)
(* The leaf-spine network as src/lst.cpp computes it: every leaf has       *)
(* hosts_per_leaf hosts, at ports 0 .. hosts_per_leaf - 1, and a port to   *)
(* each spine after them; port l of a spine leads to leaf l.  A packet     *)
(* type stands for a destination host and the spine that ECMP chose.       *)
(***************************************************************************)
EXTENDS Integers

CONSTANTS num_spines, leafs_per_spine, hosts_per_leaf

ASSUME TopologyAssumption ==
  num_spines \in Nat \ {0} /\ leafs_per_spine \in Nat \ {0} /\ hosts_per_leaf \in Nat \ {0}

total_hosts == leafs_per_spine * hosts_per_leaf
Leafs == 0 .. leafs_per_spine - 1
Spines == 0 .. num_spines - 1
Hosts == 0 .. total_hosts - 1
Types == 0 .. num_spines * total_hosts - 1

get_pkt_type_to_dst_index == [k \in Types |-> k % total_hosts]
get_pkt_type_to_spine_index == [k \in Types |-> k \div total_hosts]

\* -1 for the ports to hosts.
get_port_to_ecmp ==
  [p \in 0 .. hosts_per_leaf + num_spines - 1 |->
     IF p < hosts_per_leaf THEN -1 ELSE p - hosts_per_leaf]

\* The input a port of a leaf is for; -1 for the ports to spines.
get_port_index_to_input_index(leaf) ==
  [p \in 0 .. hosts_per_leaf + num_spines - 1 |->
     IF p < hosts_per_leaf THEN hosts_per_leaf * leaf + p ELSE -1]

\* The buffers of a leaf: not from a port to itself, not from spine to spine.
get_leaf_ports ==
  LET all == 0 .. hosts_per_leaf + num_spines - 1
  IN  {v \in all \X all : v[1] # v[2] /\ (v[1] < hosts_per_leaf \/ v[2] < hosts_per_leaf)}

\* MUTANT of get_pkt_type_to_next_hop_port: one host too many is in the leaf.
get_pkt_type_to_next_hop_port_Inclusive(leaf) ==
  [k \in Types |->
     LET host == k % total_hosts
     IN  IF host \in leaf * hosts_per_leaf .. (leaf + 1) * hosts_per_leaf
         THEN host % hosts_per_leaf
         ELSE hosts_per_leaf + (k \div total_hosts)]

get_pkt_type_to_next_hop_port(leaf) ==
  [k \in Types |->
     LET host == k % total_hosts
     IN  IF host \in leaf * hosts_per_leaf .. (leaf + 1) * hosts_per_leaf - 1
         THEN host % hosts_per_leaf
         ELSE hosts_per_leaf + (k \div total_hosts)]

\* MUTANT of get_pkt_type_to_next_hop_port_spine: the port of the host, not of its
\* leaf.
get_pkt_type_to_next_hop_port_spine_Host ==
  [k \in Types |-> (k % total_hosts) % leafs_per_spine]

get_pkt_type_to_next_hop_port_spine ==
  [k \in Types |-> (k % total_hosts) \div hosts_per_leaf]

\* The buffers of a spine, each with the types of the hosts of the leaf it leads to.
get_spine_port_map(spine) ==
  [v \in {w \in Leafs \X Leafs : w[1] # w[2]} |->
     {spine * total_hosts + hosts_per_leaf * v[2] + h : h \in 0 .. hosts_per_leaf - 1}]
=============================================================================
