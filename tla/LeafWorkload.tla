---------------------------- MODULE LeafWorkload ----------------------------
(***************************************************************************)
(* The traffic of the leaf-spine drivers: how the lines of a workload are  *)
(* turned into constraints (src/src/leaf_spine/leaf_workload_parser.cpp),  *)
(* and into the packet types every leaf buffer is built for, the others    *)
(* being pruned (src/src/leaf_spine/leaf_utils.cpp); and the way a packet  *)
(* then takes through the buffers and links of check_wl of src/lst.cpp.    *)
(*                                                                         *)
(* Traffic is I[i][t][k]: the packets of type k that host i sends in       *)
(* timestep t.  A behaviour follows one solution I of the constraints.     *)
(***************************************************************************)
EXTENDS WlConstr, LeafTopology, Sequences, FiniteSets

CONSTANTS Lines,    \* the lines a workload is made of
          Traffic   \* the I followed

\* Lines as the recorded workloads have them: their intervals end in time.
ASSUME LinesAssumption ==
  \A line \in Lines :
    /\ line.begin \in 1 .. timesteps /\ line.end \in line.begin .. timesteps
    /\ line.metric \in {"cenq", "aipg", "dst", "ecmp"}
    /\ line.ids \subseteq Hosts
    /\ line.op \in {"<", "<=", ">", ">=", "==", "!="}
    /\ line.rhs \in Int /\ line.linear \in BOOLEAN

ASSUME TrafficAssumption == Traffic \subseteq [Hosts -> [Times -> [Types -> Nat]]]

VARIABLES I,
          phase,                 \* "parse", "build" or "send"
          max_t_with_zero_cenq,
          dst_constrs, ecmp_constrs,
          pkt                    \* the packet followed, or NoPacket

vars == <<I, phase, max_t_with_zero_cenq, dst_constrs, ecmp_constrs, pkt>>

Lsl == INSTANCE LslTables

NoPacket == [type |-> -1, from |-> -1, sw |-> <<"none", 0>>, port |-> 0, path |-> <<>>]
travels == pkt.sw[1] \in {"leaf", "spine"}
arrived == pkt.sw[1] = "host"
pktSum(cell) == MapThenSumSet(LAMBDA k : cell[k], Types)
sent(i) == {k \in Types : \E t \in Times : I[i][t][k] > 0}
IT == [i \in Hosts |-> [t \in Times |-> pktSum(I[i][t])]]

-----------------------------------------------------------------------------
(* The solution: what the constraints say of I.                            *)

\* The last destination with a packet decides; -1 if there is none.
dst_val(cell) == Max({-1} \cup {get_pkt_type_to_dst_index[k] : k \in {j \in Types : cell[j] > 0}})
ecmp_val(cell) == Max({-1} \cup {get_pkt_type_to_spine_index[k] : k \in {j \in Types : cell[j] > 0}})

\* At most one type of packets.
valid_meta(cell) == Cardinality({k \in Types : cell[k] > 0}) <= 1
valid == \A i \in Hosts, t \in Times : valid_meta(I[i][t])

\* MUTANT of same: only the packets that are sent have the same destination.
same_Sent == \A i \in Hosts, t \in Times :
  pktSum(I[i][t]) > 0 /\ pktSum(I[i][0]) > 0 => dst_val(I[i][t]) = dst_val(I[i][0])

\* Every input keeps its destination, and dst_val is -1 when it is silent.
same == \A i \in Hosts, t \in Times : dst_val(I[i][t]) = dst_val(I[i][0])

\* No two inputs send to one host in a timestep.
uniq == \A t \in Times : \A i, j \in Hosts :
  i # j /\ dst_val(I[i][t]) = dst_val(I[j][t]) => dst_val(I[i][t]) = -1

-----------------------------------------------------------------------------
(* The lines: LeafConstrExtractor.                                         *)

not_empty(i, t) == pktSum(I[i][t]) > 0

\* A line on dst is about the first timestep only, whatever its interval.
parse_dst(line) == \A i \in line.ids :
  not_empty(i, 0) /\ binop(dst_val(I[i][0]), line.op, line.rhs)

parse_ecmp(line) == \A i \in line.ids, t \in line.begin .. line.end :
  not_empty(i, t - 1) /\ binop(ecmp_val(I[i][t - 1]), line.op, line.rhs)

holds(line) ==
  CASE line.metric = "cenq" -> parse_cenq(line, IT)
    [] line.metric = "aipg" -> parse_aipg(line, IT)
    [] line.metric = "dst"  -> parse_dst(line)
    [] line.metric = "ecmp" -> parse_ecmp(line)

\* MUTANT of silences: the comparison is not looked at.
silences_AnyOp(line) == line.metric = "cenq" /\ line.rhs <= 0

\* The line says that its inputs send nothing until its end.
silences(line) == line.metric = "cenq" /\ line.op \in {"<", "<=", "=="} /\ line.rhs <= 0

-----------------------------------------------------------------------------
(* The packet types in use: add_workload.                                  *)

get_possible_values(constrs, all) ==
  {v \in all : \A e \in constrs : binop(v, e.op, e.rhs)}

parse_meta_constrs(constrs, all) ==
  [i \in Hosts |-> get_possible_values({e \in constrs : e.buf = i}, all)]

parse_meta_constrs_per_time(constrs, all) ==
  [i \in Hosts |->
     UNION {get_possible_values({e \in constrs : e.buf = i /\ e.t = t}, all) :
              t \in {e.t : e \in {d \in constrs : d.buf = i}}}]

\* The parser's inputs that are silent to the end.
get_zero_inputs == {i \in Hosts : max_t_with_zero_cenq[i] >= timesteps - 1}

\* The destinations and spines each input may use: with a bound that does not
\* exclude any, at a timestep of its own.
values_map ==
  LET any == {[t |-> 0, buf |-> i, op |-> ">=", rhs |-> 0] : i \in Hosts}
      dst == parse_meta_constrs(dst_constrs \cup any, 0 .. 5)
      ecmp == parse_meta_constrs_per_time(ecmp_constrs \cup any, {0, 1})
  IN  [i \in Hosts |-> IF i \in get_zero_inputs THEN [dst |-> {}, ecmp |-> {}]
                       ELSE [dst |-> dst[i], ecmp |-> ecmp[i]]]

get_used_vals(meta) == UNION {values_map[i][meta] : i \in Hosts}

\* MUTANT of fix: the ports to hosts are counted wrong.
fix_ThirdPort(leaf, v) ==
  {k \in Types : /\ v[1] > 2
                 /\ get_pkt_type_to_dst_index[k] \in get_used_vals("dst")
                 /\ get_pkt_type_to_spine_index[k] \in get_used_vals("ecmp")
                 /\ get_pkt_type_to_next_hop_port(leaf)[k] = v[2]
                 /\ get_port_to_ecmp[v[1]] = get_pkt_type_to_spine_index[k]}

\* The types of a buffer that spines fill (ports 0 and 1 are the hosts').  The
\* test on zero_inputs of the code is never true: these ports have input -1.
fix(leaf, v) ==
  {k \in Types : /\ v[1] >= 2
                 /\ get_pkt_type_to_dst_index[k] \in get_used_vals("dst")
                 /\ get_pkt_type_to_spine_index[k] \in get_used_vals("ecmp")
                 /\ get_pkt_type_to_next_hop_port(leaf)[k] = v[2]
                 /\ get_port_to_ecmp[v[1]] = get_pkt_type_to_spine_index[k]}

\* The types of a buffer that a host fills: by the values of that host alone.
\* There are 6 types to a spine.
update_ports(leaf, v) ==
  LET src_input == get_port_index_to_input_index(leaf)[v[1]]
      vals == values_map[src_input]
      dst_ecmps == IF get_port_to_ecmp[v[2]] # -1 THEN {get_port_to_ecmp[v[2]]} ELSE vals.ecmp
  IN  IF src_input = -1 THEN {}
      ELSE {k \in {e * 6 + d : e \in dst_ecmps \cap vals.ecmp, d \in vals.dst} :
              get_pkt_type_to_next_hop_port(leaf)[k] = v[2]}

\* The buffers of a switch and the types each is built for.
buffs(sw) ==
  IF sw[1] = "leaf"
  THEN [v \in get_leaf_ports |-> fix(sw[2], v) \cup update_ports(sw[2], v)]
  ELSE get_spine_port_map(sw[2])

-----------------------------------------------------------------------------
(* Routing: DemuxSwitch and the links of check_wl.                         *)

pkt_type_to_nxt_hop(sw) ==
  IF sw[1] = "leaf" THEN get_pkt_type_to_next_hop_port(sw[2])
  ELSE get_pkt_type_to_next_hop_port_spine

\* The buffer get_in_port takes a packet type to.
buffer(type, port, sw) == <<port, pkt_type_to_nxt_hop(sw)[type]>>

\* What is at the other end of a port of a switch: an in port, or a host.
link(sw, port) ==
  CASE sw[1] = "spine" -> <<<<"leaf", port>>, hosts_per_leaf + sw[2]>>
    [] sw[1] = "leaf" /\ port >= hosts_per_leaf ->
         <<<<"spine", port - hosts_per_leaf>>, sw[2]>>
    [] OTHER -> <<<<"host", hosts_per_leaf * sw[2] + port>>, 0>>

\* The in port of a leaf that is input i.
entry(i) == <<<<"leaf", i \div hosts_per_leaf>>, i % hosts_per_leaf>>

\* get_in_port has the constant 0 for a type without a buffer to its next hop: a
\* host cannot send to itself.
Sendable == \A i \in Hosts : \A k \in sent(i) :
  buffer(k, entry(i)[2], entry(i)[1]) \in DOMAIN buffs(entry(i)[1])

-----------------------------------------------------------------------------
WorkloadInit ==
  /\ I \in Traffic
  /\ phase = "parse"
  /\ max_t_with_zero_cenq = [i \in Hosts |-> -1]
  /\ dst_constrs = {} /\ ecmp_constrs = {}
  /\ pkt = NoPacket

\* LeafWorkloadParser::parse of one line, and its merge.
Parse(line) ==
  LET constr(t, i) == [t |-> t, buf |-> i, op |-> line.op, rhs |-> line.rhs]
  IN  /\ phase = "parse"
      /\ holds(line)
      /\ max_t_with_zero_cenq' =
           [i \in Hosts |-> IF silences(line) /\ i \in line.ids
                            THEN Max({line.end, max_t_with_zero_cenq[i]})
                            ELSE max_t_with_zero_cenq[i]]
      /\ dst_constrs' = dst_constrs \cup
           {constr(1, i) : i \in IF line.metric = "dst" THEN line.ids ELSE {}}
      /\ ecmp_constrs' = ecmp_constrs \cup
           {constr(t, i) : t \in line.begin .. line.end,
                           i \in IF line.metric = "ecmp" THEN line.ids ELSE {}}
      /\ UNCHANGED <<I, phase, pkt>>

\* The end of LeafWorkloadParser::parse: add_workload goes on to the values.
EndParse ==
  /\ phase = "parse" /\ valid /\ same
  /\ phase' = "build"
  /\ UNCHANGED <<I, max_t_with_zero_cenq, dst_constrs, ecmp_constrs, pkt>>

\* The network is built and I are its inputs.
Build ==
  /\ phase = "build" /\ uniq /\ Sendable
  /\ phase' = "send"
  /\ UNCHANGED <<I, max_t_with_zero_cenq, dst_constrs, ecmp_constrs, pkt>>

\* A host sends a packet, the one before has arrived.
Send(i, k) ==
  /\ phase = "send"
  /\ ~travels
  /\ pkt' = [type |-> k, from |-> i, sw |-> entry(i)[1], port |-> entry(i)[2], path |-> <<>>]
  /\ UNCHANGED <<I, phase, max_t_with_zero_cenq, dst_constrs, ecmp_constrs>>

\* The packet passes through its buffer of this switch, if the buffer was built for
\* its type, and over the link: link_ports.
Forward ==
  /\ travels
  /\ LET v == buffer(pkt.type, pkt.port, pkt.sw)
     IN  /\ v \in DOMAIN buffs(pkt.sw) /\ pkt.type \in buffs(pkt.sw)[v]
         /\ pkt' = [pkt EXCEPT !.sw = link(pkt.sw, v[2])[1], !.port = link(pkt.sw, v[2])[2],
                               !.path = Append(@, <<pkt.sw, v>>)]
  /\ UNCHANGED <<I, phase, max_t_with_zero_cenq, dst_constrs, ecmp_constrs>>

WorkloadNext ==
  \/ \E line \in Lines : Parse(line)
  \/ EndParse
  \/ Build
  \/ \E i \in Hosts : \E k \in sent(i) : Send(i, k)
  \/ Forward

WorkloadSpec == WorkloadInit /\ [][WorkloadNext]_vars

-----------------------------------------------------------------------------
\* Pruning loses no solution: whatever an input sends in a solution of the workload
\* is among the destinations and spines its buffers are built for.  An input is
\* taken for silent although its line leaves the last timestep open, and a line on
\* dst speaks of the first one only: that is right because of same.
PruningSound ==
  phase # "parse" =>
    \A i \in Hosts, t \in Times, k \in Types :
      I[i][t][k] > 0 => /\ get_pkt_type_to_dst_index[k] \in values_map[i].dst
                        /\ get_pkt_type_to_spine_index[k] \in values_map[i].ecmp

\* valid and same have a consequence that no comment mentions: an input sends in
\* every timestep or in none, so that a line such as "[1, 3]: cenq(0, t) == 1" has no
\* solution with more timesteps than one.
AllOrNothing ==
  phase # "parse" =>
    \A i \in Hosts, t \in Times : not_empty(i, t) <=> not_empty(i, 0)

\* Every packet of a solution finds, at each switch on its way, a buffer that was
\* built for its type: had the pruning or the tables missed one, the constraints of
\* the links would exclude the packet, and check_unsat would answer too easily.
PathDeclared ==
  travels =>
    LET v == buffer(pkt.type, pkt.port, pkt.sw)
    IN  v \in DOMAIN buffs(pkt.sw) /\ pkt.type \in buffs(pkt.sw)[v]

\* A packet arrives at its destination: over one leaf if the sender has the same, and
\* otherwise over the spine that its type names.
Delivered ==
  arrived =>
    LET src == entry(pkt.from)[1]
        dst == get_pkt_type_to_dst_index[pkt.type]
        switches == [n \in 1 .. Len(pkt.path) |-> pkt.path[n][1]]
    IN  /\ pkt.sw[2] = dst
        /\ switches = IF entry(dst)[1] = src THEN <<src>>
                      ELSE <<src, <<"spine", get_pkt_type_to_spine_index[pkt.type]>>, entry(dst)[1]>>

\* The network that is built is the one that the tables written by hand in
\* src/lsl.cpp describe: the functions of src/lst.cpp compute those tables.  And
\* the buffers its query sums are those on the way of the traffic both mains add: from
\* host 0 to host 5 over the first spine.
TablesAgree ==
  phase = "send" =>
    /\ Lsl!pkt_type_to_dst = get_pkt_type_to_dst_index
    /\ Lsl!pkt_type_to_ecmp = get_pkt_type_to_spine_index
    /\ Lsl!l_ports = get_leaf_ports
    /\ Lsl!port_to_ecmp = get_port_to_ecmp
    /\ \A leaf \in Leafs :
         /\ Lsl!l_pkt_type_to_nxt_hop[leaf] = get_pkt_type_to_next_hop_port(leaf)
         /\ Lsl!l_src_port_to_input[leaf] = get_port_index_to_input_index(leaf)
    /\ \A spine \in Spines : Lsl!s_ports[spine] = get_spine_port_map(spine)
    /\ Lsl!s_pkt_type_to_nxt_hop = get_pkt_type_to_next_hop_port_spine
    /\ arrived /\ pkt.from = 0 /\ pkt.type = 5 => pkt.path = Lsl!path_C

\* What aipg measures, in the traffic followed.  A timestep has the gap of the last
\* one up to it that had packets: zero if there were several, else the distance to the
\* packets before, or to the next ones if there are none before, or the number of
\* timesteps.  (So before the first packets it is zero, and those at timestep 0 have
\* gap zero.)
AipgIsGap ==
  \A i \in Hosts, t \in Times :
    LET it == IT[i]
        busy(S) == {s \in S : it[s] > 0}
        last == Max(busy(1 .. t) \cup {0})
    IN  aipgs(it)[t] =
          IF last = 0 \/ it[last] > 1 THEN 0
          ELSE IF busy(0 .. last - 1) # {} THEN last - Max(busy(0 .. last - 1))
          ELSE IF busy(last + 1 .. timesteps - 1) # {}
               THEN Min(busy(last + 1 .. timesteps - 1)) - last
          ELSE timesteps
=============================================================================
