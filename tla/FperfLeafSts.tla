---------------------------- MODULE FperfLeafSts ----------------------------
(***************************************************************************)
(* The crossbar scheduler of the leaf-spine programs: class FperfLeafSts   *)
(* of src/src/leaf_spine/fperf_leaf_sts.cpp, which DemuxSwitch extends.    *)
(*                                                                         *)
(* Every input and every output keeps the peer it was last matched with,   *)
(* its head, and prefers its peers in cyclic order after the head.  A      *)
(* buffer is matched exactly when it is backlogged and neither of its      *)
(* ports is matched with a peer it prefers.                                *)
(*                                                                         *)
(* in_to_out and out_from_in say the same of a pair, trs begins by saying  *)
(* so: the set `matched' stands for both.                                  *)
(***************************************************************************)
EXTENDS LeafBase

VARIABLES
  in_prio_head,  \* in_prio_head[s]: the output s was last matched with
  out_prio_head  \* out_prio_head[d]: the input d was last matched with

fperfVars == <<C, matched, in_prio_head, out_prio_head>>

\* cond1: the inputs that d prefers to s.
higher_prio_inputs(oh, s, d) == {x \in get_buffs_for_dst(d) : precedes(oh[d], x, s)}

\* cond2: the outputs that s prefers to d.
higher_prio_outputs(ih, s, d) == {y \in get_buffs_for_src(s) : precedes(ih[s], y, d)}

\* MUTANT of match_cond: the input's own preferences are left out.
match_cond_NoCond2(m, b, ih, oh, s, d) ==
  /\ <<s, d>> \in b
  /\ \A x \in higher_prio_inputs(oh, s, d) : <<x, d>> \notin m

match_cond(m, b, ih, oh, s, d) ==
  /\ <<s, d>> \in b
  /\ \A x \in higher_prio_inputs(oh, s, d) : <<x, d>> \notin m
  /\ \A y \in higher_prio_outputs(ih, s, d) : <<s, y>> \notin m

\* MUTANT of matches: the half of trs that demands a match is missing.
matches_OneWay(m, b, ih, oh) ==
  \A v \in ports : v \in m => match_cond(m, b, ih, oh, v[1], v[2])

\* Matched exactly when match_cond.
matches(m, b, ih, oh) ==
  \A v \in ports : v \in m <=> match_cond(m, b, ih, oh, v[1], v[2])

\* The loops that forbid a second match of an input, and of an output.
no_double_match_in(m) == \A v, w \in m : v[1] = w[1] => v = w
no_double_match_out(m) == \A v, w \in m : v[2] = w[2] => v = w

\* MUTANT of update_in_prio_head: a match does not move the head.
update_in_prio_head_Stuck(m, ih) == ih

\* A matched port moves its head to its peer, any other keeps it.
update_in_prio_head(m, ih) ==
  [s \in get_in_ports |-> IF \E d \in get_buffs_for_src(s) : <<s, d>> \in m
                          THEN CHOOSE d \in get_buffs_for_src(s) : <<s, d>> \in m
                          ELSE ih[s]]
update_out_prio_head(m, oh) ==
  [d \in get_out_ports |-> IF \E s \in get_buffs_for_dst(d) : <<s, d>> \in m
                           THEN CHOOSE s \in get_buffs_for_dst(d) : <<s, d>> \in m
                           ELSE oh[d]]

\* trs(prev_t), for the timestep after prev_t: ih and oh are its heads, b its
\* backlogged buffers.
trs(m, b, ih, oh) ==
  /\ m \subseteq ports
  /\ matches(m, b, ih, oh)
  /\ no_double_match_in(m) /\ no_double_match_out(m)

\* Timestep 0: no buffer is backlogged, the heads are the first peers.
init ==
  /\ in_prio_head = [s \in get_in_ports |-> First(get_buffs_for_src(s))]
  /\ out_prio_head = [d \in get_out_ports |-> First(get_buffs_for_dst(d))]
  /\ matched \in SUBSET backlogged(C)
  /\ trs(matched, backlogged(C), in_prio_head, out_prio_head)

Init == bl_init /\ init

\* One timestep in which e is enqueued.  What a matched buffer sends, FperfLeafSts::out,
\* is in LeafBase's remaining.
Step(e) ==
  /\ inputs(e) /\ bl_size(e)
  /\ in_prio_head' = update_in_prio_head(matched, in_prio_head)
  /\ out_prio_head' = update_out_prio_head(matched, out_prio_head)
  /\ matched' \in SUBSET backlogged(C')
  /\ trs(matched', backlogged(C'), in_prio_head', out_prio_head')

Enqueues == [ports -> 0 .. max_enq]

Next == \E e \in Enqueues : Step(e)

Spec == Init /\ [][Next]_fperfVars
=============================================================================
