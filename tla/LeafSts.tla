------------------------------- MODULE LeafSts -------------------------------
(***************************************************************************)
(* The other crossbar scheduler: class LeafSts of                          *)
(* src/src/leaf_spine/leaf_sts.cpp.  Every output has a turn among its     *)
(* inputs and every input one among its outputs, each a round robin over   *)
(* its backlogged buffers, and a buffer is matched when both turns agree   *)
(* on it.                                                                  *)
(***************************************************************************)
EXTENDS LeafBase

VARIABLES
  dst_turn_for_src,  \* dst_turn_for_src[s]: the output whose turn it is at input s
  src_turn_for_dst   \* src_turn_for_dst[d]: the input whose turn it is at output d

leafVars == <<C, matched, dst_turn_for_src, src_turn_for_dst>>

\* LeafBase::rr_for_dst and rr_for_src: the nearest of the peers S after prev that
\* is backlogged; prev if it is the only one, or if none is.
rr(S, isBacklogged(_), prev) ==
  LET cand == {x \in S \ {prev} : isBacklogged(x)}
  IN  IF cand = {} THEN prev
      ELSE CHOOSE x \in cand : \A y \in cand : y = x \/ precedes(prev, x, y)

\* MUTANT of rr_for_dst: the turn goes to the next input, backlogged or not.
rr_for_dst_Blind(b, d, prev) == rr(get_buffs_for_dst(d), LAMBDA s : TRUE, prev)

rr_for_dst(b, d, prev) == rr(get_buffs_for_dst(d), LAMBDA s : <<s, d>> \in b, prev)
rr_for_src(b, s, prev) == rr(get_buffs_for_src(s), LAMBDA d : <<s, d>> \in b, prev)

\* A port that was not matched starts again behind its first peer.
prev_src_turn(d) ==
  IF \E s \in get_buffs_for_dst(d) : <<s, d>> \in matched
  THEN src_turn_for_dst[d] ELSE First(get_buffs_for_dst(d))
prev_dst_turn(s) ==
  IF \E d \in get_buffs_for_src(s) : <<s, d>> \in matched
  THEN dst_turn_for_src[s] ELSE First(get_buffs_for_src(s))

\* MUTANT of match_uncase: the turn of the output alone decides.
match_uncase_OneSided(b, st, dt) == {v \in b : st[v[2]] = v[1]}

match_uncase(b, st, dt) == {v \in b : st[v[2]] = v[1] /\ dt[v[1]] = v[2]}

\* The last backlogged buffer of a port has the first turn; in timestep 0 there
\* is none, and the first peer has it.
init_turn(S, isBacklogged(_)) ==
  LET cand == {x \in S : isBacklogged(x)}
  IN  IF cand = {} THEN First(S) ELSE CHOOSE x \in cand : \A y \in cand : y <= x

init ==
  LET b == backlogged(C) IN
  /\ src_turn_for_dst = [d \in get_out_ports |->
                           init_turn(get_buffs_for_dst(d), LAMBDA s : <<s, d>> \in b)]
  /\ dst_turn_for_src = [s \in get_in_ports |->
                           init_turn(get_buffs_for_src(s), LAMBDA d : <<s, d>> \in b)]
  /\ matched = match_uncase(b, src_turn_for_dst, dst_turn_for_src)

trs ==
  LET b == backlogged(C') IN
  /\ src_turn_for_dst' = [d \in get_out_ports |-> rr_for_dst(b, d, prev_src_turn(d))]
  /\ dst_turn_for_src' = [s \in get_in_ports |-> rr_for_src(b, s, prev_dst_turn(s))]
  /\ matched' = match_uncase(b, src_turn_for_dst', dst_turn_for_src')

Init == bl_init /\ init

Step(e) == inputs(e) /\ bl_size(e) /\ trs

Enqueues == [ports -> 0 .. max_enq]

Next == \E e \in Enqueues : Step(e)

Spec == Init /\ [][Next]_leafVars
=============================================================================
