----------------------------- MODULE LeafSwitch -----------------------------
(***************************************************************************)
(* A switch of the leaf-spine programs with either of its two schedulers.  *)
(* LeafSts uses the variables of FperfLeafSts under its own names: a head  *)
(* and a turn are both a peer of the port.                                 *)
(***************************************************************************)
EXTENDS FperfLeafSts

CONSTANT MaxWait  \* where `wait' stops counting

ASSUME MaxWaitAssumption == MaxWait \in Nat

VARIABLES
  class,  \* the class the switch was constructed as
  wait    \* history: wait[v], timesteps v has been backlogged and not matched,
          \*          kept for FperfLeafSts

Leaf == INSTANCE LeafSts WITH dst_turn_for_src <- in_prio_head,
                              src_turn_for_dst <- out_prio_head

switchVars == <<C, matched, in_prio_head, out_prio_head, class, wait>>

NoWait == [v \in used |-> 0]

waitAfter(w, b, m) ==
  [v \in used |-> IF v \notin b \ m THEN 0
                  ELSE IF w[v] < MaxWait THEN w[v] + 1 ELSE MaxWait]

SwitchInit ==
  /\ wait = NoWait
  /\ \/ class = "FperfLeafSts" /\ Init
     \/ class = "LeafSts" /\ Leaf!Init

SwitchNext ==
  /\ UNCHANGED class
  /\ \/ /\ class = "FperfLeafSts" /\ Next
        /\ wait' = waitAfter(wait, backlogged(C'), matched')
     \/ class = "LeafSts" /\ Leaf!Next /\ UNCHANGED wait

SwitchSpec == SwitchInit /\ [][SwitchNext]_switchVars

-----------------------------------------------------------------------------
\* A match is a matching: no input and no output port sends twice in a timestep,
\* and only a backlogged buffer sends.  FperfLeafSts demands it in two loops that
\* follow from the rest of its trs; in LeafSts the corresponding loops
\* (leaf_sts.cpp:128-152) are commented out, and follow as well.
Matching ==
  /\ matched \subseteq backlogged(C)
  /\ no_double_match_in(matched)
  /\ no_double_match_out(matched)

busy(v) == \E w \in matched : w[1] = v[1] \/ w[2] = v[2]

\* FperfLeafSts wastes no port: if a backlogged buffer does not send, another
\* buffer of its input or of its output does.
Maximal ==
  class = "FperfLeafSts" => \A v \in backlogged(C) : busy(v)

\* Its constraints, each buffer's in terms of the others, can be satisfied whatever
\* is backlogged in the next timestep: they never exclude traffic.
Matchable ==
  class = "FperfLeafSts" =>
    LET ih == update_in_prio_head(matched, in_prio_head)
        oh == update_out_prio_head(matched, out_prio_head)
    IN  \A b \in SUBSET used : \E m \in SUBSET b : trs(m, b, ih, oh)

\* With at most two peers to a port, as in a spine that joins three leaves, a
\* backlogged buffer is matched within two timesteps.  (With three it can wait for
\* ever: every time its output prefers it its input is taken, and the reverse.)
SpineWait ==
  \A v \in used :
    wait[v] <= Cardinality(get_buffs_for_src(v[1])) - 1
               + Cardinality(get_buffs_for_dst(v[2])) - 1

\* LeafSts may leave ports idle beside a match, but two turns that disagree never
\* stop it: a timestep in which nothing was matched is followed by one in which
\* something is, if anything is backlogged.
WakesUp ==
  [][class = "LeafSts" /\ matched = {} /\ backlogged(C') # {} => matched' # {}]_switchVars
=============================================================================
