---------------------------- MODULE Leaf_proofs ----------------------------
(***************************************************************************)
(* First, what one switch does, then, from the sums on, what a workload    *)
(* makes of the network of switches and where its packets go.              *)
(*                                                                         *)
(* What a leaf or spine switch guarantees for every set of ports: its      *)
(* buffers drop what does not fit, and a match is a matching under either  *)
(* scheduler.  FperfLeafSts always has a match, leaves no port idle that   *)
(* could send, and lets no buffer wait long where no port has more than    *)
(* two peers.  LeafSts never stops at turns that disagree.                 *)
(*                                                                         *)
(* For any workload and any traffic: the pruning of packet types loses no  *)
(* solution, an input sends always or never, a packet finds a buffer at    *)
(* each switch and arrives, aipg is the gap between packets, and the two   *)
(* programs have the same network.                                         *)
(***************************************************************************)
EXTENDS LeafSwitch, LeafWorkload, FiniteSetTheorems, SequenceTheorems,
        WellFoundedInduction, TLAPS

-----------------------------------------------------------------------------
\* A non-empty set of ports has a first one.
LEMMA FirstInSet ==
  ASSUME NEW S, S \subseteq Nat, S # {}
  PROVE  First(S) \in S /\ \A y \in S : First(S) <= y
<1> DEFINE R == {ss \in Nat \X Nat : ss[1] < ss[2]}
<1>1. IsWellFoundedOn(R, Nat)
  BY NatLessThanWellFounded, Zenon DEF OpToRel
<1>2. \E x \in S : \A y \in S : ~ (<<y, x>> \in R)
  <2> HIDE DEF R
  <2> QED BY <1>1, WFMin
<1>3. \E x \in S : \A y \in S : x <= y
  <2>1. PICK x \in S : \A y \in S : ~ (<<y, x>> \in R)
    BY <1>2
  <2>2. ASSUME NEW y \in S PROVE x <= y
    <3>1. x \in Nat /\ y \in Nat /\ <<y, x>> \in Nat \X Nat
      OBVIOUS
    <3>2. ~(<<y, x>>[1] < <<y, x>>[2])
      BY <2>1, <3>1
    <3>3. ~(y < x)
      BY <3>2
    <3> QED BY <3>1, <3>3
  <2> QED BY <2>2
<1> QED BY <1>3 DEF First

LEMMA PortsAreNats ==
  ASSUME NEW s, NEW d
  PROVE  get_buffs_for_src(s) \subseteq Nat /\ get_buffs_for_dst(d) \subseteq Nat
BY LeafAssumption DEF LeafAssumption, get_buffs_for_src, get_buffs_for_dst

LEMMA PairMembers ==
  ASSUME NEW v \in ports
  PROVE  /\ v = <<v[1], v[2]>> /\ v[1] \in Nat /\ v[2] \in Nat
         /\ v[1] \in get_in_ports /\ v[2] \in get_out_ports
         /\ v[1] \in get_buffs_for_dst(v[2]) /\ v[2] \in get_buffs_for_src(v[1])
BY LeafAssumption
   DEF LeafAssumption, get_in_ports, get_out_ports, get_buffs_for_src, get_buffs_for_dst

LEMMA PortsHaveBuffers ==
  /\ \A s \in get_in_ports : get_buffs_for_src(s) # {}
  /\ \A d \in get_out_ports : get_buffs_for_dst(d) # {}
BY DEF get_in_ports, get_out_ports, get_buffs_for_src, get_buffs_for_dst

\* The order after a head is total.
LEMMA PrecedesTotal ==
  ASSUME NEW h \in Nat, NEW x \in Nat, NEW y \in Nat, x # y
  PROVE  precedes(h, x, y) \/ precedes(h, y, x)
BY DEF precedes

-----------------------------------------------------------------------------
Heads(ih, oh) == ih \in [get_in_ports -> Nat] /\ oh \in [get_out_ports -> Nat]

\* The two loops of trs that forbid double matches add nothing to its match
\* conditions (fperf_leaf_sts.cpp:201-242): of two matches of one port the one it
\* prefers rules out the other.
THEOREM DoubleMatchLoopsRedundant ==
  ASSUME NEW m, m \subseteq ports, NEW b, NEW ih, NEW oh,
         Heads(ih, oh), matches(m, b, ih, oh)
  PROVE  no_double_match_in(m) /\ no_double_match_out(m)
<1>1. ASSUME NEW v \in m, NEW w \in m, v[1] = w[1], v # w
      PROVE  FALSE
  <2>1. /\ v = <<v[1], v[2]>> /\ w = <<v[1], w[2]>>
        /\ v[2] \in get_buffs_for_src(v[1]) /\ w[2] \in get_buffs_for_src(v[1])
        /\ v[2] \in Nat /\ w[2] \in Nat /\ v[2] # w[2] /\ ih[v[1]] \in Nat
    BY <1>1, PairMembers DEF Heads
  <2>2. \/ v[2] \in higher_prio_outputs(ih, v[1], w[2])
        \/ w[2] \in higher_prio_outputs(ih, v[1], v[2])
    BY <2>1, PrecedesTotal DEF higher_prio_outputs
  <2>3. /\ match_cond(m, b, ih, oh, v[1], v[2])
        /\ match_cond(m, b, ih, oh, v[1], w[2])
    BY <1>1 DEF matches
  <2> QED BY <1>1, <2>1, <2>2, <2>3 DEF match_cond
<1>2. ASSUME NEW v \in m, NEW w \in m, v[2] = w[2], v # w
      PROVE  FALSE
  <2>1. /\ v = <<v[1], v[2]>> /\ w = <<w[1], v[2]>>
        /\ v[1] \in get_buffs_for_dst(v[2]) /\ w[1] \in get_buffs_for_dst(v[2])
        /\ v[1] \in Nat /\ w[1] \in Nat /\ v[1] # w[1] /\ oh[v[2]] \in Nat
    BY <1>2, PairMembers DEF Heads
  <2>2. \/ v[1] \in higher_prio_inputs(oh, w[1], v[2])
        \/ w[1] \in higher_prio_inputs(oh, v[1], v[2])
    BY <2>1, PrecedesTotal DEF higher_prio_inputs
  <2>3. /\ match_cond(m, b, ih, oh, v[1], v[2])
        /\ match_cond(m, b, ih, oh, w[1], v[2])
    BY <1>2 DEF matches
  <2> QED BY <1>2, <2>1, <2>2, <2>3 DEF match_cond
<1> QED BY <1>1, <1>2 DEF no_double_match_in, no_double_match_out

\* The heads stay ports.
LEMMA HeadsUpdate ==
  ASSUME NEW m, NEW ih, NEW oh, Heads(ih, oh)
  PROVE  Heads(update_in_prio_head(m, ih), update_out_prio_head(m, oh))
<1>1. ASSUME NEW s \in get_in_ports
      PROVE  update_in_prio_head(m, ih)[s] \in Nat
  BY <1>1, PortsAreNats DEF Heads, update_in_prio_head
<1>2. ASSUME NEW d \in get_out_ports
      PROVE  update_out_prio_head(m, oh)[d] \in Nat
  BY <1>2, PortsAreNats DEF Heads, update_out_prio_head
<1> QED BY <1>1, <1>2 DEF Heads, update_in_prio_head, update_out_prio_head

-----------------------------------------------------------------------------
(***************************************************************************)
(* The invariant: backlogs in range; under FperfLeafSts the heads are      *)
(* ports and the match satisfies its conditions for the backlog it was     *)
(* made with; under LeafSts it is where the turns agree.                   *)
(***************************************************************************)
BufferInv == \A v \in used : C[v] \in 0 .. buff_cap

FperfInv ==
  class = "FperfLeafSts" =>
    /\ Heads(in_prio_head, out_prio_head)
    /\ matched \subseteq backlogged(C)
    /\ matches(matched, backlogged(C), in_prio_head, out_prio_head)

LeafInv ==
  class = "LeafSts" =>
    matched = Leaf!match_uncase(backlogged(C), out_prio_head, in_prio_head)

SwitchInv ==
  /\ class \in {"FperfLeafSts", "LeafSts"}
  /\ BufferInv /\ FperfInv /\ LeafInv

LEMMA InitInv == SwitchInit => SwitchInv
<1> SUFFICES ASSUME SwitchInit PROVE SwitchInv
  OBVIOUS
<1>1. class \in {"FperfLeafSts", "LeafSts"}
  BY DEF SwitchInit
<1>2. BufferInv
  BY LeafAssumption DEF SwitchInit, Init, Leaf!Init, bl_init, Leaf!bl_init, BufferInv, LeafAssumption
<1>3. CASE class = "FperfLeafSts"
  <2>1. Init
    BY <1>3 DEF SwitchInit
  <2>2. Heads(in_prio_head, out_prio_head)
    BY <2>1, FirstInSet, PortsAreNats, PortsHaveBuffers DEF Init, init, Heads
  <2> QED BY <1>1, <1>2, <1>3, <2>1, <2>2 DEF Init, init, trs, SwitchInv, FperfInv, LeafInv
<1>4. CASE class = "LeafSts"
  BY <1>1, <1>2, <1>4
     DEF SwitchInit, Leaf!Init, Leaf!init, SwitchInv, FperfInv, LeafInv,
         Leaf!backlogged, backlogged
<1> QED BY <1>1, <1>3, <1>4

LEMMA StepInv == SwitchInv /\ [SwitchNext]_switchVars => SwitchInv'
<1> SUFFICES ASSUME SwitchInv, [SwitchNext]_switchVars PROVE SwitchInv'
  OBVIOUS
<1>1. CASE UNCHANGED switchVars
  BY <1>1 DEF switchVars, SwitchInv, BufferInv, FperfInv, LeafInv, Heads, backlogged,
     matches, match_cond, higher_prio_inputs, higher_prio_outputs, Leaf!match_uncase
<1>2. CASE class = "FperfLeafSts" /\ SwitchNext
  <2>1. PICK e \in Enqueues : Step(e)
    BY <1>2 DEF SwitchNext, Next
  <2>2. class' = class /\ BufferInv'
    BY <1>2, <2>1 DEF SwitchNext, Step, bl_size, BufferInv
  <2>3. Heads(in_prio_head, out_prio_head)'
    BY <1>2, <2>1, HeadsUpdate DEF SwitchInv, FperfInv, Step, Heads
  <2>4. /\ matched' \subseteq backlogged(C')
        /\ matches(matched', backlogged(C'), in_prio_head', out_prio_head')
    BY <2>1 DEF Step, trs
  <2> QED BY <1>2, <2>2, <2>3, <2>4 DEF SwitchInv, FperfInv, LeafInv, backlogged,
          matches, match_cond, higher_prio_inputs, higher_prio_outputs
<1>3. CASE class = "LeafSts" /\ SwitchNext
  <2>1. PICK e \in Leaf!Enqueues : Leaf!Step(e)
    BY <1>3 DEF SwitchNext, Leaf!Next
  <2>2. class' = class /\ BufferInv'
    BY <1>3, <2>1 DEF SwitchNext, Leaf!Step, Leaf!bl_size, BufferInv
  <2>3. matched' = Leaf!match_uncase(backlogged(C'), out_prio_head', in_prio_head')
    BY <2>1 DEF Leaf!Step, Leaf!trs, Leaf!backlogged, backlogged
  <2> QED BY <1>3, <2>2, <2>3 DEF SwitchInv, FperfInv, LeafInv, backlogged, Leaf!match_uncase
<1> QED BY <1>1, <1>2, <1>3 DEF SwitchInv

\* Under either scheduler a match is a matching of backlogged buffers.
THEOREM MatchIsMatching == SwitchSpec => []Matching
<1>1. SwitchInv => Matching
  <2> SUFFICES ASSUME SwitchInv PROVE Matching
    OBVIOUS
  <2>1. CASE class = "FperfLeafSts"
    <3>1. matched \subseteq ports /\ matched \subseteq backlogged(C)
      BY <2>1, LeafAssumption DEF SwitchInv, FperfInv, backlogged, LeafAssumption
    <3> QED BY <2>1, <3>1, DoubleMatchLoopsRedundant DEF SwitchInv, FperfInv, Matching
  <2>2. CASE class = "LeafSts"
    <3>1. /\ matched \subseteq backlogged(C)
          /\ \A v \in matched : v = <<v[1], v[2]>> /\ out_prio_head[v[2]] = v[1]
                                /\ in_prio_head[v[1]] = v[2]
      BY <2>2, LeafAssumption, PairMembers
         DEF SwitchInv, LeafInv, Leaf!match_uncase, backlogged, LeafAssumption
    <3> QED BY <3>1 DEF Matching, no_double_match_in, no_double_match_out
  <2> QED BY <2>1, <2>2 DEF SwitchInv
<1> QED BY <1>1, InitInv, StepInv, PTL DEF SwitchSpec

\* FperfLeafSts: a backlogged buffer that does not send has a busy port.
THEOREM NothingIdle == SwitchSpec => []Maximal
<1>1. SwitchInv => Maximal
  <2> SUFFICES ASSUME SwitchInv, class = "FperfLeafSts", NEW v \in backlogged(C)
               PROVE  busy(v)
    BY DEF Maximal
  <2>1. v \in ports /\ v = <<v[1], v[2]>>
    BY LeafAssumption, PairMembers DEF backlogged, LeafAssumption
  <2>2. CASE v \in matched
    BY <2>2 DEF busy
  <2>3. CASE v \notin matched
    <3>1. ~match_cond(matched, backlogged(C), in_prio_head, out_prio_head, v[1], v[2])
      BY <2>1, <2>3 DEF SwitchInv, FperfInv, matches
    <3>2. (\E x : <<x, v[2]>> \in matched) \/ (\E y : <<v[1], y>> \in matched)
      BY <2>1, <3>1 DEF match_cond
    <3> QED BY <3>2 DEF busy
  <2> QED BY <2>2, <2>3
<1> QED BY <1>1, InitInv, StepInv, PTL DEF SwitchSpec

\* The buffers of the switches leave no choice in what they drop.
THEOREM LeafTailDrop == SwitchSpec => []TakesWhatFits
<1>1. SwitchInv => TakesWhatFits
  BY LeafAssumption
     DEF SwitchInv, BufferInv, TakesWhatFits, accepts, enqs, drops, enq_deq_sum, LeafAssumption
<1> QED BY <1>1, InitInv, StepInv, PTL DEF SwitchSpec

-----------------------------------------------------------------------------
(***************************************************************************)
(* A match always exists.  To FperfLeafSts a match is what the theory of   *)
(* stable marriages calls a stable matching: of inputs and outputs, each   *)
(* preferring its peers in the order after its head.  Take a set X of      *)
(* buffers the inputs may choose from.  What they reject for a better      *)
(* buffer of X is rejected also from a larger set, and so it is with the   *)
(* outputs: a set X exists that is exactly what the outputs leave to the   *)
(* inputs when the inputs leave to them what they reject of X.             *)
(***************************************************************************)

\* The nearest after h.
LEMMA Nearest ==
  ASSUME NEW h \in Nat, NEW S \in SUBSET Nat, S # {}
  PROVE  \E x \in S : \A y \in S : y = x \/ precedes(h, x, y)
<1>1. ASSUME NEW R \in SUBSET Nat, R # {} PROVE \E x \in R : \A y \in R : x <= y
  <2>1. First(R) \in R
    BY <1>1, FirstInSet
  <2>2. PICK x \in R : \A y \in R : ~(y < x)
    <3>1. IsWellFoundedOn(OpToRel(<, Nat), Nat)
      BY NatLessThanWellFounded
    <3>2. \A a, b \in Nat : <<a, b>> \in OpToRel(<, Nat) <=> a < b
      BY DEF OpToRel
    <3>3. PICK x \in R : \A y \in R : <<y, x>> \notin OpToRel(<, Nat)
      BY <1>1, <3>1, WFMin
    <3> QED BY <3>2, <3>3
  <2> QED BY <2>2
<1> DEFINE after == {y \in S : y > h}
<1>2. CASE after = {}
  <2>1. PICK x \in S : \A y \in S : x <= y
    BY <1>1
  <2> QED BY <1>2, <2>1 DEF precedes
<1>3. CASE after # {}
  <2>1. PICK x \in after : \A y \in after : x <= y
    <3>1. after \in SUBSET Nat
      OBVIOUS
    <3> HIDE DEF after
    <3> QED BY <1>1, <1>3, <3>1
  <2>2. x \in Nat /\ x > h /\ x \in S
    OBVIOUS
  <2>3. \A y \in S : y = x \/ precedes(h, x, y)
    BY <2>1, <2>2 DEF precedes
  <2> QED BY <2>2, <2>3
<1> QED BY <1>2, <1>3

LEMMA PrecedesTransitive ==
  ASSUME NEW h \in Nat, NEW x \in Nat, NEW y \in Nat, NEW z \in Nat,
         precedes(h, x, y), precedes(h, y, z)
  PROVE  precedes(h, x, z)
BY DEF precedes

\* A port takes one of two buffers before the other.
inputPrefers(ih, w, v) == w[1] = v[1] /\ precedes(ih[v[1]], w[2], v[2])
outputPrefers(oh, w, v) == w[2] = v[2] /\ precedes(oh[v[2]], w[1], v[1])

\* What the inputs, and the outputs, reject of X.
inputsReject(ih, X) == {v \in X : \E w \in X : inputPrefers(ih, w, v)}
outputsReject(oh, X) == {v \in X : \E w \in X : outputPrefers(oh, w, v)}

\* What is rejected, is rejected for a buffer that is not.
LEMMA InputsChoose ==
  ASSUME NEW X \in SUBSET ports, NEW ih \in [get_in_ports -> Nat], NEW v \in inputsReject(ih, X)
  PROVE  \E w \in X \ inputsReject(ih, X) : inputPrefers(ih, w, v)
<1>1. v \in X /\ v \in ports /\ v[1] \in Nat /\ v[2] \in Nat /\ ih[v[1]] \in Nat
  BY PairMembers DEF inputsReject
<1> DEFINE S == {y \in Nat : \E w \in X : inputPrefers(ih, w, v) /\ w[2] = y}
<1>2. S \in SUBSET Nat /\ S # {}
  BY PairMembers DEF inputsReject
<1>3. PICK y \in S : \A z \in S : z = y \/ precedes(ih[v[1]], y, z)
  <2> HIDE DEF S
  <2> QED BY <1>1, <1>2, Nearest
<1>4. PICK w \in X : inputPrefers(ih, w, v) /\ w[2] = y
  OBVIOUS
<1>5. ASSUME NEW u \in X, inputPrefers(ih, u, w) PROVE FALSE
  <2>1. /\ w[1] = v[1] /\ u[1] = v[1] /\ u[2] \in Nat /\ w[2] \in Nat
        /\ precedes(ih[v[1]], u[2], w[2]) /\ precedes(ih[v[1]], w[2], v[2])
    BY <1>4, <1>5, PairMembers DEF inputPrefers
  <2>2. inputPrefers(ih, u, v)
    BY <1>1, <2>1, PrecedesTransitive DEF inputPrefers
  <2>3. u[2] = w[2] \/ precedes(ih[v[1]], w[2], u[2])
    BY <1>3, <1>4, <2>1, <2>2
  <2> QED BY <1>1, <2>1, <2>3 DEF precedes
<1> QED BY <1>4, <1>5 DEF inputsReject

LEMMA OutputsChoose ==
  ASSUME NEW X \in SUBSET ports, NEW oh \in [get_out_ports -> Nat], NEW v \in outputsReject(oh, X)
  PROVE  \E w \in X \ outputsReject(oh, X) : outputPrefers(oh, w, v)
<1>1. v \in X /\ v \in ports /\ v[1] \in Nat /\ v[2] \in Nat /\ oh[v[2]] \in Nat
  BY PairMembers DEF outputsReject
<1> DEFINE S == {y \in Nat : \E w \in X : outputPrefers(oh, w, v) /\ w[1] = y}
<1>2. S \in SUBSET Nat /\ S # {}
  BY PairMembers DEF outputsReject
<1>3. PICK y \in S : \A z \in S : z = y \/ precedes(oh[v[2]], y, z)
  <2> HIDE DEF S
  <2> QED BY <1>1, <1>2, Nearest
<1>4. PICK w \in X : outputPrefers(oh, w, v) /\ w[1] = y
  OBVIOUS
<1>5. ASSUME NEW u \in X, outputPrefers(oh, u, w) PROVE FALSE
  <2>1. /\ w[2] = v[2] /\ u[2] = v[2] /\ u[1] \in Nat /\ w[1] \in Nat
        /\ precedes(oh[v[2]], u[1], w[1]) /\ precedes(oh[v[2]], w[1], v[1])
    BY <1>4, <1>5, PairMembers DEF outputPrefers
  <2>2. outputPrefers(oh, u, v)
    BY <1>1, <2>1, PrecedesTransitive DEF outputPrefers
  <2>3. u[1] = w[1] \/ precedes(oh[v[2]], w[1], u[1])
    BY <1>3, <1>4, <2>1, <2>2
  <2> QED BY <1>1, <2>1, <2>3 DEF precedes
<1> QED BY <1>4, <1>5 DEF outputsReject

\* What the outputs leave to the inputs when the inputs leave them what they reject
\* of X.
offered(b, ih, oh, X) == b \ outputsReject(oh, b \ inputsReject(ih, X))

\* It is never less for a larger X, and so there is an X it is equal to: the union
\* of all that it contains.
LEMMA Fixpoint ==
  ASSUME NEW b, NEW ih, NEW oh
  PROVE  \E X \in SUBSET b : X = offered(b, ih, oh, X)
<1> DEFINE T(X) == offered(b, ih, oh, X)
           small == {X \in SUBSET b : X \subseteq T(X)}
           F == UNION small
<1>1. ASSUME NEW X \in SUBSET b, NEW Y \in SUBSET b, X \subseteq Y
      PROVE  T(X) \subseteq T(Y)
  <2>1. inputsReject(ih, X) \subseteq inputsReject(ih, Y)
    BY <1>1 DEF inputsReject
  <2>2. outputsReject(oh, b \ inputsReject(ih, Y)) \subseteq outputsReject(oh, b \ inputsReject(ih, X))
    BY <2>1 DEF outputsReject
  <2> QED BY <2>2 DEF offered
<1>2. \A X : T(X) \subseteq b
  BY DEF offered
<1> HIDE DEF T
<1>3. F \in SUBSET b
  OBVIOUS
<1>4. F \subseteq T(F)
  <2> SUFFICES ASSUME NEW X \in small PROVE X \subseteq T(F)
    OBVIOUS
  <2>1. X \subseteq T(X) /\ X \subseteq F /\ X \in SUBSET b
    OBVIOUS
  <2> HIDE DEF F, small
  <2> QED BY <1>1, <1>3, <2>1
<1>5. T(F) \subseteq F
  <2>1. T(F) \in small
    <3>1. T(F) \subseteq T(T(F))
      <4> HIDE DEF F, small
      <4> QED BY <1>1, <1>2, <1>3, <1>4
    <3> QED BY <1>2, <3>1
  <2> HIDE DEF small
  <2> QED BY <2>1
<1> HIDE DEF F
<1> QED BY <1>3, <1>4, <1>5 DEF T

\* Whatever is backlogged and wherever the heads are, a set of buffers satisfies the
\* match conditions, each of which refers to the others.
THEOREM MatchExists ==
  ASSUME NEW b \in SUBSET ports, NEW ih, NEW oh, Heads(ih, oh)
  PROVE  \E m \in SUBSET b : trs(m, b, ih, oh)
<1>1. PICK X \in SUBSET b : X = offered(b, ih, oh, X)
  BY Fixpoint
<1> DEFINE Y == b \ inputsReject(ih, X)
           m == X \cap Y
<1>2. X = b \ outputsReject(oh, Y) /\ X \in SUBSET ports /\ Y \in SUBSET ports
  BY <1>1 DEF offered
<1>3. m = X \ inputsReject(ih, X) /\ m = Y \ outputsReject(oh, Y) /\ m \subseteq b
  BY <1>2 DEF inputsReject, outputsReject
<1> HIDE DEF m, Y
<1>4. ih \in [get_in_ports -> Nat] /\ oh \in [get_out_ports -> Nat]
  BY DEF Heads
<1>5. ASSUME NEW v \in m PROVE match_cond(m, b, ih, oh, v[1], v[2])
  <2>1. v \in b /\ v \in ports /\ <<v[1], v[2]>> = v
    BY <1>3, PairMembers
  <2>2. \A w \in m : ~inputPrefers(ih, w, v) /\ ~outputPrefers(oh, w, v)
    BY <1>3 DEF inputsReject, outputsReject
  <2> QED BY <2>1, <2>2
          DEF match_cond, higher_prio_inputs, higher_prio_outputs, inputPrefers, outputPrefers
<1>6. ASSUME NEW v \in ports, match_cond(m, b, ih, oh, v[1], v[2]) PROVE v \in m
  <2>1. v \in b /\ <<v[1], v[2]>> = v
    BY <1>6, PairMembers DEF match_cond
  <2>2. \A w \in m : ~inputPrefers(ih, w, v)
    <3>1. ASSUME NEW w \in m, inputPrefers(ih, w, v) PROVE FALSE
      <4>1. w = <<v[1], w[2]>> /\ w[2] \in get_buffs_for_src(v[1])
        BY <1>3, <3>1, PairMembers DEF inputPrefers
      <4> QED BY <1>6, <3>1, <4>1 DEF match_cond, higher_prio_outputs, inputPrefers
    <3> QED BY <3>1
  <2>3. \A w \in m : ~outputPrefers(oh, w, v)
    <3>1. ASSUME NEW w \in m, outputPrefers(oh, w, v) PROVE FALSE
      <4>1. w = <<w[1], v[2]>> /\ w[1] \in get_buffs_for_dst(v[2])
        BY <1>3, <3>1, PairMembers DEF outputPrefers
      <4> QED BY <1>6, <3>1, <4>1 DEF match_cond, higher_prio_inputs, outputPrefers
    <3> QED BY <3>1
  <2>4. v \notin inputsReject(ih, X)
    BY <1>2, <1>3, <1>4, <2>2, InputsChoose
  <2>5. v \notin outputsReject(oh, Y)
    BY <1>2, <1>3, <1>4, <2>3, OutputsChoose
  <2> QED BY <1>2, <1>3, <2>1, <2>4, <2>5
<1>7. matches(m, b, ih, oh)
  BY <1>5, <1>6 DEF matches
<1>8. no_double_match_in(m) /\ no_double_match_out(m)
  BY <1>3, <1>7, DoubleMatchLoopsRedundant
<1> QED BY <1>3, <1>7, <1>8 DEF trs

\* FperfLeafSts excludes no traffic: whatever is backlogged in the next timestep, it
\* has a match for it.
THEOREM AlwaysMatchable == SwitchSpec => []Matchable
<1>1. SwitchInv => Matchable
  <2> SUFFICES ASSUME SwitchInv, class = "FperfLeafSts", NEW b \in SUBSET used
               PROVE  \E m \in SUBSET b : trs(m, b, update_in_prio_head(matched, in_prio_head),
                                                    update_out_prio_head(matched, out_prio_head))
    BY DEF Matchable
  <2>1. b \in SUBSET ports
    BY LeafAssumption DEF LeafAssumption
  <2> QED BY <2>1, HeadsUpdate, MatchExists DEF SwitchInv, FperfInv
<1> QED BY <1>1, InitInv, StepInv, PTL DEF SwitchSpec

-----------------------------------------------------------------------------
(***************************************************************************)
(* How long a backlogged buffer waits where no port has more than two      *)
(* peers.  If its input is taken, the input's head was the buffer's own    *)
(* output and moves to the other one: an input is taken from a buffer only *)
(* once before it is the buffer's turn, and so it is with the output.  The *)
(* invariant counts the ports that have been taken, which are the ones     *)
(* whose next head is not the buffer's.                                    *)
(***************************************************************************)
AtMostTwoPeers ==
  /\ \A s : \A x, y, z \in get_buffs_for_src(s) : x = y \/ y = z \/ x = z
  /\ \A d : \A x, y, z \in get_buffs_for_dst(d) : x = y \/ y = z \/ x = z

\* The heads are peers of their ports.
PeerHeads(ih, oh) ==
  /\ ih \in [get_in_ports -> Nat] /\ \A s \in get_in_ports : ih[s] \in get_buffs_for_src(s)
  /\ oh \in [get_out_ports -> Nat] /\ \A d \in get_out_ports : oh[d] \in get_buffs_for_dst(d)

LEMMA PeerHeadsUpdate ==
  ASSUME NEW m, NEW ih, NEW oh, PeerHeads(ih, oh)
  PROVE  PeerHeads(update_in_prio_head(m, ih), update_out_prio_head(m, oh))
<1>1. ASSUME NEW s \in get_in_ports
      PROVE  update_in_prio_head(m, ih)[s] \in get_buffs_for_src(s)
  BY <1>1 DEF PeerHeads, update_in_prio_head
<1>2. ASSUME NEW d \in get_out_ports
      PROVE  update_out_prio_head(m, oh)[d] \in get_buffs_for_dst(d)
  BY <1>2 DEF PeerHeads, update_out_prio_head
<1>3. /\ update_in_prio_head(m, ih) \in [get_in_ports -> Nat]
      /\ update_out_prio_head(m, oh) \in [get_out_ports -> Nat]
  BY HeadsUpdate DEF PeerHeads, Heads
<1> QED BY <1>1, <1>2, <1>3 DEF PeerHeads

\* The ports of a buffer that have been taken from it.
taken(ih, oh, v) == (IF ih[v[1]] # v[2] THEN 1 ELSE 0) + (IF oh[v[2]] # v[1] THEN 1 ELSE 0)

\* A backlogged buffer that is not matched loses one more of its ports, and it had
\* not lost it.
LEMMA OneMoreTaken ==
  ASSUME AtMostTwoPeers, NEW ih, NEW oh, PeerHeads(ih, oh),
         NEW b, NEW m, m \subseteq b, trs(m, b, ih, oh),
         NEW v \in ports, v \in b \ m
  PROVE  taken(ih, oh, v) + 1 <= taken(update_in_prio_head(m, ih), update_out_prio_head(m, oh), v)
<1> DEFINE ihn == update_in_prio_head(m, ih)
           ohn == update_out_prio_head(m, oh)
           s == v[1]
           d == v[2]
<1>1. /\ v = <<s, d>> /\ s \in Nat /\ d \in Nat /\ s \in get_in_ports /\ d \in get_out_ports
      /\ s \in get_buffs_for_dst(d) /\ d \in get_buffs_for_src(s)
  BY PairMembers
<1>2. /\ ih[s] \in Nat /\ ih[s] \in get_buffs_for_src(s)
      /\ oh[d] \in Nat /\ oh[d] \in get_buffs_for_dst(d)
  BY <1>1 DEF PeerHeads
<1>3. <<s, d>> \notin m
  BY <1>1
\* A head does not come to a buffer that is not matched.
<1>4. /\ ihn[s] = d => ih[s] = d
      /\ (\E y \in get_buffs_for_src(s) : <<s, y>> \in m) => ihn[s] # d
  BY <1>1, <1>3 DEF update_in_prio_head
<1>5. /\ ohn[d] = s => oh[d] = s
      /\ (\E x \in get_buffs_for_dst(d) : <<x, d>> \in m) => ohn[d] # s
  BY <1>1, <1>3 DEF update_out_prio_head
<1>6. ~match_cond(m, b, ih, oh, s, d)
  BY DEF trs, matches
<1>7. CASE \E y \in higher_prio_outputs(ih, s, d) : <<s, y>> \in m
  <2>1. PICK y \in get_buffs_for_src(s) : precedes(ih[s], y, d) /\ <<s, y>> \in m
    BY <1>7 DEF higher_prio_outputs
  <2>2. y \in Nat
    BY <2>1, PortsAreNats
  <2>3. y # d /\ y # ih[s]
    BY <1>1, <1>2, <2>1, <2>2 DEF precedes
  <2>4. ih[s] = d
    BY <1>1, <1>2, <2>1, <2>3 DEF AtMostTwoPeers
  <2>5. ihn[s] # d
    BY <1>4, <2>1
  <2> HIDE DEF ihn, ohn, s, d
  <2>6. taken(ih, oh, v) = IF oh[d] # s THEN 1 ELSE 0
    BY <2>4 DEF taken, s, d
  <2>7. taken(ihn, ohn, v) = 1 + IF ohn[d] # s THEN 1 ELSE 0
    BY <2>5 DEF taken, s, d
  <2> QED BY <1>5, <2>6, <2>7 DEF ihn, ohn
<1>8. CASE \E x \in higher_prio_inputs(oh, s, d) : <<x, d>> \in m
  <2>1. PICK x \in get_buffs_for_dst(d) : precedes(oh[d], x, s) /\ <<x, d>> \in m
    BY <1>8 DEF higher_prio_inputs
  <2>2. x \in Nat
    BY <2>1, PortsAreNats
  <2>3. x # s /\ x # oh[d]
    BY <1>1, <1>2, <2>1, <2>2 DEF precedes
  <2>4. oh[d] = s
    BY <1>1, <1>2, <2>1, <2>3 DEF AtMostTwoPeers
  <2>5. ohn[d] # s
    BY <1>5, <2>1
  <2> HIDE DEF ihn, ohn, s, d
  <2>6. taken(ih, oh, v) = IF ih[s] # d THEN 1 ELSE 0
    BY <2>4 DEF taken, s, d
  <2>7. taken(ihn, ohn, v) = 1 + IF ihn[s] # d THEN 1 ELSE 0
    BY <2>5 DEF taken, s, d
  <2> QED BY <1>4, <2>6, <2>7 DEF ihn, ohn
<1> QED BY <1>1, <1>6, <1>7, <1>8 DEF match_cond

WaitInv ==
  /\ wait \in [used -> Nat]
  /\ class = "FperfLeafSts" =>
       /\ PeerHeads(in_prio_head, out_prio_head)
       /\ \A v \in used : wait[v] <= taken(update_in_prio_head(matched, in_prio_head),
                                           update_out_prio_head(matched, out_prio_head), v)
  /\ class # "FperfLeafSts" => \A v \in used : wait[v] = 0

LEMMA WaitInit == SwitchInit => WaitInv
<1> SUFFICES ASSUME SwitchInit PROVE WaitInv
  OBVIOUS
<1>1. wait \in [used -> Nat] /\ \A v \in used : wait[v] = 0
  BY DEF SwitchInit, NoWait
<1>2. ASSUME class = "FperfLeafSts" PROVE PeerHeads(in_prio_head, out_prio_head)
  <2>1. Init
    BY <1>2 DEF SwitchInit
  <2> QED BY <2>1, FirstInSet, PortsAreNats, PortsHaveBuffers DEF Init, init, PeerHeads
<1>3. \A ih, oh, v : 0 <= taken(ih, oh, v)
  BY DEF taken
<1> QED BY <1>1, <1>2, <1>3 DEF WaitInv

LEMMA WaitStep == AtMostTwoPeers /\ WaitInv /\ [SwitchNext]_switchVars => WaitInv'
<1> SUFFICES ASSUME AtMostTwoPeers, WaitInv, [SwitchNext]_switchVars PROVE WaitInv'
  OBVIOUS
<1> DEFINE ihn == update_in_prio_head(matched, in_prio_head)
           ohn == update_out_prio_head(matched, out_prio_head)
<1>1. CASE UNCHANGED switchVars
  <2>1. /\ UNCHANGED <<class, wait, matched, in_prio_head, out_prio_head>>
        /\ update_in_prio_head(matched', in_prio_head') = ihn
        /\ update_out_prio_head(matched', out_prio_head') = ohn
    BY <1>1 DEF switchVars
  <2> HIDE DEF ihn, ohn
  <2>2. PeerHeads(in_prio_head', out_prio_head') <=> PeerHeads(in_prio_head, out_prio_head)
    BY <2>1
  <2>3. WaitInv <=>
          /\ wait \in [used -> Nat]
          /\ class = "FperfLeafSts" =>
               /\ PeerHeads(in_prio_head, out_prio_head)
               /\ \A v \in used : wait[v] <= taken(ihn, ohn, v)
          /\ class # "FperfLeafSts" => \A v \in used : wait[v] = 0
    BY DEF WaitInv, ihn, ohn
  <2> QED BY <2>1, <2>2, <2>3 DEF WaitInv
<1>2. CASE class = "FperfLeafSts" /\ SwitchNext
  <2>1. PICK e \in Enqueues : Step(e)
    BY <1>2 DEF SwitchNext, Next
  <2>2. /\ class' = class /\ in_prio_head' = ihn /\ out_prio_head' = ohn
        /\ wait' = waitAfter(wait, backlogged(C'), matched')
        /\ matched' \subseteq backlogged(C')
        /\ trs(matched', backlogged(C'), ihn, ohn)
    BY <1>2, <2>1 DEF SwitchNext, Step
  <2>3. /\ PeerHeads(ihn, ohn) /\ wait \in [used -> Nat]
        /\ \A v \in used : wait[v] <= taken(ihn, ohn, v)
    BY <1>2, PeerHeadsUpdate DEF WaitInv
  <2> DEFINE ihp == update_in_prio_head(matched', ihn)
             ohp == update_out_prio_head(matched', ohn)
  <2>4. wait' \in [used -> Nat]
    BY <2>2, <2>3, MaxWaitAssumption DEF waitAfter
  <2>5. ASSUME NEW v \in used PROVE wait'[v] <= taken(ihp, ohp, v)
    <3>1. /\ wait[v] \in Nat /\ wait[v] <= taken(ihn, ohn, v) /\ v \in ports
          /\ taken(ihn, ohn, v) \in 0 .. 2 /\ taken(ihp, ohp, v) \in 0 .. 2
      BY <2>3, <2>5, LeafAssumption DEF LeafAssumption, taken
    <3>2. CASE v \in backlogged(C') \ matched'
      <4>1. taken(ihn, ohn, v) + 1 <= taken(ihp, ohp, v)
        <5> HIDE DEF ihn, ohn
        <5> QED BY <2>2, <2>3, <3>1, <3>2, OneMoreTaken
      <4>2. wait'[v] <= wait[v] + 1
        BY <2>2, <2>5, <3>1, <3>2, MaxWaitAssumption DEF waitAfter
      <4>3. wait'[v] \in Nat
        BY <2>4, <2>5
      <4> HIDE DEF ihn, ohn, ihp, ohp
      <4> QED BY <3>1, <4>1, <4>2, <4>3
    <3>3. CASE v \notin backlogged(C') \ matched'
      <4>1. wait'[v] = 0
        BY <2>2, <2>5, <3>3 DEF waitAfter
      <4> HIDE DEF ihn, ohn, ihp, ohp
      <4> QED BY <3>1, <4>1
    <3> QED BY <3>2, <3>3
  <2> HIDE DEF ihn, ohn
  <2> QED BY <1>2, <2>2, <2>3, <2>4, <2>5 DEF WaitInv
<1>3. CASE class # "FperfLeafSts" /\ SwitchNext
  BY <1>3 DEF SwitchNext, WaitInv
<1> QED BY <1>1, <1>2, <1>3 DEF WaitInv

LEMMA TwoMembers ==
  ASSUME NEW S, IsFiniteSet(S), NEW x \in S
  PROVE  Cardinality(S) \in Nat /\ 1 <= Cardinality(S) /\ \A y \in S : x # y => 2 <= Cardinality(S)
<1>1. /\ Cardinality(S) \in Nat
      /\ IsFiniteSet(S \ {x}) /\ Cardinality(S \ {x}) \in Nat
      /\ Cardinality(S) = Cardinality(S \ {x}) + 1
  <2>1. IsFiniteSet(S \ {x}) /\ Cardinality(S \ {x}) = Cardinality(S) - 1
    BY FS_RemoveElement
  <2>2. Cardinality(S) \in Nat /\ Cardinality(S \ {x}) \in Nat
    BY <2>1, FS_CardinalityType
  <2> QED BY <2>1, <2>2
<1>2. ASSUME NEW y \in S, x # y PROVE Cardinality(S \ {x}) # 0
  BY <1>1, <1>2, FS_EmptySet
<1> QED BY <1>1, <1>2

LEMMA PeersFinite ==
  ASSUME NEW s, NEW d
  PROVE  IsFiniteSet(get_buffs_for_src(s)) /\ IsFiniteSet(get_buffs_for_dst(d))
<1> DEFINE V == {w \in ports : w[1] = s}
           W == {w \in ports : w[2] = d}
           f == [w \in V |-> w[2]]
           g == [w \in W |-> w[1]]
<1>1. V \in SUBSET ports /\ W \in SUBSET ports
  OBVIOUS
<1>2. f \in Surjection(V, get_buffs_for_src(s)) /\ g \in Surjection(W, get_buffs_for_dst(d))
  BY DEF Surjection, get_buffs_for_src, get_buffs_for_dst
<1> HIDE DEF V, W, f, g
<1>3. IsFiniteSet(V) /\ IsFiniteSet(W)
  BY <1>1, LeafAssumption, FS_Subset DEF LeafAssumption
<1> QED BY <1>2, <1>3, FS_Surjection

\* Where no port has more than two peers, as in a spine that joins three leaves, a
\* backlogged buffer is matched within two timesteps.
THEOREM WaitsForPeers ==
  ASSUME AtMostTwoPeers
  PROVE  SwitchSpec => []SpineWait
<1>1. ASSUME WaitInv PROVE SpineWait
  <2> SUFFICES ASSUME NEW v \in used
               PROVE  wait[v] <= Cardinality(get_buffs_for_src(v[1])) - 1
                                 + Cardinality(get_buffs_for_dst(v[2])) - 1
    BY DEF SpineWait
  <2> DEFINE S == get_buffs_for_src(v[1])
             T == get_buffs_for_dst(v[2])
  <2>1. v[2] \in S /\ v[1] \in T /\ v[1] \in get_in_ports /\ v[2] \in get_out_ports
    BY PairMembers, LeafAssumption DEF LeafAssumption
  <2>2. IsFiniteSet(S) /\ IsFiniteSet(T)
    BY PeersFinite
  <2>3. /\ Cardinality(S) \in Nat /\ 1 <= Cardinality(S)
        /\ Cardinality(T) \in Nat /\ 1 <= Cardinality(T)
    BY <2>1, <2>2, TwoMembers
  <2>4. CASE class = "FperfLeafSts"
    <3> DEFINE ihn == update_in_prio_head(matched, in_prio_head)
               ohn == update_out_prio_head(matched, out_prio_head)
    <3>1. PeerHeads(ihn, ohn)
      BY <1>1, <2>4, PeerHeadsUpdate DEF WaitInv
    <3>2. wait[v] \in Nat /\ wait[v] <= taken(ihn, ohn, v)
      BY <1>1, <2>4 DEF WaitInv
    <3>3. ihn[v[1]] \in S /\ ohn[v[2]] \in T
      BY <2>1, <3>1 DEF PeerHeads
    <3> HIDE DEF S, T, ihn, ohn
    <3>4. /\ (IF ihn[v[1]] # v[2] THEN 1 ELSE 0) <= Cardinality(S) - 1
          /\ (IF ohn[v[2]] # v[1] THEN 1 ELSE 0) <= Cardinality(T) - 1
      BY <2>1, <2>2, <2>3, <3>3, TwoMembers
    <3> QED BY <2>3, <3>2, <3>4 DEF taken, S, T
  <2>5. CASE class # "FperfLeafSts"
    <3>1. wait[v] = 0
      BY <1>1, <2>5 DEF WaitInv
    <3> HIDE DEF S, T
    <3> QED BY <2>3, <3>1 DEF S, T
  <2> QED BY <2>4, <2>5
<1> QED BY <1>1, WaitInit, WaitStep, PTL DEF SwitchSpec

-----------------------------------------------------------------------------
(***************************************************************************)
(* LeafSts after a timestep without a match: every port starts again       *)
(* behind its first peer.  In a switch in which that is the same port lo   *)
(* for all of them, and hi for lo itself, all prefer the ports in the same *)
(* order, lo the last; but lo prefers hi the least.  The buffers to the    *)
(* output that is first in this order are matched there, or it is hi and   *)
(* only lo has packets for it, and takes another output; then the output   *)
(* that is first without hi is matched.                                    *)
(***************************************************************************)
firstPeer(x, lo, hi) == IF x = lo THEN hi ELSE lo

Aligned(lo, hi) ==
  /\ lo \in Nat /\ hi \in Nat /\ lo < hi
  /\ \A s \in get_in_ports : First(get_buffs_for_src(s)) = firstPeer(s, lo, hi)
  /\ \A d \in get_out_ports : First(get_buffs_for_dst(d)) = firstPeer(d, lo, hi)
  /\ <<lo, lo>> \notin ports

\* The turn of an input that has packets for some output goes to the one nearest
\* after where it starts: x, and y last if y is where it starts.
LEMMA InputTurn ==
  ASSUME NEW b \in SUBSET ports, NEW v \in b, NEW h \in Nat
  PROVE  LET t == Leaf!rr_for_src(b, v[1], h)
         IN  /\ <<v[1], t>> \in b
             /\ \A y : <<v[1], y>> \in b => y = t \/ precedes(h, t, y)
<1> DEFINE s == v[1]
           cand == {x \in get_buffs_for_src(s) \ {h} : <<s, x>> \in b}
           t == Leaf!rr_for_src(b, s, h)
<1>1. <<s, v[2]>> \in b /\ v[2] \in get_buffs_for_src(s)
  BY PairMembers
<1>2. \A y : <<s, y>> \in b => y \in Nat /\ y \in get_buffs_for_src(s)
  <2>1. ASSUME NEW y, <<s, y>> \in b PROVE y \in Nat /\ y \in get_buffs_for_src(s)
    <3>1. <<s, y>> \in ports
      BY <2>1
    <3> QED BY <3>1, PairMembers
  <2> QED BY <2>1
<1>3. t = IF cand = {} THEN h ELSE CHOOSE x \in cand : \A y \in cand : y = x \/ precedes(h, x, y)
  BY DEF Leaf!rr_for_src, Leaf!rr, Leaf!get_buffs_for_src, get_buffs_for_src, Leaf!precedes, precedes
<1>4. cand \in SUBSET Nat /\ h \notin cand
  BY PortsAreNats
<1>5. CASE cand = {}
  BY <1>1, <1>2, <1>3, <1>5
<1>6. CASE cand # {}
  <2>1. t \in cand /\ \A y \in cand : y = t \/ precedes(h, t, y)
    <3> HIDE DEF cand, t
    <3> QED BY <1>3, <1>4, <1>6, Nearest
  <2>2. ASSUME NEW y, <<s, y>> \in b PROVE y = t \/ precedes(h, t, y)
    <3>1. CASE y = h
      <4>1. t \in Nat /\ t # h
        BY <1>4, <2>1
      <4> QED BY <3>1, <4>1 DEF precedes
    <3>2. CASE y # h
      BY <1>2, <2>1, <2>2, <3>2
    <3> QED BY <3>1, <3>2
  <2> QED BY <2>1, <2>2
<1> QED BY <1>5, <1>6

LEMMA OutputTurn ==
  ASSUME NEW b \in SUBSET ports, NEW v \in b, NEW h \in Nat
  PROVE  LET t == Leaf!rr_for_dst(b, v[2], h)
         IN  /\ <<t, v[2]>> \in b
             /\ \A y : <<y, v[2]>> \in b => y = t \/ precedes(h, t, y)
<1> DEFINE d == v[2]
           cand == {x \in get_buffs_for_dst(d) \ {h} : <<x, d>> \in b}
           t == Leaf!rr_for_dst(b, d, h)
<1>1. <<v[1], d>> \in b /\ v[1] \in get_buffs_for_dst(d)
  BY PairMembers
<1>2. \A y : <<y, d>> \in b => y \in Nat /\ y \in get_buffs_for_dst(d)
  <2>1. ASSUME NEW y, <<y, d>> \in b PROVE y \in Nat /\ y \in get_buffs_for_dst(d)
    <3>1. <<y, d>> \in ports
      BY <2>1
    <3> QED BY <3>1, PairMembers
  <2> QED BY <2>1
<1>3. t = IF cand = {} THEN h ELSE CHOOSE x \in cand : \A y \in cand : y = x \/ precedes(h, x, y)
  BY DEF Leaf!rr_for_dst, Leaf!rr, Leaf!get_buffs_for_dst, get_buffs_for_dst, Leaf!precedes, precedes
<1>4. cand \in SUBSET Nat /\ h \notin cand
  BY PortsAreNats
<1>5. CASE cand = {}
  BY <1>1, <1>2, <1>3, <1>5
<1>6. CASE cand # {}
  <2>1. t \in cand /\ \A y \in cand : y = t \/ precedes(h, t, y)
    <3> HIDE DEF cand, t
    <3> QED BY <1>3, <1>4, <1>6, Nearest
  <2>2. ASSUME NEW y, <<y, d>> \in b PROVE y = t \/ precedes(h, t, y)
    <3>1. CASE y = h
      <4>1. t \in Nat /\ t # h
        BY <1>4, <2>1
      <4> QED BY <3>1, <4>1 DEF precedes
    <3>2. CASE y # h
      BY <1>2, <2>1, <2>2, <3>2
    <3> QED BY <3>1, <3>2
  <2> QED BY <2>1, <2>2
<1> QED BY <1>5, <1>6

LEMMA PrecedesAsymmetric ==
  ASSUME NEW h \in Nat, NEW x \in Nat, NEW y \in Nat, precedes(h, x, y)
  PROVE  ~precedes(h, y, x)
BY DEF precedes

\* The turns of the ports that have a backlogged buffer.
InputTurns(b, dt, lo, hi) ==
  \A s, d : <<s, d>> \in b =>
    <<s, dt[s]>> \in b /\ (d = dt[s] \/ precedes(firstPeer(s, lo, hi), dt[s], d))
OutputTurns(b, st, lo, hi) ==
  \A s, d : <<s, d>> \in b =>
    <<st[d], d>> \in b /\ (s = st[d] \/ precedes(firstPeer(d, lo, hi), st[d], s))

LEMMA PortsFromFirst ==
  ASSUME NEW lo, NEW hi, Aligned(lo, hi), NEW s, NEW d, <<s, d>> \in ports
  PROVE  /\ s \in Nat /\ d \in Nat /\ lo <= s /\ lo <= d
         /\ s = lo => hi <= d
         /\ ~(s = lo /\ d = lo)
<1>1. /\ s \in Nat /\ d \in Nat /\ s \in get_in_ports /\ d \in get_out_ports
      /\ s \in get_buffs_for_dst(d) /\ d \in get_buffs_for_src(s)
  BY PairMembers
<1>2. First(get_buffs_for_src(s)) <= d /\ First(get_buffs_for_dst(d)) <= s
  BY <1>1, PortsAreNats, FirstInSet
<1> QED BY <1>1, <1>2 DEF Aligned, firstPeer

Agree(b, st, dt) == \E s, d : <<s, d>> \in b /\ st[d] = s /\ dt[s] = d

LEMMA SomeTurnsAgree ==
  ASSUME NEW lo, NEW hi, NEW b, NEW st, NEW dt,
         Aligned(lo, hi), b \in SUBSET ports, b # {},
         InputTurns(b, dt, lo, hi), OutputTurns(b, st, lo, hi)
  PROVE  Agree(b, st, dt)
<1> DEFINE outs == {d \in Nat : \E s : <<s, d>> \in b}
<1>0. lo \in Nat /\ hi \in Nat /\ lo < hi
  BY DEF Aligned
<1>1. ASSUME NEW s, NEW d, <<s, d>> \in b
      PROVE  /\ s \in Nat /\ d \in Nat /\ lo <= s /\ lo <= d
             /\ s = lo => hi <= d
             /\ ~(s = lo /\ d = lo)
  <2>1. <<s, d>> \in ports
    BY <1>1
  <2> QED BY <2>1, PortsFromFirst
<1>2. outs # {} /\ outs \in SUBSET Nat
  <2>1. PICK v \in b : TRUE
    OBVIOUS
  <2>2. <<v[1], v[2]>> \in b
    BY PairMembers
  <2>3. v[2] \in outs
    BY <1>1, <2>2
  <2> QED BY <2>3
<1>3. PICK d1 \in outs : \A y \in outs : y = d1 \/ precedes(lo, d1, y)
  <2> HIDE DEF outs
  <2> QED BY <1>0, <1>2, Nearest
<1>4. <<st[d1], d1>> \in b
  BY DEF OutputTurns
\* Whoever has packets for the first output takes it, but lo.
<1>5. ASSUME NEW s, <<s, d1>> \in b, s # lo PROVE dt[s] = d1
  <2>1. <<s, dt[s]>> \in b /\ (d1 = dt[s] \/ precedes(lo, dt[s], d1))
    BY <1>5 DEF InputTurns, firstPeer
  <2>2. dt[s] \in outs /\ dt[s] \in Nat
    BY <1>1, <2>1
  <2> QED BY <1>0, <1>2, <1>3, <2>1, <2>2, PrecedesAsymmetric
<1>6. CASE dt[st[d1]] = d1
  BY <1>4, <1>6 DEF Agree
<1>7. CASE dt[st[d1]] # d1
  <2> DEFINE e == dt[lo]
  <2>1. st[d1] = lo /\ <<lo, d1>> \in b /\ e # d1
    BY <1>4, <1>5, <1>7
  <2>2. <<lo, e>> \in b /\ precedes(hi, e, d1)
    BY <2>1 DEF InputTurns, firstPeer
  <2>3. /\ e \in outs /\ e \in Nat /\ d1 \in Nat /\ hi <= e /\ hi <= d1
        /\ precedes(lo, d1, e)
    BY <1>1, <1>3, <2>1, <2>2
  <2>4. d1 = hi /\ hi < e
    <3> HIDE DEF e, outs
    <3> QED BY <1>0, <2>1, <2>2, <2>3 DEF precedes
  <2>5. \A s : <<s, hi>> \in b => s = lo
    <3>1. ASSUME NEW s, <<s, hi>> \in b, s # lo PROVE FALSE
      <4>1. precedes(lo, lo, s) /\ s \in Nat
        BY <1>0, <1>1, <2>1, <2>4, <3>1 DEF OutputTurns, firstPeer
      <4> QED BY <1>0, <4>1 DEF precedes
    <3> QED BY <3>1
  <2> DEFINE rest == outs \ {hi}
  <2>6. rest \in SUBSET Nat /\ e \in rest
    <3>1. e # hi
      <4> HIDE DEF e
      <4> QED BY <1>0, <2>3, <2>4
    <3> QED BY <2>3, <3>1
  <2>7. PICK d2 \in rest : \A y \in rest : y = d2 \/ precedes(lo, d2, y)
    <3> HIDE DEF rest
    <3> QED BY <1>0, <2>6, Nearest
  <2>8. d2 \in Nat /\ d2 # hi /\ d2 \in outs
    OBVIOUS
  <2>9. <<st[d2], d2>> \in b
    BY <2>8 DEF OutputTurns
  <2>10. e = d2 \/ precedes(lo, d2, e)
    <3> HIDE DEF rest, e
    <3> QED BY <2>6, <2>7
  <2>11. d2 # lo
    BY <1>0, <2>3, <2>4, <2>10 DEF precedes
  <2>12. ASSUME NEW s, <<s, d2>> \in b PROVE dt[s] = d2
    <3>1. <<s, dt[s]>> \in b
      BY <2>12 DEF InputTurns
    <3>2. CASE s = lo
      <4>1. d2 = e \/ precedes(hi, e, d2)
        BY <2>12, <3>2 DEF InputTurns, firstPeer
      <4>2. hi <= d2
        BY <1>1, <2>12, <3>2
      <4> HIDE DEF e, outs, rest
      <4>3. d2 = e
        BY <1>0, <2>3, <2>4, <2>8, <2>10, <4>1, <4>2 DEF precedes
      <4> QED BY <3>2, <4>3 DEF e
    <3>3. CASE s # lo
      <4>1. dt[s] # hi
        BY <2>5, <3>1, <3>3
      <4>2. dt[s] \in rest /\ dt[s] \in Nat
        BY <1>1, <3>1, <4>1
      <4>3. dt[s] = d2 \/ precedes(lo, d2, dt[s])
        <5> HIDE DEF rest
        <5> QED BY <2>7, <4>2
      <4>4. d2 = dt[s] \/ precedes(lo, dt[s], d2)
        BY <2>12, <3>3 DEF InputTurns, firstPeer
      <4> QED BY <1>0, <2>8, <4>2, <4>3, <4>4, PrecedesAsymmetric
    <3> QED BY <3>2, <3>3
  <2> QED BY <2>9, <2>12 DEF Agree
<1> QED BY <1>6, <1>7

\* The switches of lst.cpp and lsl.cpp, with n ports of which h lead to hosts: no
\* buffer leads back to its port, nor from spine to spine.  In a spine all ports
\* are of one kind, h = n.
SwitchPorts(n, h) ==
  {v \in (0 .. n - 1) \X (0 .. n - 1) : v[1] # v[2] /\ (v[1] < h \/ v[2] < h)}

LEMMA SwitchesAligned ==
  ASSUME NEW n \in Nat, 2 <= n, NEW h \in 1 .. n, ports = SwitchPorts(n, h)
  PROVE  Aligned(0, 1)
<1>1. \A x, y : <<x, y>> \in ports <=>
        x \in 0 .. n - 1 /\ y \in 0 .. n - 1 /\ x # y /\ (x < h \/ y < h)
  BY DEF SwitchPorts
<1>2. ASSUME NEW S \in SUBSET Nat, NEW x \in S, \A y \in S : x <= y PROVE First(S) = x
  <2>1. First(S) \in S /\ First(S) <= x
    BY <1>2, FirstInSet
  <2>2. First(S) \in Nat /\ x \in Nat /\ x <= First(S)
    BY <1>2, <2>1
  <2> QED BY <2>1, <2>2
<1>3. ASSUME NEW s \in get_in_ports PROVE First(get_buffs_for_src(s)) = firstPeer(s, 0, 1)
  <2>1. s \in 0 .. n - 1 /\ \A y : y \in get_buffs_for_src(s) <=> <<s, y>> \in ports
    BY <1>3, PairMembers DEF get_in_ports, get_buffs_for_src, SwitchPorts
  <2>2. firstPeer(s, 0, 1) \in get_buffs_for_src(s)
    <3>1. <<s, firstPeer(s, 0, 1)>> \in ports
      <4>1. CASE s = 0
        BY <1>1, <4>1 DEF firstPeer
      <4>2. CASE s # 0
        BY <1>1, <2>1, <4>2 DEF firstPeer
      <4> QED BY <4>1, <4>2
    <3> QED BY <2>1, <3>1
  <2>3. ASSUME NEW y \in get_buffs_for_src(s) PROVE firstPeer(s, 0, 1) <= y
    <3>1. y \in 0 .. n - 1 /\ s # y
      BY <1>1, <2>1
    <3> QED BY <3>1 DEF firstPeer
  <2> QED BY <1>2, <2>2, <2>3, PortsAreNats
<1>4. ASSUME NEW d \in get_out_ports PROVE First(get_buffs_for_dst(d)) = firstPeer(d, 0, 1)
  <2>1. d \in 0 .. n - 1 /\ \A x : x \in get_buffs_for_dst(d) <=> <<x, d>> \in ports
    BY <1>4, PairMembers DEF get_out_ports, get_buffs_for_dst, SwitchPorts
  <2>2. firstPeer(d, 0, 1) \in get_buffs_for_dst(d)
    <3>1. <<firstPeer(d, 0, 1), d>> \in ports
      <4>1. CASE d = 0
        BY <1>1, <4>1 DEF firstPeer
      <4>2. CASE d # 0
        BY <1>1, <2>1, <4>2 DEF firstPeer
      <4> QED BY <4>1, <4>2
    <3> QED BY <2>1, <3>1
  <2>3. ASSUME NEW x \in get_buffs_for_dst(d) PROVE firstPeer(d, 0, 1) <= x
    <3>1. x \in 0 .. n - 1 /\ d # x
      BY <1>1, <2>1
    <3> QED BY <3>1 DEF firstPeer
  <2> QED BY <1>2, <2>2, <2>3, PortsAreNats
<1> QED BY <1>1, <1>3, <1>4 DEF Aligned

\* A timestep of LeafSts after one without a match.
LEMMA RestartMatches ==
  ASSUME NEW lo, NEW hi, Aligned(lo, hi), NEW e
  PROVE  matched = {} /\ Leaf!Step(e) /\ backlogged(C') # {} => matched' # {}
<1>0. SUFFICES ASSUME matched = {} /\ Leaf!Step(e) /\ backlogged(C') # {} PROVE matched' # {}
  OBVIOUS
<1> DEFINE b == backlogged(C')
<1>1. b \in SUBSET ports /\ b # {}
  BY <1>0, LeafAssumption DEF backlogged, LeafAssumption
<1>2. ASSUME NEW s \in get_in_ports
      PROVE  in_prio_head'[s] = Leaf!rr_for_src(b, s, firstPeer(s, lo, hi))
  BY <1>0, <1>2 DEF Aligned, Leaf!Step, Leaf!trs, Leaf!backlogged, backlogged, Leaf!prev_dst_turn,
     Leaf!get_in_ports, get_in_ports, Leaf!First, First, Leaf!get_buffs_for_src, get_buffs_for_src
<1>3. ASSUME NEW d \in get_out_ports
      PROVE  out_prio_head'[d] = Leaf!rr_for_dst(b, d, firstPeer(d, lo, hi))
  BY <1>0, <1>3 DEF Aligned, Leaf!Step, Leaf!trs, Leaf!backlogged, backlogged, Leaf!prev_src_turn,
     Leaf!get_out_ports, get_out_ports, Leaf!First, First, Leaf!get_buffs_for_dst, get_buffs_for_dst
<1>4. matched' = {v \in b : out_prio_head'[v[2]] = v[1] /\ in_prio_head'[v[1]] = v[2]}
  BY <1>0 DEF Leaf!Step, Leaf!trs, Leaf!match_uncase, Leaf!backlogged, backlogged
<1>5. \A x : firstPeer(x, lo, hi) \in Nat
  BY DEF Aligned, firstPeer
<1> HIDE DEF b
<1>6. InputTurns(b, in_prio_head', lo, hi)
  <2> SUFFICES ASSUME NEW s, NEW d, <<s, d>> \in b
               PROVE  /\ <<s, in_prio_head'[s]>> \in b
                      /\ d = in_prio_head'[s] \/ precedes(firstPeer(s, lo, hi), in_prio_head'[s], d)
    BY DEF InputTurns
  <2> DEFINE v == <<s, d>>
  <2>1. v \in b /\ v[1] = s /\ v \in ports
    BY <1>1
  <2>2. s \in get_in_ports
    BY <2>1, PairMembers
  <2> HIDE DEF v
  <2> QED BY <1>1, <1>2, <1>5, <2>1, <2>2, InputTurn
<1>7. OutputTurns(b, out_prio_head', lo, hi)
  <2> SUFFICES ASSUME NEW s, NEW d, <<s, d>> \in b
               PROVE  /\ <<out_prio_head'[d], d>> \in b
                      /\ s = out_prio_head'[d] \/ precedes(firstPeer(d, lo, hi), out_prio_head'[d], s)
    BY DEF OutputTurns
  <2> DEFINE v == <<s, d>>
  <2>1. v \in b /\ v[2] = d /\ v \in ports
    BY <1>1
  <2>2. d \in get_out_ports
    BY <2>1, PairMembers
  <2> HIDE DEF v
  <2> QED BY <1>1, <1>3, <1>5, <2>1, <2>2, OutputTurn
<1>8. Agree(b, out_prio_head', in_prio_head')
  BY <1>1, <1>6, <1>7, SomeTurnsAgree
<1> QED BY <1>4, <1>8 DEF Agree

\* LeafSts does not stop at two turns that disagree, in a switch of any size of
\* lst.cpp or lsl.cpp: after a timestep without a match, all ports starting again at
\* their first peers, something is matched if anything is backlogged.
THEOREM TurnsAgreeAgain ==
  ASSUME NEW n \in Nat, 2 <= n, NEW h \in 1 .. n, ports = SwitchPorts(n, h)
  PROVE  SwitchSpec => WakesUp
<1>1. Aligned(0, 1)
  BY SwitchesAligned
<1>2. [SwitchNext]_switchVars =>
        [class = "LeafSts" /\ matched = {} /\ backlogged(C') # {} => matched' # {}]_switchVars
  <2> SUFFICES ASSUME SwitchNext, class = "LeafSts", matched = {}, backlogged(C') # {}
               PROVE  matched' # {}
    OBVIOUS
  <2>1. PICK e \in Leaf!Enqueues : Leaf!Step(e)
    BY DEF SwitchNext, Leaf!Next
  <2> QED BY <1>1, <2>1, RestartMatches
<1> QED BY <1>2, PTL DEF SwitchSpec, WakesUp

-----------------------------------------------------------------------------
\* For induction over the natural numbers.
Ind == INSTANCE STSChecker_proofs
         WITH num_bufs <- 1, c <- 1, me <- 1, md <- 1, MAX_I <- 1,
              I <- I, E <- I, D <- I, B <- I, O <- I, C <- I

LEMMA IndParams == Ind!ParamsAssumption
BY DEF Ind!ParamsAssumption

-----------------------------------------------------------------------------
(***************************************************************************)
(* Sums over finite sets of what is not negative.                          *)
(***************************************************************************)
pick(s) == CHOOSE x \in s : TRUE

SumsOf(S, w, f) ==
  \A s \in SUBSET S : f[s] = IF s = {} THEN 0 ELSE w[pick(s)] + f[s \ {pick(s)}]

\* Taking elements away one by one ends, so there is a function that sums.
LEMMA SumExists ==
  ASSUME NEW S, IsFiniteSet(S), NEW w \in [S -> Nat]
  PROVE  \E f \in [SUBSET S -> Nat] : SumsOf(S, w, f)
<1> DEFINE N == Cardinality(S)
           Vals == [SUBSET S -> Nat]
           next(g) == [s \in SUBSET S |-> IF s = {} THEN 0 ELSE w[pick(s)] + g[s \ {pick(s)}]]
           G == [n \in 1 .. N + 1 |-> [g \in Vals |-> next(g)]]
           zero == [s \in SUBSET S |-> 0]
<1>1. N \in Nat /\ N + 1 \in Nat
  BY FS_CardinalityType
<1>2. ASSUME NEW s \in SUBSET S, s # {}
      PROVE  /\ pick(s) \in S /\ pick(s) \in s /\ s \ {pick(s)} \in SUBSET S
             /\ Cardinality(s \ {pick(s)}) = Cardinality(s) - 1
             /\ Cardinality(s) \in Nat /\ Cardinality(s) # 0
  BY <1>2, FS_Subset, FS_RemoveElement, FS_CardinalityType, FS_EmptySet DEF pick
<1>3. ASSUME NEW g \in Vals PROVE next(g) \in Vals
  <2>1. ASSUME NEW s \in SUBSET S, s # {} PROVE w[pick(s)] + g[s \ {pick(s)}] \in Nat
    <3>1. w[pick(s)] \in Nat /\ g[s \ {pick(s)}] \in Nat
      BY <1>2, <2>1
    <3> QED BY <3>1
  <2> QED BY <2>1
<1>4. zero \in Vals /\ G \in Ind!Loops(N + 1, Vals)
  BY <1>3 DEF Ind!Loops
<1>5. PICK h \in [0 .. N + 1 -> Vals] : Ind!Computes(h, N + 1, zero, G)
  <2> HIDE DEF G, Vals, zero, N
  <2> QED BY <1>1, <1>4, IndParams, Ind!Recursion
<1>6. h[0] = zero /\ \A n \in 0 .. N : h[n] \in Vals /\ h[n + 1] = next(h[n])
  <2>1. \A n \in 1 .. N + 1 : h[n] = G[n][h[n - 1]]
    BY <1>5 DEF Ind!Computes
  <2>2. ASSUME NEW n \in 0 .. N PROVE h[n] \in Vals /\ h[n + 1] = next(h[n])
    <3>1. n + 1 \in 1 .. N + 1 /\ (n + 1) - 1 = n /\ n \in 0 .. N + 1
      BY <1>1
    <3>2. h[n] \in Vals
      BY <3>1
    <3>3. G[n + 1][h[n]] = next(h[n])
      BY <3>1, <3>2
    <3> HIDE DEF G, Vals, next
    <3> QED BY <2>1, <3>1, <3>2, <3>3
  <2> QED BY <1>5, <2>2 DEF Ind!Computes
<1> HIDE DEF G, zero
<1> DEFINE Same(n) == \A s \in SUBSET S : Cardinality(s) <= n => h[n + 1][s] = h[n][s]
           T == {n \in 0 .. N : Same(n)}
<1>7. ASSUME NEW n \in 0 .. N, NEW s \in SUBSET S
      PROVE  h[n + 1][s] = IF s = {} THEN 0 ELSE w[pick(s)] + h[n][s \ {pick(s)}]
  BY <1>6
<1> HIDE DEF next, Vals
<1>8. 0 \in T
  <2>1. ASSUME NEW s \in SUBSET S, Cardinality(s) <= 0 PROVE h[0 + 1][s] = h[0][s]
    <3>1. IsFiniteSet(s) /\ Cardinality(s) \in Nat
      BY FS_Subset, FS_CardinalityType
    <3>2. s = {}
      BY <2>1, <3>1, FS_EmptySet
    <3>3. h[0 + 1][s] = 0
      <4>1. 0 \in 0 .. N
        BY <1>1
      <4> HIDE DEF N
      <4> QED BY <1>7, <3>2, <4>1
    <3>4. h[0][s] = 0
      BY <1>6 DEF zero
    <3> QED BY <3>3, <3>4
  <2> QED BY <1>1, <2>1
<1>9. ASSUME NEW n \in 0 .. N - 1, n \in T PROVE n + 1 \in T
  <2>1. n + 1 \in 0 .. N /\ n \in 0 .. N /\ Same(n)
    BY <1>1, <1>9
  <2>2. ASSUME NEW s \in SUBSET S, Cardinality(s) <= n + 1
        PROVE  h[(n + 1) + 1][s] = h[n + 1][s]
    <3>1. CASE s = {}
      BY <1>7, <2>1, <3>1
    <3>2. CASE s # {}
      <4>1. Cardinality(s \ {pick(s)}) <= n
        BY <1>2, <2>2, <3>2
      <4>2. h[n + 1][s \ {pick(s)}] = h[n][s \ {pick(s)}]
        BY <1>2, <2>1, <3>2, <4>1
      <4>3. h[(n + 1) + 1][s] = w[pick(s)] + h[n + 1][s \ {pick(s)}]
        BY <1>7, <2>1, <3>2
      <4>4. h[n + 1][s] = w[pick(s)] + h[n][s \ {pick(s)}]
        BY <1>7, <2>1, <3>2
      <4> QED BY <4>2, <4>3, <4>4
    <3> QED BY <3>1, <3>2
  <2> QED BY <2>1, <2>2
<1>10. N \in T
  <2> HIDE DEF T
  <2>1. \A n \in 0 .. N - 1 : n \in T => n + 1 \in T
    BY <1>9
  <2>2. \A n \in 0 .. N : n \in T
    BY <1>1, <1>8, <2>1, IndParams, Ind!UpTo
  <2> QED BY <1>1, <2>2
<1>11. ASSUME NEW s \in SUBSET S
       PROVE  h[N][s] = IF s = {} THEN 0 ELSE w[pick(s)] + h[N][s \ {pick(s)}]
  <2>1. Cardinality(s) <= N
    BY FS_Subset
  <2>2. h[N + 1][s] = h[N][s]
    BY <1>10, <2>1
  <2>3. h[N + 1][s] = IF s = {} THEN 0 ELSE w[pick(s)] + h[N][s \ {pick(s)}]
    <3> HIDE DEF N
    <3> QED BY <1>1, <1>7
  <2> QED BY <2>2, <2>3
<1>12. h[N] \in [SUBSET S -> Nat]
  <2>1. h[N] \in Vals
    <3> HIDE DEF N
    <3> QED BY <1>1, <1>6
  <2> QED BY <2>1 DEF Vals
<1> QED BY <1>11, <1>12 DEF SumsOf

\* Such a sum is at least each of its terms, and zero if all of them are.
LEMMA SumFacts ==
  ASSUME NEW S, IsFiniteSet(S), NEW w \in [S -> Nat], NEW f, SumsOf(S, w, f)
  PROVE  /\ f[S] \in Nat
         /\ \A x \in S : w[x] <= f[S]
         /\ (\A x \in S : w[x] = 0) => f[S] = 0
<1> DEFINE N == Cardinality(S)
           Good(s) == /\ f[s] \in Nat
                      /\ \A x \in s : w[x] <= f[s]
                      /\ (\A x \in s : w[x] = 0) => f[s] = 0
           T == {n \in 0 .. N : \A s \in SUBSET S : Cardinality(s) = n => Good(s)}
<1>1. N \in Nat
  BY FS_CardinalityType
<1>2. ASSUME NEW s \in SUBSET S, s # {}
      PROVE  /\ pick(s) \in S /\ pick(s) \in s /\ s \ {pick(s)} \in SUBSET S
             /\ Cardinality(s \ {pick(s)}) = Cardinality(s) - 1
             /\ Cardinality(s) \in Nat /\ Cardinality(s) # 0
  BY <1>2, FS_Subset, FS_RemoveElement, FS_CardinalityType, FS_EmptySet DEF pick
<1>3. 0 \in T
  <2>1. ASSUME NEW s \in SUBSET S, Cardinality(s) = 0 PROVE Good(s)
    <3>1. s = {}
      BY <1>2, <2>1
    <3>2. f[{}] = 0
      BY DEF SumsOf
    <3> QED BY <3>1, <3>2
  <2> HIDE DEF Good
  <2> QED BY <1>1, <2>1
<1>4. ASSUME NEW n \in 0 .. N - 1, n \in T PROVE n + 1 \in T
  <2>1. n + 1 \in 0 .. N /\ \A s \in SUBSET S : Cardinality(s) = n => Good(s)
    BY <1>1, <1>4
  <2>2. ASSUME NEW s \in SUBSET S, Cardinality(s) = n + 1 PROVE Good(s)
    <3> DEFINE r == s \ {pick(s)}
    <3>1. s # {}
      BY <2>2, <1>1, FS_EmptySet
    <3>2. r \in SUBSET S /\ pick(s) \in S /\ pick(s) \in s /\ Cardinality(r) = n
      BY <1>2, <2>2, <3>1
    <3>3. Good(r)
      <4> HIDE DEF Good, r
      <4> QED BY <2>1, <3>2
    <3>4. f[s] = w[pick(s)] + f[r]
      BY <3>1 DEF SumsOf
    <3>5. w[pick(s)] \in Nat /\ f[r] \in Nat
      BY <3>2, <3>3
    <3>6. f[s] \in Nat /\ w[pick(s)] <= f[s] /\ f[r] <= f[s]
      BY <3>4, <3>5
    <3>7. ASSUME NEW x \in s PROVE w[x] <= f[s]
      <4>1. CASE x = pick(s)
        BY <3>6, <4>1
      <4>2. CASE x # pick(s)
        <5>1. x \in r /\ w[x] \in Nat
          BY <4>2
        <5> QED BY <3>3, <3>5, <3>6, <5>1
      <4> QED BY <4>1, <4>2
    <3>8. ASSUME \A x \in s : w[x] = 0 PROVE f[s] = 0
      BY <3>2, <3>3, <3>4, <3>8
    <3> QED BY <3>6, <3>7, <3>8
  <2> HIDE DEF Good
  <2> QED BY <2>1, <2>2
<1>5. N \in T
  <2> HIDE DEF T
  <2>1. \A n \in 0 .. N - 1 : n \in T => n + 1 \in T
    BY <1>4
  <2>2. \A n \in 0 .. N : n \in T
    BY <1>1, <1>3, <2>1, IndParams, Ind!UpTo
  <2> QED BY <1>1, <2>2
<1>6. Good(S)
  <2> HIDE DEF Good
  <2> QED BY <1>5
<1> QED BY <1>6

\* The packets in a timestep of an input, and whether there are any.
LEMMA PktSum ==
  ASSUME NEW cell \in [Types -> Nat]
  PROVE  /\ pktSum(cell) \in Nat
         /\ pktSum(cell) > 0 <=> \E k \in Types : cell[k] > 0
<1> DEFINE iter[s \in SUBSET Types] ==
             IF s = {} THEN 0 ELSE cell[CHOOSE x \in s : TRUE] + iter[s \ {CHOOSE x \in s : TRUE}]
<1>1. pktSum(cell) = iter[Types]
  BY DEF pktSum, MapThenSumSet, MapThenFoldSet
<1>2. IsFiniteSet(Types)
  BY FS_Interval, TopologyAssumption DEF Types, total_hosts
<1>3. SumsOf(Types, cell, iter)
  <2>1. PICK f \in [SUBSET Types -> Nat] : SumsOf(Types, cell, f)
    BY <1>2, SumExists
  <2>2. f = [s \in SUBSET Types |->
              IF s = {} THEN 0 ELSE cell[CHOOSE x \in s : TRUE] + f[s \ {CHOOSE x \in s : TRUE}]]
    BY <2>1 DEF SumsOf, pick
  <2>3. iter = [s \in SUBSET Types |->
                 IF s = {} THEN 0 ELSE cell[CHOOSE x \in s : TRUE] + iter[s \ {CHOOSE x \in s : TRUE}]]
    BY <2>2
  <2> HIDE DEF iter
  <2> QED BY <2>3 DEF SumsOf, pick
<1> HIDE DEF iter
<1>4. /\ iter[Types] \in Nat
      /\ \A k \in Types : cell[k] <= iter[Types]
      /\ (\A k \in Types : cell[k] = 0) => iter[Types] = 0
  BY <1>2, <1>3, SumFacts
<1>5. \A k \in Types : cell[k] \in Nat
  OBVIOUS
<1> QED BY <1>1, <1>4, <1>5

\* The packets of an input up to a timestep are at least those of the first one.
LEMMA CenqsFromFirst ==
  ASSUME NEW it \in [Times -> Nat], NEW t \in Times
  PROVE  cenqs(it)[t] \in Nat /\ it[0] <= cenqs(it)[t]
<1> DEFINE m == timesteps - 1
           upTo[n \in Times] == it[n] + IF n = 0 THEN 0 ELSE upTo[n - 1]
           G == [n \in 1 .. m |-> [x \in Nat |-> it[n] + x]]
           T == {n \in 0 .. m : upTo[n] \in Nat /\ it[0] <= upTo[n]}
<1>1. m \in Nat /\ Times = 0 .. m /\ 0 \in Times
  BY TimestepsAssumption DEF Times
<1>2. \A n \in Times : it[n] \in Nat
  OBVIOUS
<1>3. it[0] \in Nat /\ G \in Ind!Loops(m, Nat)
  <2>1. \A n \in 1 .. m : it[n] \in Nat
    BY <1>1, <1>2
  <2> QED BY <1>1, <1>2, <2>1 DEF Ind!Loops
<1>4. PICK f \in [0 .. m -> Nat] : Ind!Computes(f, m, it[0], G)
  <2> HIDE DEF G, m
  <2> QED BY <1>1, <1>3, IndParams, Ind!Recursion
<1>5. f[0] = it[0] /\ \A n \in 1 .. m : f[n] = it[n] + f[n - 1]
  <2>1. ASSUME NEW n \in 1 .. m PROVE f[n] = it[n] + f[n - 1]
    <3>1. n - 1 \in 0 .. m /\ f[n - 1] \in Nat
      BY <1>1
    <3> QED BY <1>4, <3>1 DEF Ind!Computes
  <2> QED BY <1>4, <2>1 DEF Ind!Computes
<1>6. f = [n \in Times |-> it[n] + IF n = 0 THEN 0 ELSE f[n - 1]]
  <2>1. ASSUME NEW n \in Times PROVE f[n] = it[n] + IF n = 0 THEN 0 ELSE f[n - 1]
    BY <1>1, <1>2, <1>5
  <2> HIDE DEF m, G
  <2> QED BY <1>1, <2>1
<1>7. upTo = [n \in Times |-> it[n] + IF n = 0 THEN 0 ELSE upTo[n - 1]]
  BY <1>6
<1>8. cenqs(it) = upTo
  BY DEF cenqs
<1> HIDE DEF upTo, G
<1>9. 0 \in T
  BY <1>1, <1>3, <1>7
<1>10. ASSUME NEW n \in 0 .. m - 1, n \in T PROVE n + 1 \in T
  <2>1. n + 1 \in 0 .. m /\ n + 1 \in Times /\ n + 1 # 0 /\ (n + 1) - 1 = n
    BY <1>1
  <2>2. upTo[n + 1] = it[n + 1] + upTo[n]
    BY <1>7, <2>1
  <2>3. it[n + 1] \in Nat /\ upTo[n] \in Nat /\ it[0] <= upTo[n]
    BY <1>2, <1>10, <2>1
  <2> QED BY <1>3, <2>1, <2>2, <2>3
<1>11. \A n \in 0 .. m : n \in T
  <2> HIDE DEF T, m
  <2>1. \A n \in 0 .. m - 1 : n \in T => n + 1 \in T
    BY <1>10
  <2> QED BY <1>1, <1>9, <2>1, IndParams, Ind!UpTo
<1> QED BY <1>1, <1>8, <1>11

TrafficType == I \in [Hosts -> [Times -> [Types -> Nat]]]

\* IT is the number of packets of each input in each timestep.
LEMMA ITType ==
  ASSUME TrafficType
  PROVE  IT \in [Hosts -> [Times -> Nat]] /\ IsFiniteSet(Hosts) /\ 0 \in Times
<1>1. \A i \in Hosts, t \in Times : I[i][t] \in [Types -> Nat]
  BY DEF TrafficType
<1>2. \A i \in Hosts, t \in Times : pktSum(I[i][t]) \in Nat
  BY <1>1, PktSum
<1>3. IsFiniteSet(Hosts)
  BY FS_Interval, TopologyAssumption DEF Hosts, total_hosts
<1> QED BY <1>2, <1>3, TimestepsAssumption DEF IT, Times

\* A line that silences its inputs does so in the first timestep, whatever its
\* interval: the sum of their packets up to its end is at most zero.
LEMMA SilencedAtFirst ==
  ASSUME TrafficType, NEW line \in Lines, holds(line), silences(line), NEW i \in line.ids
  PROVE  IT[i][0] = 0
<1> DEFINE e == line.end - 1
           w == [x \in line.ids |-> cenqs(IT[x])[e]]
           iter[s \in SUBSET line.ids] ==
             IF s = {} THEN 0
             ELSE cenqs(IT[CHOOSE x \in s : TRUE])[e] + iter[s \ {CHOOSE x \in s : TRUE}]
<1>1. /\ line.begin \in 1 .. timesteps /\ line.end \in line.begin .. timesteps
      /\ line.ids \subseteq Hosts /\ line.rhs \in Int /\ line.linear \in BOOLEAN
  BY LinesAssumption
<1>2. e \in Times /\ line.end \in Nat
  BY <1>1, TimestepsAssumption DEF Times
<1>3. IsFiniteSet(line.ids)
  BY <1>1, ITType, FS_Subset
<1>4. \A x \in line.ids : cenqs(IT[x])[e] \in Nat /\ IT[x][0] <= cenqs(IT[x])[e] /\ IT[x][0] \in Nat
  <2> HIDE DEF e
  <2>1. ASSUME NEW x \in line.ids
        PROVE  cenqs(IT[x])[e] \in Nat /\ IT[x][0] <= cenqs(IT[x])[e] /\ IT[x][0] \in Nat
    <3>1. IT[x] \in [Times -> Nat] /\ 0 \in Times
      BY <1>1, ITType
    <3> QED BY <1>2, <3>1, CenqsFromFirst
  <2> QED BY <2>1
<1>5. w \in [line.ids -> Nat] /\ \A x \in line.ids : w[x] = cenqs(IT[x])[e]
  BY <1>4
<1> HIDE DEF w
<1>6. SumsOf(line.ids, w, iter)
  <2> HIDE DEF e
  <2>1. PICK f \in [SUBSET line.ids -> Nat] : SumsOf(line.ids, w, f)
    BY <1>3, <1>5, SumExists
  <2>2. ASSUME NEW s \in SUBSET line.ids
        PROVE  f[s] = IF s = {} THEN 0
                      ELSE cenqs(IT[CHOOSE x \in s : TRUE])[e] + f[s \ {CHOOSE x \in s : TRUE}]
    BY <1>5, <2>1 DEF SumsOf, pick
  <2>3. f = [s \in SUBSET line.ids |->
              IF s = {} THEN 0
              ELSE cenqs(IT[CHOOSE x \in s : TRUE])[e] + f[s \ {CHOOSE x \in s : TRUE}]]
    BY <2>2
  <2>4. iter = [s \in SUBSET line.ids |->
                 IF s = {} THEN 0
                 ELSE cenqs(IT[CHOOSE x \in s : TRUE])[e] + iter[s \ {CHOOSE x \in s : TRUE}]]
    BY <2>3
  <2> HIDE DEF iter
  <2>5. ASSUME NEW s \in SUBSET line.ids
        PROVE  iter[s] = IF s = {} THEN 0 ELSE w[pick(s)] + iter[s \ {pick(s)}]
    BY <1>5, <2>4 DEF pick
  <2> QED BY <2>5 DEF SumsOf
<1>7. MapThenSumSet(LAMBDA x : cenqs(IT[x])[e], line.ids) = iter[line.ids]
  BY DEF MapThenSumSet, MapThenFoldSet
<1>8. binop(iter[line.ids], line.op, bound(line, line.end))
  <2>1. parse_cenq(line, IT)
    BY DEF holds, silences
  <2>2. line.end \in line.begin .. line.end
    BY <1>1
  <2>3. binop(MapThenSumSet(LAMBDA x : cenqs(IT[x])[e], line.ids), line.op, bound(line, line.end))
    <3> HIDE DEF iter
    <3> QED BY <2>1, <2>2 DEF parse_cenq
  <2> QED BY <1>7, <2>3
<1> HIDE DEF iter
<1>9. iter[line.ids] \in Nat /\ w[i] <= iter[line.ids]
  BY <1>3, <1>5, <1>6, SumFacts
<1>10. bound(line, line.end) \in Int /\ bound(line, line.end) <= 0
  <2>1. line.rhs \in Int /\ line.rhs <= 0 /\ line.end \in Nat
    BY <1>1, <1>2 DEF silences
  <2>2. line.rhs * line.end \in Int /\ line.rhs * line.end <= 0
    BY <2>1
  <2> QED BY <2>1, <2>2 DEF bound
<1>11. iter[line.ids] <= 0
  <2> DEFINE x == iter[line.ids]
             y == bound(line, line.end)
  <2>1. x \in Nat /\ y \in Int /\ y <= 0 /\ binop(x, line.op, y)
    BY <1>8, <1>9, <1>10
  <2>2. line.op \in {"<", "<=", "=="}
    BY DEF silences
  <2> HIDE DEF x, y
  <2>3. x <= y
    <3>1. CASE line.op = "<"
      BY <2>1, <3>1 DEF binop
    <3>2. CASE line.op = "<="
      BY <2>1, <3>2 DEF binop
    <3>3. CASE line.op = "=="
      BY <2>1, <3>3 DEF binop
    <3> QED BY <2>2, <3>1, <3>2, <3>3
  <2>4. x <= 0
    BY <2>1, <2>3
  <2> QED BY <2>4 DEF x
<1> QED BY <1>4, <1>5, <1>9, <1>11

-----------------------------------------------------------------------------
(***************************************************************************)
(* The destination of an input.                                            *)
(***************************************************************************)
LEMMA MaxIn ==
  ASSUME NEW n \in Nat, NEW S \in SUBSET (-1 .. n), S # {}
  PROVE  Max(S) \in S /\ \A y \in S : y <= Max(S)
<1> DEFINE R == {m \in Nat : n - m \in S}
<1>1. R \in SUBSET Nat /\ R # {}
  <2>1. PICK x \in S : TRUE
    OBVIOUS
  <2>2. x \in -1 .. n /\ n - x \in Nat /\ n - (n - x) = x
    OBVIOUS
  <2> QED BY <2>1, <2>2
<1>2. PICK m \in R : \A r \in R : m <= r
  <2> HIDE DEF R
  <2> QED BY <1>1, IndParams, Ind!NatMin
<1>3. n - m \in S /\ \A y \in S : n - m >= y
  <2>1. ASSUME NEW y \in S PROVE n - m >= y
    <3>1. y \in -1 .. n /\ n - y \in Nat /\ n - (n - y) = y
      OBVIOUS
    <3>2. m <= n - y
      BY <1>2, <3>1
    <3> QED BY <1>2, <3>1, <3>2
  <2> QED BY <1>2, <2>1
<1>4. Max(S) \in S /\ \A y \in S : Max(S) >= y
  <2> HIDE DEF R
  <2> QED BY <1>3 DEF Max
<1> QED BY <1>4

\* The destination of a packet type is a host.
LEMMA DstIndex ==
  ASSUME NEW k \in Types
  PROVE  get_pkt_type_to_dst_index[k] \in 0 .. total_hosts - 1 /\ total_hosts \in Nat \ {0}
<1>1. total_hosts \in Nat \ {0} /\ k \in Nat
  BY TopologyAssumption DEF Types, total_hosts
<1>2. k % total_hosts \in 0 .. total_hosts - 1
  <2> DEFINE n == total_hosts
  <2>1. n \in Nat \ {0} /\ k \in Nat
    BY <1>1
  <2> HIDE DEF n
  <2>2. k % n \in 0 .. n - 1
    BY <2>1
  <2> QED BY <2>2 DEF n
<1> QED BY <1>1, <1>2 DEF get_pkt_type_to_dst_index

\* dst_val is -1 without packets, and otherwise the destination of a packet; all of
\* them have it if they are of one type.
LEMMA DstVal ==
  ASSUME NEW cell \in [Types -> Nat]
  PROVE  /\ dst_val(cell) \in Int
         /\ dst_val(cell) >= 0 <=> \E k \in Types : cell[k] > 0
         /\ dst_val(cell) = -1 <=> ~\E k \in Types : cell[k] > 0
         /\ valid_meta(cell) =>
              \A k \in Types : cell[k] > 0 => dst_val(cell) = get_pkt_type_to_dst_index[k]
<1> DEFINE K == {j \in Types : cell[j] > 0}
           S == {-1} \cup {get_pkt_type_to_dst_index[k] : k \in K}
<1>1. S \in SUBSET (-1 .. total_hosts - 1) /\ S # {} /\ total_hosts - 1 \in Nat
  <2>1. total_hosts \in Nat \ {0}
    BY TopologyAssumption DEF total_hosts
  <2>2. \A k \in K : get_pkt_type_to_dst_index[k] \in 0 .. total_hosts - 1
    BY DstIndex
  <2> QED BY <2>1, <2>2
<1>2. dst_val(cell) = Max(S)
  BY DEF dst_val
<1>3. Max(S) \in S /\ \A y \in S : y <= Max(S)
  <2> HIDE DEF S
  <2> QED BY <1>1, MaxIn
<1>4. dst_val(cell) \in Int /\ dst_val(cell) >= -1
  BY <1>1, <1>2, <1>3
<1>5. ASSUME NEW k \in K
      PROVE  get_pkt_type_to_dst_index[k] <= dst_val(cell) /\ dst_val(cell) >= 0
  <2>1. get_pkt_type_to_dst_index[k] \in S /\ get_pkt_type_to_dst_index[k] \in 0 .. total_hosts - 1
    BY DstIndex
  <2>2. get_pkt_type_to_dst_index[k] <= dst_val(cell)
    BY <1>2, <1>3, <2>1
  <2> QED BY <1>4, <2>1, <2>2
<1>6. dst_val(cell) # -1 => \E k \in K : dst_val(cell) = get_pkt_type_to_dst_index[k]
  BY <1>2, <1>3
<1>7. ASSUME valid_meta(cell), NEW k \in Types, cell[k] > 0
      PROVE  dst_val(cell) = get_pkt_type_to_dst_index[k]
  <2>1. IsFiniteSet(K)
    <3>1. IsFiniteSet(Types)
      BY FS_Interval, TopologyAssumption DEF Types, total_hosts
    <3>2. K \subseteq Types
      OBVIOUS
    <3> QED BY <3>1, <3>2, FS_Subset
  <2>2. k \in K /\ dst_val(cell) # -1
    BY <1>4, <1>5, <1>7
  <2>3. PICK l \in K : dst_val(cell) = get_pkt_type_to_dst_index[l]
    BY <1>6, <2>2
  <2>4. Cardinality(K) <= 1
    BY <1>7 DEF valid_meta
  <2>5. l = k
    <3>1. Cardinality(K \ {k}) = Cardinality(K) - 1 /\ IsFiniteSet(K \ {k})
      BY <2>1, <2>2, FS_RemoveElement
    <3>2. Cardinality(K) \in Nat /\ Cardinality(K \ {k}) \in Nat
      BY <2>1, <3>1, FS_CardinalityType
    <3>3. Cardinality(K \ {k}) = 0
      BY <2>4, <3>1, <3>2
    <3>4. K \ {k} = {}
      BY <3>1, <3>3, FS_EmptySet
    <3> QED BY <3>4
  <2> QED BY <2>3, <2>5
<1>8. dst_val(cell) >= 0 => \E k \in K : TRUE
  BY <1>4, <1>6
<1> HIDE DEF S
<1> QED BY <1>4, <1>5, <1>7, <1>8

-----------------------------------------------------------------------------
(***************************************************************************)
(* The inductive invariant: the solution followed satisfies what was       *)
(* extracted of the lines.                                                 *)
(***************************************************************************)
Constraints == [t : Nat, buf : Hosts, op : {"<", "<=", ">", ">=", "==", "!="}, rhs : Int]

ParsedInv ==
  /\ TrafficType
  /\ max_t_with_zero_cenq \in [Hosts -> Int]
  /\ \A i \in Hosts : max_t_with_zero_cenq[i] # -1 => IT[i][0] = 0
  /\ dst_constrs \subseteq Constraints /\ ecmp_constrs \subseteq Constraints
  /\ \A e \in dst_constrs : binop(dst_val(I[e.buf][0]), e.op, e.rhs)
  /\ \A e \in ecmp_constrs : e.t # 0
  /\ phase # "parse" => valid /\ same

LEMMA ParsedInit == WorkloadInit => ParsedInv
BY TrafficAssumption DEF WorkloadInit, ParsedInv, TrafficType

\* A line taken is one that the solution satisfies, and so is what is extracted of it.
LEMMA ParsedParse ==
  ASSUME ParsedInv, NEW line \in Lines, Parse(line)
  PROVE  ParsedInv'
<1>1. /\ line.begin \in 1 .. timesteps /\ line.end \in line.begin .. timesteps
      /\ line.ids \subseteq Hosts /\ line.op \in {"<", "<=", ">", ">=", "==", "!="}
      /\ line.rhs \in Int
  BY LinesAssumption
<1>2. timesteps \in Nat
  BY TimestepsAssumption
<1>3. TrafficType' /\ IT' = IT
  BY DEF ParsedInv, Parse, TrafficType, IT
<1>4. ASSUME NEW i \in Hosts
      PROVE  /\ max_t_with_zero_cenq'[i] \in Int
             /\ max_t_with_zero_cenq'[i] # -1 => IT[i][0] = 0
  <2>1. max_t_with_zero_cenq'[i] = IF silences(line) /\ i \in line.ids
                                   THEN Max({line.end, max_t_with_zero_cenq[i]})
                                   ELSE max_t_with_zero_cenq[i]
    BY DEF Parse
  <2>2. max_t_with_zero_cenq[i] \in Int /\ (max_t_with_zero_cenq[i] # -1 => IT[i][0] = 0)
    BY DEF ParsedInv
  <2>3. CASE silences(line) /\ i \in line.ids
    <3>1. IT[i][0] = 0
      BY <2>3, SilencedAtFirst DEF Parse, ParsedInv
    <3>2. ASSUME NEW x \in Int, NEW y \in Int PROVE Max({x, y}) \in Int
      <4>1. CASE x >= y
        <5>1. x \in {x, y} /\ \A z \in {x, y} : x >= z
          BY <4>1
        <5>2. Max({x, y}) \in {x, y}
          BY <5>1 DEF Max
        <5> QED BY <5>2
      <4>2. CASE y >= x
        <5>1. y \in {x, y} /\ \A z \in {x, y} : y >= z
          BY <4>2
        <5>2. Max({x, y}) \in {x, y}
          BY <5>1 DEF Max
        <5> QED BY <5>2
      <4> QED BY <4>1, <4>2
    <3>3. line.end \in Int
      BY <1>1, <1>2
    <3> QED BY <2>1, <2>2, <2>3, <3>1, <3>2, <3>3
  <2>4. CASE ~(silences(line) /\ i \in line.ids)
    BY <2>1, <2>2, <2>4
  <2> QED BY <2>3, <2>4
<1>5. max_t_with_zero_cenq' \in [Hosts -> Int]
  <2>1. DOMAIN max_t_with_zero_cenq' = Hosts
        /\ max_t_with_zero_cenq' = [i \in Hosts |-> max_t_with_zero_cenq'[i]]
    BY DEF Parse
  <2> QED BY <1>4, <2>1
<1>6. dst_constrs' \subseteq Constraints
      /\ \A e \in dst_constrs' : binop(dst_val(I[e.buf][0]), e.op, e.rhs)
  <2>1. ASSUME NEW e \in dst_constrs'
        PROVE  e \in Constraints /\ binop(dst_val(I[e.buf][0]), e.op, e.rhs)
    <3>1. CASE e \in dst_constrs
      BY <3>1 DEF ParsedInv
    <3>2. CASE e \notin dst_constrs
      <4>1. line.metric = "dst" /\ \E i \in line.ids :
              e = [t |-> 1, buf |-> i, op |-> line.op, rhs |-> line.rhs]
        BY <3>2 DEF Parse
      <4>2. parse_dst(line)
        BY <4>1 DEF Parse, holds
      <4> QED BY <1>1, <4>1, <4>2 DEF Constraints, parse_dst
    <3> QED BY <3>1, <3>2
  <2> QED BY <2>1
<1>7. ecmp_constrs' \subseteq Constraints /\ \A e \in ecmp_constrs' : e.t # 0
  <2>1. ASSUME NEW e \in ecmp_constrs' PROVE e \in Constraints /\ e.t # 0
    <3>1. CASE e \in ecmp_constrs
      BY <3>1 DEF ParsedInv
    <3>2. CASE e \notin ecmp_constrs
      <4>1. \E t \in line.begin .. line.end, i \in line.ids :
              e = [t |-> t, buf |-> i, op |-> line.op, rhs |-> line.rhs]
        BY <3>2 DEF Parse
      <4>2. PICK t \in line.begin .. line.end, i \in line.ids :
              e = [t |-> t, buf |-> i, op |-> line.op, rhs |-> line.rhs]
        BY <4>1
      <4>3. t \in Nat /\ t # 0
        BY <1>1, <1>2
      <4> QED BY <1>1, <4>2, <4>3 DEF Constraints
    <3> QED BY <3>1, <3>2
  <2> QED BY <2>1
<1>8. phase' = "parse" /\ I' = I
  BY DEF Parse
<1> QED BY <1>3, <1>4, <1>5, <1>6, <1>7, <1>8 DEF ParsedInv

LEMMA ParsedNext == ParsedInv /\ [WorkloadNext]_vars => ParsedInv'
<1> SUFFICES ASSUME ParsedInv, [WorkloadNext]_vars PROVE ParsedInv'
  OBVIOUS
<1>1. CASE \E line \in Lines : Parse(line)
  BY <1>1, ParsedParse
<1>2. ASSUME UNCHANGED <<I, max_t_with_zero_cenq, dst_constrs, ecmp_constrs>>,
             phase' # "parse" => valid /\ same
      PROVE  ParsedInv'
  BY <1>2 DEF ParsedInv, TrafficType, IT, valid, same
<1>3. CASE EndParse \/ Build \/ Forward \/ \E i \in Hosts : \E k \in sent(i) : Send(i, k)
  BY <1>2, <1>3 DEF ParsedInv, EndParse, Build, Forward, Send
<1>4. CASE UNCHANGED vars
  BY <1>2, <1>4 DEF ParsedInv, vars
<1> QED BY <1>1, <1>3, <1>4 DEF WorkloadNext

LEMMA Parsed == WorkloadSpec => []ParsedInv
BY ParsedInit, ParsedNext, PTL DEF WorkloadSpec

\* What an input sends has the destination of what it sends in the first timestep.
LEMMA OneDestination ==
  ASSUME ParsedInv, phase # "parse", NEW i \in Hosts, NEW t \in Times
  PROVE  /\ not_empty(i, t) <=> not_empty(i, 0)
         /\ \A k \in Types : I[i][t][k] > 0 =>
              /\ not_empty(i, 0)
              /\ dst_val(I[i][0]) = get_pkt_type_to_dst_index[k]
<1>1. TrafficType /\ 0 \in Times /\ valid /\ same
  BY ITType DEF ParsedInv
<1>2. I[i][t] \in [Types -> Nat] /\ I[i][0] \in [Types -> Nat]
  BY <1>1 DEF TrafficType
<1>3. dst_val(I[i][t]) = dst_val(I[i][0]) /\ valid_meta(I[i][t])
  BY <1>1 DEF valid, same
<1>4. not_empty(i, t) <=> dst_val(I[i][t]) >= 0
  BY <1>2, PktSum, DstVal DEF not_empty
<1>5. not_empty(i, 0) <=> dst_val(I[i][0]) >= 0
  BY <1>2, PktSum, DstVal DEF not_empty
<1>6. ASSUME NEW k \in Types, I[i][t][k] > 0
      PROVE  not_empty(i, 0) /\ dst_val(I[i][0]) = get_pkt_type_to_dst_index[k]
  <2>1. dst_val(I[i][t]) >= 0
    BY <1>2, <1>6, DstVal
  <2>2. dst_val(I[i][t]) = get_pkt_type_to_dst_index[k]
    BY <1>2, <1>3, <1>6, DstVal
  <2> QED BY <1>3, <1>5, <2>1, <2>2
<1> QED BY <1>3, <1>4, <1>5, <1>6

\* In a solution an input sends in every timestep or in none, whatever the workload: of
\* valid and same, the constraints of the metadata, the second compares with the
\* destination at timestep 0, and a silent timestep has none.
THEOREM PausesHaveNoSolution == WorkloadSpec => []AllOrNothing
<1>1. ParsedInv => AllOrNothing
  BY OneDestination DEF AllOrNothing
<1> QED BY <1>1, Parsed, PTL

\* The values extracted for an input include those of each packet it sends: lines on
\* dst were about the first timestep, where it has the same destination, and for those on
\* ecmp the timestep 0 is left free.
LEMMA Pruning ==
  ASSUME ParsedInv, total_hosts <= 6, num_spines <= 2
  PROVE  PruningSound
<1> SUFFICES ASSUME phase # "parse", NEW i \in Hosts, NEW t \in Times, NEW k \in Types,
                    I[i][t][k] > 0
             PROVE  /\ get_pkt_type_to_dst_index[k] \in values_map[i].dst
                    /\ get_pkt_type_to_spine_index[k] \in values_map[i].ecmp
  BY DEF PruningSound
<1> DEFINE d == get_pkt_type_to_dst_index[k]
           e == get_pkt_type_to_spine_index[k]
           any == {[t |-> 0, buf |-> j, op |-> ">=", rhs |-> 0] : j \in Hosts}
<1>1. not_empty(i, 0) /\ dst_val(I[i][0]) = d
  BY OneDestination
<1>2. d \in 0 .. 5
  BY DstIndex
<1>3. e \in {0, 1}
  <2>1. total_hosts \in Nat \ {0} /\ num_spines \in Nat /\ k \in 0 .. num_spines * total_hosts - 1
    BY TopologyAssumption DEF Types, total_hosts
  <2> DEFINE n == total_hosts
  <2>2. n \in Nat \ {0} /\ k \in Nat /\ k < 2 * n
    <3> HIDE DEF n
    <3>1. CASE num_spines = 0
      BY <2>1, <3>1 DEF n
    <3>2. CASE num_spines = 1
      BY <2>1, <3>2 DEF n
    <3>3. CASE num_spines = 2
      BY <2>1, <3>3 DEF n
    <3> QED BY <2>1, <3>1, <3>2, <3>3
  <2> HIDE DEF n
  <2>3. k \div n \in {0, 1}
    BY <2>2
  <2> QED BY <2>3 DEF n, get_pkt_type_to_spine_index
<1>4. i \notin get_zero_inputs
  <2>1. IT[i][0] # 0
    <3>1. I[i][0] \in [Types -> Nat] /\ 0 \in Times
      BY ITType DEF ParsedInv, TrafficType
    <3>2. IT[i][0] = pktSum(I[i][0])
      BY <3>1 DEF IT
    <3> QED BY <1>1, <3>1, <3>2, PktSum DEF not_empty
  <2>2. max_t_with_zero_cenq[i] = -1
    BY <2>1 DEF ParsedInv
  <2> QED BY <2>2, TimestepsAssumption DEF get_zero_inputs
<1>5. values_map[i] = [dst |-> parse_meta_constrs(dst_constrs \cup any, 0 .. 5)[i],
                       ecmp |-> parse_meta_constrs_per_time(ecmp_constrs \cup any, {0, 1})[i]]
  BY <1>4 DEF values_map
<1>6. ASSUME NEW x \in dst_constrs \cup any, x.buf = i PROVE binop(d, x.op, x.rhs)
  <2>1. CASE x \in dst_constrs
    BY <1>1, <1>6, <2>1 DEF ParsedInv
  <2>2. CASE x \in any
    <3>1. x.op = ">=" /\ x.rhs = 0
      BY <2>2
    <3> QED BY <1>2, <3>1 DEF binop
  <2> QED BY <2>1, <2>2
<1>7. d \in parse_meta_constrs(dst_constrs \cup any, 0 .. 5)[i]
  BY <1>2, <1>6 DEF parse_meta_constrs, get_possible_values
<1>8. e \in parse_meta_constrs_per_time(ecmp_constrs \cup any, {0, 1})[i]
  <2> DEFINE x == [t |-> 0, buf |-> i, op |-> ">=", rhs |-> 0]
             cs == ecmp_constrs \cup any
             at == {y \in cs : y.buf = i /\ y.t = 0}
  <2>1. x \in cs /\ x.buf = i /\ x.t = 0
    OBVIOUS
  <2>2. \A y \in at : y = x
    BY DEF ParsedInv
  <2>3. e \in get_possible_values(at, {0, 1})
    <3>1. binop(e, x.op, x.rhs)
      BY <1>3 DEF binop
    <3> HIDE DEF at, x, e
    <3> QED BY <1>3, <2>2, <3>1 DEF get_possible_values
  <2>4. 0 \in {y.t : y \in {z \in cs : z.buf = i}}
    BY <2>1
  <2> HIDE DEF x, e, cs
  <2> DEFINE values == {get_possible_values({y \in cs : y.buf = i /\ y.t = t1}, {0, 1}) :
                          t1 \in {y.t : y \in {z \in cs : z.buf = i}}}
  <2>5. parse_meta_constrs_per_time(cs, {0, 1})[i] = UNION values
    BY DEF parse_meta_constrs_per_time
  <2>6. get_possible_values(at, {0, 1}) \in values
    BY <2>4
  <2> HIDE DEF values, at
  <2> QED BY <2>3, <2>5, <2>6 DEF cs
<1> HIDE DEF d, e, any
<1>9. d \in values_map[i].dst /\ e \in values_map[i].ecmp
  BY <1>5, <1>7, <1>8
<1> QED BY <1>9 DEF d, e

\* The packet types that leaf buffers are not built for are in no solution, for any
\* workload and any traffic, as long as hosts and spines are among those that
\* add_workload starts from: 0 .. 5 and {0, 1}.
THEOREM NothingPruned ==
  ASSUME total_hosts <= 6, num_spines <= 2
  PROVE  WorkloadSpec => []PruningSound
<1>1. ParsedInv => PruningSound
  BY Pruning
<1> QED BY <1>1, Parsed, PTL

-----------------------------------------------------------------------------
(***************************************************************************)
(* The way of a packet, in the network of lst.cpp and lsl.cpp: from the    *)
(* leaf of its host, over the spine of its type unless the destination is  *)
(* at the same leaf, to the leaf of its destination.                       *)
(***************************************************************************)
TwoLayers == num_spines <= 2 /\ leafs_per_spine = 3 /\ hosts_per_leaf = 2

to(k) == get_pkt_type_to_dst_index[k]
over(k) == get_pkt_type_to_spine_index[k]
leafOf(h) == <<"leaf", h \div 2>>
near(k, i) == i \div 2 = to(k) \div 2

\* Hosts, leafs, spines and ports of this network in numbers.
LEMMA Network ==
  ASSUME TwoLayers, NEW i \in Hosts, NEW k \in Types
  PROVE  /\ total_hosts = 6 /\ num_spines \in 1 .. 2
         /\ i \in 0 .. 5 /\ i \div 2 \in 0 .. 2 /\ i % 2 \in 0 .. 1 /\ i = 2 * (i \div 2) + (i % 2)
         /\ to(k) \in 0 .. 5 /\ to(k) \div 2 \in 0 .. 2 /\ to(k) % 2 \in 0 .. 1
         /\ to(k) = 2 * (to(k) \div 2) + (to(k) % 2)
         /\ over(k) \in 0 .. num_spines - 1 /\ over(k) \in Nat
         /\ k = 6 * over(k) + to(k)
<1>1. total_hosts = 6 /\ num_spines \in 1 .. 2
  BY TopologyAssumption DEF TwoLayers, total_hosts
<1>2. i \in 0 .. 5 /\ k \in 0 .. num_spines * 6 - 1
  BY <1>1 DEF Hosts, Types
<1>3. to(k) = k % 6 /\ over(k) = k \div 6
  BY <1>1 DEF to, over, get_pkt_type_to_dst_index, get_pkt_type_to_spine_index
<1>4. num_spines = 1 \/ num_spines = 2
  BY <1>1
<1>5. k \div 6 \in 0 .. num_spines - 1 /\ k % 6 \in 0 .. 5 /\ k = 6 * (k \div 6) + (k % 6)
  <2>1. CASE num_spines = 1
    BY <1>2, <2>1
  <2>2. CASE num_spines = 2
    BY <1>2, <2>2
  <2> QED BY <1>4, <2>1, <2>2
<1>6. i \div 2 \in 0 .. 2 /\ i % 2 \in 0 .. 1 /\ i = 2 * (i \div 2) + (i % 2)
  BY <1>2
<1>7. ASSUME NEW d \in 0 .. 5
      PROVE  d \div 2 \in 0 .. 2 /\ d % 2 \in 0 .. 1 /\ d = 2 * (d \div 2) + (d % 2)
  OBVIOUS
<1>8. to(k) \div 2 \in 0 .. 2 /\ to(k) % 2 \in 0 .. 1 /\ to(k) = 2 * (to(k) \div 2) + (to(k) % 2)
  BY <1>3, <1>5, <1>7
<1> QED BY <1>1, <1>2, <1>3, <1>4, <1>5, <1>6, <1>8

\* The next hop of a type in a leaf, x being a host there.
LEMMA NextHop ==
  ASSUME TwoLayers, NEW i \in Hosts, NEW k \in Types, NEW x \in 0 .. 5
  PROVE  get_pkt_type_to_next_hop_port(x \div 2)[k] =
           IF x \div 2 = to(k) \div 2 THEN to(k) % 2 ELSE 2 + over(k)
<1>1. to(k) \in (x \div 2) * 2 .. ((x \div 2) + 1) * 2 - 1 <=> x \div 2 = to(k) \div 2
  <2>1. to(k) \in 0 .. 5
    BY Network
  <2>2. ASSUME NEW d \in 0 .. 5
        PROVE  d \in (x \div 2) * 2 .. ((x \div 2) + 1) * 2 - 1 <=> x \div 2 = d \div 2
    OBVIOUS
  <2> QED BY <2>1, <2>2
<1>2. k % total_hosts = to(k) /\ k \div total_hosts = over(k)
  BY DEF to, over, get_pkt_type_to_dst_index, get_pkt_type_to_spine_index
<1> QED BY <1>1, <1>2 DEF get_pkt_type_to_next_hop_port, TwoLayers

\* The buffer a packet goes through at the switch it comes to.
LEMMA Buffers ==
  ASSUME TwoLayers, NEW i \in Hosts, NEW k \in Types
  PROVE  /\ entry(i) = <<leafOf(i), i % 2>>
         /\ buffer(k, i % 2, leafOf(i)) = <<i % 2, IF near(k, i) THEN to(k) % 2 ELSE 2 + over(k)>>
         /\ buffer(k, i \div 2, <<"spine", over(k)>>) = <<i \div 2, to(k) \div 2>>
         /\ buffer(k, 2 + over(k), leafOf(to(k))) = <<2 + over(k), to(k) % 2>>
<1>1. i \in 0 .. 5 /\ to(k) \in 0 .. 5
  BY Network
<1>2. get_pkt_type_to_next_hop_port_spine[k] = to(k) \div 2
  BY DEF get_pkt_type_to_next_hop_port_spine, to, get_pkt_type_to_dst_index, TwoLayers
<1>3. entry(i) = <<leafOf(i), i % 2>>
  BY DEF entry, leafOf, TwoLayers
<1>4. buffer(k, i % 2, leafOf(i)) = <<i % 2, IF near(k, i) THEN to(k) % 2 ELSE 2 + over(k)>>
  BY <1>1, NextHop DEF buffer, pkt_type_to_nxt_hop, leafOf, near
<1>5. buffer(k, i \div 2, <<"spine", over(k)>>) = <<i \div 2, to(k) \div 2>>
  BY <1>2 DEF buffer, pkt_type_to_nxt_hop
<1>6. buffer(k, 2 + over(k), leafOf(to(k))) = <<2 + over(k), to(k) % 2>>
  BY <1>1, NextHop DEF buffer, pkt_type_to_nxt_hop, leafOf
<1> QED BY <1>3, <1>4, <1>5, <1>6

\* What is at the other end of the port it leaves by.
LEMMA Links ==
  ASSUME TwoLayers, NEW i \in Hosts, NEW k \in Types
  PROVE  /\ link(leafOf(i), 2 + over(k)) = <<<<"spine", over(k)>>, i \div 2>>
         /\ near(k, i) => link(leafOf(i), to(k) % 2) = <<<<"host", to(k)>>, 0>>
         /\ link(<<"spine", over(k)>>, to(k) \div 2) = <<leafOf(to(k)), 2 + over(k)>>
         /\ link(leafOf(to(k)), to(k) % 2) = <<<<"host", to(k)>>, 0>>
<1>1. /\ over(k) \in Nat /\ 2 + over(k) >= 2 /\ (2 + over(k)) - 2 = over(k)
      /\ to(k) % 2 \in 0 .. 1 /\ ~(to(k) % 2 >= 2) /\ 2 * (to(k) \div 2) + (to(k) % 2) = to(k)
  BY Network
<1>2. link(leafOf(i), 2 + over(k)) = <<<<"spine", over(k)>>, i \div 2>>
  BY <1>1 DEF link, leafOf, TwoLayers
<1>3. near(k, i) => link(leafOf(i), to(k) % 2) = <<<<"host", to(k)>>, 0>>
  BY <1>1 DEF link, leafOf, near, TwoLayers
<1>4. link(<<"spine", over(k)>>, to(k) \div 2) = <<leafOf(to(k)), 2 + over(k)>>
  BY DEF link, leafOf, TwoLayers
<1>5. link(leafOf(to(k)), to(k) % 2) = <<<<"host", to(k)>>, 0>>
  BY <1>1 DEF link, leafOf, TwoLayers
<1> QED BY <1>2, <1>3, <1>4, <1>5

\* A type that is sent is a type.
LEMMA SentTypes ==
  ASSUME NEW i \in Hosts, NEW k \in sent(i)
  PROVE  k \in Types /\ \E t \in Times : I[i][t][k] > 0
BY DEF sent

\* Each of these buffers is built for the type.
LEMMA Built ==
  ASSUME TwoLayers, ParsedInv, phase = "send", Sendable, NEW i \in Hosts, NEW k \in sent(i)
  PROVE  /\ LET v == buffer(k, i % 2, leafOf(i))
            IN  v \in DOMAIN buffs(leafOf(i)) /\ k \in buffs(leafOf(i))[v]
         /\ ~near(k, i) =>
              /\ LET v == buffer(k, i \div 2, <<"spine", over(k)>>)
                 IN  v \in DOMAIN buffs(<<"spine", over(k)>>) /\ k \in buffs(<<"spine", over(k)>>)[v]
              /\ LET v == buffer(k, 2 + over(k), leafOf(to(k)))
                 IN  v \in DOMAIN buffs(leafOf(to(k))) /\ k \in buffs(leafOf(to(k)))[v]
<1>1. k \in Types
  BY SentTypes
<1>2. to(k) \in values_map[i].dst /\ over(k) \in values_map[i].ecmp
  <2>1. total_hosts <= 6 /\ num_spines <= 2
    BY <1>1, Network
  <2>2. PICK t \in Times : I[i][t][k] > 0
    BY SentTypes
  <2>3. PruningSound
    BY <2>1, Pruning
  <2> QED BY <1>1, <2>2, <2>3 DEF PruningSound, to, over
<1>3. /\ total_hosts = 6 /\ num_spines \in 1 .. 2
      /\ i \in 0 .. 5 /\ i \div 2 \in 0 .. 2 /\ i % 2 \in 0 .. 1 /\ i = 2 * (i \div 2) + (i % 2)
      /\ to(k) \in 0 .. 5 /\ to(k) \div 2 \in 0 .. 2 /\ to(k) % 2 \in 0 .. 1
      /\ over(k) \in 0 .. num_spines - 1 /\ over(k) \in Nat
      /\ k = 6 * over(k) + to(k) /\ to(k) = 2 * (to(k) \div 2) + (to(k) % 2)
  BY <1>1, Network
<1>4. LET v == buffer(k, i % 2, leafOf(i))
      IN  v \in DOMAIN buffs(leafOf(i)) /\ k \in buffs(leafOf(i))[v]
  <2> DEFINE v == buffer(k, i % 2, leafOf(i))
             l == i \div 2
  <2>1. v \in DOMAIN buffs(leafOf(i)) /\ v \in get_leaf_ports
    <3>1. v \in DOMAIN buffs(leafOf(i))
      <4>1. entry(i)[1] = leafOf(i) /\ entry(i)[2] = i % 2
        <5>1. entry(i) = <<leafOf(i), i % 2>>
          BY <1>1, Buffers
        <5> QED BY <5>1
      <4> QED BY <4>1 DEF Sendable
    <3>2. DOMAIN buffs(leafOf(i)) = get_leaf_ports
      BY DEF buffs, leafOf
    <3> QED BY <3>1, <3>2
  <2>2. v[1] = i % 2 /\ v[2] = IF near(k, i) THEN to(k) % 2 ELSE 2 + over(k)
    <3>1. v = <<i % 2, IF near(k, i) THEN to(k) % 2 ELSE 2 + over(k)>>
      BY <1>1, Buffers
    <3> HIDE DEF v
    <3> QED BY <3>1
  <2>3. get_port_index_to_input_index(l)[i % 2] = i
    BY <1>3 DEF get_port_index_to_input_index, TwoLayers
  <2>4. get_port_to_ecmp[v[2]] = IF near(k, i) THEN -1 ELSE over(k)
    <3>1. get_port_to_ecmp[to(k) % 2] = -1
      BY <1>3 DEF get_port_to_ecmp, TwoLayers
    <3>2. get_port_to_ecmp[2 + over(k)] = over(k)
      BY <1>3 DEF get_port_to_ecmp, TwoLayers
    <3> QED BY <2>2, <3>1, <3>2
  <2>5. get_pkt_type_to_next_hop_port(l)[k] = v[2]
    BY <1>1, <1>3, <2>2, NextHop DEF near
  <2>6. k = over(k) * 6 + to(k) /\ over(k) # -1 /\ i # -1
    BY <1>3
  <2> HIDE DEF v, l
  <2>7. k \in update_ports(l, v)
    BY <1>2, <2>2, <2>3, <2>4, <2>5, <2>6 DEF update_ports
  <2>8. buffs(leafOf(i))[v] = fix(l, v) \cup update_ports(l, v)
    BY <2>1 DEF buffs, leafOf, l
  <2> QED BY <2>1, <2>7, <2>8 DEF v
<1>5. ASSUME ~near(k, i)
      PROVE  LET v == buffer(k, i \div 2, <<"spine", over(k)>>)
             IN  v \in DOMAIN buffs(<<"spine", over(k)>>) /\ k \in buffs(<<"spine", over(k)>>)[v]
  <2> DEFINE v == buffer(k, i \div 2, <<"spine", over(k)>>)
  <2>1. v = <<i \div 2, to(k) \div 2>>
    BY <1>1, Buffers
  <2>2. v \in Leafs \X Leafs /\ v[1] # v[2]
    BY <1>3, <1>5, <2>1 DEF near, Leafs, TwoLayers
  <2>3. buffs(<<"spine", over(k)>>) = get_spine_port_map(over(k))
    BY DEF buffs
  <2>4. v \in DOMAIN get_spine_port_map(over(k)) /\
        get_spine_port_map(over(k))[v] = {over(k) * 6 + 2 * v[2] + h : h \in 0 .. 1}
    <3> HIDE DEF v
    <3> QED BY <1>3, <2>2 DEF get_spine_port_map, TwoLayers
  <2>5. k = over(k) * 6 + 2 * v[2] + (to(k) % 2) /\ to(k) % 2 \in 0 .. 1
    BY <1>3, <2>1
  <2> HIDE DEF v
  <2> QED BY <2>3, <2>4, <2>5 DEF v
<1>6. ASSUME ~near(k, i)
      PROVE  LET v == buffer(k, 2 + over(k), leafOf(to(k)))
             IN  v \in DOMAIN buffs(leafOf(to(k))) /\ k \in buffs(leafOf(to(k)))[v]
  <2> DEFINE v == buffer(k, 2 + over(k), leafOf(to(k)))
             l == to(k) \div 2
  <2>1. v = <<2 + over(k), to(k) % 2>>
    BY <1>1, Buffers
  <2>2. v \in get_leaf_ports
    <3> DEFINE all == 0 .. hosts_per_leaf + num_spines - 1
    <3>1. 2 + over(k) \in all /\ to(k) % 2 \in all /\ 2 + over(k) # to(k) % 2
          /\ to(k) % 2 < hosts_per_leaf
      BY <1>3 DEF TwoLayers
    <3> HIDE DEF all
    <3>2. <<2 + over(k), to(k) % 2>> \in
            {w \in all \X all : w[1] # w[2] /\ (w[1] < hosts_per_leaf \/ w[2] < hosts_per_leaf)}
      BY <3>1
    <3> QED BY <2>1, <3>2 DEF get_leaf_ports, all
  <2>3. get_pkt_type_to_next_hop_port(l)[k] = v[2]
    BY <1>1, <1>3, <2>1, NextHop
  <2>4. get_port_to_ecmp[v[1]] = over(k)
    BY <1>3, <2>1 DEF get_port_to_ecmp, TwoLayers
  <2>5. v[1] >= 2
    BY <1>3, <2>1
  <2>6. to(k) \in get_used_vals("dst") /\ over(k) \in get_used_vals("ecmp")
    BY <1>2 DEF get_used_vals
  <2> HIDE DEF v, l
  <2>7. k \in fix(l, v)
    BY <1>1, <2>3, <2>4, <2>5, <2>6 DEF fix, to, over
  <2>8. buffs(leafOf(to(k)))[v] = fix(l, v) \cup update_ports(l, v)
        /\ v \in DOMAIN buffs(leafOf(to(k)))
    BY <2>2 DEF buffs, leafOf, l
  <2> QED BY <2>7, <2>8 DEF v
<1> QED BY <1>4, <1>5, <1>6

\* The states of a packet on its way, and its path.
upHop(k, i) == <<leafOf(i), <<i % 2, 2 + over(k)>>>>
spineHop(k, i) == <<<<"spine", over(k)>>, <<i \div 2, to(k) \div 2>>>>
downHop(k) == <<leafOf(to(k)), <<2 + over(k), to(k) % 2>>>>
nearHop(k, i) == <<leafOf(i), <<i % 2, to(k) % 2>>>>

way(k, i) == IF near(k, i) THEN <<nearHop(k, i)>>
             ELSE <<upHop(k, i), spineHop(k, i), downHop(k)>>

packet(k, i, sw, port, path) ==
  [type |-> k, from |-> i, sw |-> sw, port |-> port, path |-> path]

atSource(k, i) == packet(k, i, leafOf(i), i % 2, <<>>)
atSpine(k, i) == packet(k, i, <<"spine", over(k)>>, i \div 2, <<upHop(k, i)>>)
atLast(k, i) == packet(k, i, leafOf(to(k)), 2 + over(k), <<upHop(k, i), spineHop(k, i)>>)
atHost(k, i) == packet(k, i, <<"host", to(k)>>, 0, way(k, i))

OnItsWay(k, i) ==
  \/ pkt = atSource(k, i)
  \/ ~near(k, i) /\ pkt = atSpine(k, i)
  \/ ~near(k, i) /\ pkt = atLast(k, i)

RouteInv ==
  /\ phase = "send" => Sendable
  /\ pkt # NoPacket => phase = "send"
  /\ \/ pkt = NoPacket
     \/ \E i \in Hosts : \E k \in sent(i) : OnItsWay(k, i) \/ pkt = atHost(k, i)

\* The way of a packet grows by one hop.
LEMMA Appends ==
  ASSUME NEW a, NEW b, NEW x
  PROVE  Append(<<a>>, x) = <<a, x>> /\ Append(<<a, b>>, x) = <<a, b, x>>
<1> DEFINE S == {a, b, x}
           two == Append(<<a>>, x)
           three == Append(<<a, b>>, x)
<1>1. <<a>> \in Seq(S) /\ <<a, b>> \in Seq(S) /\ x \in S
      /\ <<a, x>> \in Seq(S) /\ <<a, b, x>> \in Seq(S)
  OBVIOUS
<1> HIDE DEF S
<1>2. two \in Seq(S) /\ Len(two) = 2 /\ two[1] = a /\ two[2] = x
  BY <1>1
<1>3. three \in Seq(S) /\ Len(three) = 3 /\ three[1] = a /\ three[2] = b /\ three[3] = x
  BY <1>1
<1> HIDE DEF two, three
<1>4. two = <<a, x>>
  <2>1. Len(<<a, x>>) = 2 /\ \A i \in 1 .. 2 : two[i] = <<a, x>>[i]
    BY <1>2
  <2> QED BY <1>1, <1>2, <2>1, SeqEqual
<1>5. three = <<a, b, x>>
  <2>1. Len(<<a, b, x>>) = 3 /\ \A i \in 1 .. 3 : three[i] = <<a, b, x>>[i]
    BY <1>3
  <2> QED BY <1>1, <1>3, <2>1, SeqEqual
<1> QED BY <1>4, <1>5 DEF two, three

\* A switch passes a packet on.
LEMMA Passes ==
  ASSUME TwoLayers, NEW i \in Hosts, NEW k \in Types, OnItsWay(k, i), Forward
  PROVE  OnItsWay(k, i)' \/ pkt' = atHost(k, i)
<1> DEFINE v == buffer(pkt.type, pkt.port, pkt.sw)
           l == link(pkt.sw, v[2])
<1>1. pkt' = [pkt EXCEPT !.sw = l[1], !.port = l[2], !.path = Append(@, <<pkt.sw, v>>)]
  BY DEF Forward
<1>2. ASSUME NEW sw, NEW port, NEW path, pkt = packet(k, i, sw, port, path)
      PROVE  /\ v = buffer(k, port, sw) /\ l = link(sw, v[2])
             /\ pkt' = packet(k, i, l[1], l[2], Append(path, <<sw, v>>))
  <2>1. pkt.type = k /\ pkt.sw = sw /\ pkt.port = port /\ pkt.path = path
    BY <1>2 DEF packet
  <2>2. v = buffer(k, port, sw) /\ l = link(sw, v[2])
    BY <2>1
  <2> HIDE DEF v, l
  <2> QED BY <1>1, <1>2, <2>1, <2>2 DEF packet
<1> HIDE DEF v, l
<1>3. CASE pkt = atSource(k, i)
  <2>1. /\ v = buffer(k, i % 2, leafOf(i)) /\ l = link(leafOf(i), v[2])
        /\ pkt' = packet(k, i, l[1], l[2], Append(<<>>, <<leafOf(i), v>>))
    BY <1>2, <1>3 DEF atSource
  <2>2. v = <<i % 2, IF near(k, i) THEN to(k) % 2 ELSE 2 + over(k)>>
    BY <2>1, Buffers
  <2>3. CASE near(k, i)
    <3>1. v[2] = to(k) % 2
      BY <2>2, <2>3
    <3>2. l = <<<<"host", to(k)>>, 0>>
      BY <2>1, <2>3, <3>1, Links
    <3>3. Append(<<>>, <<leafOf(i), v>>) = <<nearHop(k, i)>>
      BY <2>2, <2>3 DEF nearHop
    <3>4. l[1] = <<"host", to(k)>> /\ l[2] = 0
      BY <3>2
    <3> QED BY <2>1, <2>3, <3>3, <3>4 DEF atHost, way
  <2>4. CASE ~near(k, i)
    <3>1. v[2] = 2 + over(k)
      BY <2>2, <2>4
    <3>2. l = <<<<"spine", over(k)>>, i \div 2>>
      BY <2>1, <3>1, Links
    <3>3. Append(<<>>, <<leafOf(i), v>>) = <<upHop(k, i)>>
      BY <2>2, <2>4 DEF upHop
    <3>4. l[1] = <<"spine", over(k)>> /\ l[2] = i \div 2
      BY <3>2
    <3>5. pkt' = atSpine(k, i)
      BY <2>1, <3>3, <3>4 DEF atSpine
    <3> QED BY <2>4, <3>5 DEF OnItsWay
  <2> QED BY <2>3, <2>4
<1>4. CASE ~near(k, i) /\ pkt = atSpine(k, i)
  <2>1. /\ v = buffer(k, i \div 2, <<"spine", over(k)>>) /\ l = link(<<"spine", over(k)>>, v[2])
        /\ pkt' = packet(k, i, l[1], l[2], Append(<<upHop(k, i)>>, <<<<"spine", over(k)>>, v>>))
    BY <1>2, <1>4 DEF atSpine
  <2>2. v = <<i \div 2, to(k) \div 2>>
    BY <2>1, Buffers
  <2>3. l = <<leafOf(to(k)), 2 + over(k)>>
    <3>1. v[2] = to(k) \div 2
      BY <2>2
    <3> QED BY <2>1, <3>1, Links
  <2>4. Append(<<upHop(k, i)>>, <<<<"spine", over(k)>>, v>>) = <<upHop(k, i), spineHop(k, i)>>
    <3>1. <<<<"spine", over(k)>>, v>> = spineHop(k, i)
      BY <2>2 DEF spineHop
    <3> QED BY <3>1, Appends
  <2>5. l[1] = leafOf(to(k)) /\ l[2] = 2 + over(k)
    BY <2>3
  <2>6. pkt' = atLast(k, i)
    BY <2>1, <2>4, <2>5 DEF atLast
  <2> QED BY <1>4, <2>6 DEF OnItsWay
<1>5. CASE ~near(k, i) /\ pkt = atLast(k, i)
  <2> DEFINE path == <<upHop(k, i), spineHop(k, i)>>
  <2>1. /\ v = buffer(k, 2 + over(k), leafOf(to(k))) /\ l = link(leafOf(to(k)), v[2])
        /\ pkt' = packet(k, i, l[1], l[2], Append(path, <<leafOf(to(k)), v>>))
    BY <1>2, <1>5 DEF atLast
  <2>2. v = <<2 + over(k), to(k) % 2>>
    BY <2>1, Buffers
  <2>3. l = <<<<"host", to(k)>>, 0>>
    <3>1. v[2] = to(k) % 2
      BY <2>2
    <3> QED BY <2>1, <3>1, Links
  <2>4. Append(path, <<leafOf(to(k)), v>>) = <<upHop(k, i), spineHop(k, i), downHop(k)>>
    <3>1. <<leafOf(to(k)), v>> = downHop(k)
      BY <2>2 DEF downHop
    <3>2. Append(<<upHop(k, i), spineHop(k, i)>>, downHop(k))
            = <<upHop(k, i), spineHop(k, i), downHop(k)>>
      BY Appends, Zenon
    <3> QED BY <3>1, <3>2
  <2>5. l[1] = <<"host", to(k)>> /\ l[2] = 0
    BY <2>3
  <2> QED BY <1>5, <2>1, <2>4, <2>5 DEF atHost, way
<1> QED BY <1>3, <1>4, <1>5 DEF OnItsWay

LEMMA RouteInit == WorkloadInit => RouteInv
BY DEF WorkloadInit, RouteInv

\* Which types are sent, and which buffers there are, is settled before packets are sent.
LEMMA SameConstraints ==
  ASSUME UNCHANGED <<I, max_t_with_zero_cenq, dst_constrs, ecmp_constrs>>
  PROVE  /\ \A i : sent(i)' = sent(i)
         /\ Sendable' = Sendable
<1>1. values_map' = values_map
  BY DEF values_map, get_zero_inputs
<1>2. \A sw : buffs(sw)' = buffs(sw)
  BY <1>1 DEF buffs, fix, update_ports, get_used_vals
<1>3. \A i : sent(i)' = sent(i)
  BY DEF sent
<1> QED BY <1>2, <1>3 DEF Sendable

LEMMA RouteNext ==
  ASSUME TwoLayers
  PROVE  RouteInv /\ [WorkloadNext]_vars => RouteInv'
<1> SUFFICES ASSUME RouteInv, [WorkloadNext]_vars PROVE RouteInv'
  OBVIOUS
<1>1. ASSUME NEW line \in Lines, Parse(line) PROVE RouteInv'
  BY <1>1 DEF Parse, RouteInv
<1>2. CASE EndParse
  BY <1>2 DEF EndParse, RouteInv
<1>3. CASE Build
  <2>1. Sendable' /\ phase = "build" /\ pkt' = pkt /\ phase' = "send"
    BY <1>3, SameConstraints DEF Build
  <2> QED BY <2>1 DEF RouteInv
<1>4. ASSUME NEW i \in Hosts, NEW k \in sent(i), Send(i, k) PROVE RouteInv'
  <2>1. /\ phase = "send" /\ phase' = "send" /\ k \in sent(i)' /\ Sendable'
        /\ pkt' = packet(k, i, entry(i)[1], entry(i)[2], <<>>)
    BY <1>4, SameConstraints DEF Send, RouteInv, packet
  <2>2. entry(i) = <<leafOf(i), i % 2>>
    BY <1>4, SentTypes, Buffers
  <2>3. entry(i)[1] = leafOf(i) /\ entry(i)[2] = i % 2
    BY <2>2
  <2>4. OnItsWay(k, i)'
    BY <2>1, <2>3 DEF OnItsWay, atSource
  <2> QED BY <2>1, <2>4 DEF RouteInv
<1>5. CASE Forward
  <2>1. phase' = phase /\ Sendable' = Sendable /\ \A i : sent(i)' = sent(i)
    BY <1>5, SameConstraints DEF Forward
  <2>2. pkt # NoPacket /\ ~arrived
    BY <1>5 DEF Forward, travels, arrived, NoPacket
  <2>3. PICK i \in Hosts : \E k \in sent(i) : OnItsWay(k, i) \/ pkt = atHost(k, i)
    BY <2>2 DEF RouteInv
  <2> PICK k \in sent(i) : OnItsWay(k, i) \/ pkt = atHost(k, i)
    BY <2>3
  <2>4. OnItsWay(k, i)
    BY <2>2 DEF atHost, packet, arrived
  <2>5. OnItsWay(k, i)' \/ pkt' = atHost(k, i)
    BY <1>5, <2>4, SentTypes, Passes
  <2> QED BY <2>1, <2>2, <2>5 DEF RouteInv, OnItsWay
<1>6. CASE UNCHANGED vars
  <2>1. Sendable' = Sendable /\ \A i : sent(i)' = sent(i)
    BY <1>6, SameConstraints DEF vars
  <2> QED BY <1>6, <2>1 DEF vars, RouteInv, OnItsWay
<1> QED BY <1>1, <1>2, <1>3, <1>4, <1>5, <1>6 DEF WorkloadNext

\* The packet that travels or has arrived is one that a host sends, and where it should be.
LEMMA Where ==
  ASSUME RouteInv, travels \/ arrived
  PROVE  \E i \in Hosts : \E k \in sent(i) :
           /\ phase = "send" /\ Sendable
           /\ IF travels THEN OnItsWay(k, i) ELSE pkt = atHost(k, i)
<1>1. pkt # NoPacket
  BY DEF travels, arrived, NoPacket
<1>2. PICK i \in Hosts : \E k \in sent(i) : OnItsWay(k, i) \/ pkt = atHost(k, i)
  BY <1>1 DEF RouteInv
<1> PICK k \in sent(i) : OnItsWay(k, i) \/ pkt = atHost(k, i)
  BY <1>2
<1>3. pkt = atHost(k, i) => ~travels
  BY DEF atHost, packet, travels
<1>4. OnItsWay(k, i) => travels
  <2>1. pkt = atSource(k, i) => travels
    BY DEF atSource, packet, travels, leafOf
  <2>2. pkt = atSpine(k, i) => travels
    BY DEF atSpine, packet, travels
  <2>3. pkt = atLast(k, i) => travels
    BY DEF atLast, packet, travels, leafOf
  <2> QED BY <2>1, <2>2, <2>3 DEF OnItsWay
<1> QED BY <1>1, <1>3, <1>4 DEF RouteInv

\* In the network of lst.cpp and lsl.cpp every packet of a solution finds a buffer that
\* was built for it at each switch it comes to, for any workload and any traffic.
THEOREM BuffersOnTheWay ==
  ASSUME TwoLayers
  PROVE  WorkloadSpec => []PathDeclared
<1>1. ParsedInv /\ RouteInv => PathDeclared
  <2> SUFFICES ASSUME ParsedInv, RouteInv, travels
               PROVE  LET v == buffer(pkt.type, pkt.port, pkt.sw)
                      IN  v \in DOMAIN buffs(pkt.sw) /\ pkt.type \in buffs(pkt.sw)[v]
    BY DEF PathDeclared
  <2>0. PICK i \in Hosts : \E k \in sent(i) : phase = "send" /\ Sendable /\ OnItsWay(k, i)
    BY Where
  <2>1. PICK k \in sent(i) : phase = "send" /\ Sendable /\ OnItsWay(k, i)
    BY <2>0
  <2> DEFINE declared(port, sw) ==
               LET v == buffer(k, port, sw) IN v \in DOMAIN buffs(sw) /\ k \in buffs(sw)[v]
  <2>2. /\ declared(i % 2, leafOf(i))
        /\ ~near(k, i) => /\ declared(i \div 2, <<"spine", over(k)>>)
                          /\ declared(2 + over(k), leafOf(to(k)))
    BY <2>1, Built
  <2> HIDE DEF declared
  <2>3. pkt.type = k /\ declared(pkt.port, pkt.sw)
    <3>1. CASE pkt = atSource(k, i)
      BY <2>2, <3>1 DEF atSource, packet
    <3>2. CASE ~near(k, i) /\ pkt = atSpine(k, i)
      BY <2>2, <3>2 DEF atSpine, packet
    <3>3. CASE ~near(k, i) /\ pkt = atLast(k, i)
      BY <2>2, <3>3 DEF atLast, packet
    <3> QED BY <2>1, <3>1, <3>2, <3>3 DEF OnItsWay
  <2> QED BY <2>3 DEF declared
<1>2. RouteInv /\ [WorkloadNext]_vars => RouteInv'
  BY RouteNext
<1> QED BY <1>1, <1>2, RouteInit, Parsed, PTL DEF WorkloadSpec

\* And it arrives at its destination, over the spine that its type names if the
\* destination is at another leaf.
THEOREM ArrivesOverItsSpine ==
  ASSUME TwoLayers
  PROVE  WorkloadSpec => []Delivered
<1>1. RouteInv => Delivered
  <2> SUFFICES ASSUME RouteInv, arrived PROVE Delivered
    BY DEF Delivered
  <2>0. PICK i \in Hosts : \E k \in sent(i) : pkt = atHost(k, i)
    <3>1. ~travels
      BY DEF arrived, travels
    <3> QED BY <3>1, Where
  <2>1. PICK k \in sent(i) : pkt = atHost(k, i)
    BY <2>0
  <2>2. k \in Types /\ pkt.from = i /\ pkt.type = k /\ pkt.sw[2] = to(k) /\ pkt.path = way(k, i)
    BY <2>1, SentTypes DEF atHost, packet
  <2>3. to(k) \in Hosts
    BY <2>2, DstIndex DEF to, Hosts
  <2>4. entry(i)[1] = leafOf(i) /\ entry(to(k))[1] = leafOf(to(k))
    BY DEF entry, leafOf, TwoLayers
  <2>5. leafOf(to(k)) = leafOf(i) <=> near(k, i)
    BY DEF leafOf, near
  <2>6. [n \in 1 .. Len(way(k, i)) |-> way(k, i)[n][1]] =
          IF near(k, i) THEN <<leafOf(i)>>
          ELSE <<leafOf(i), <<"spine", over(k)>>, leafOf(to(k))>>
    <3>1. CASE near(k, i)
      BY <3>1 DEF way, nearHop
    <3>2. CASE ~near(k, i)
      BY <3>2 DEF way, upHop, spineHop, downHop
    <3> QED BY <3>1, <3>2
  <2> QED BY <2>2, <2>4, <2>5, <2>6 DEF Delivered, to, over
<1>2. RouteInv /\ [WorkloadNext]_vars => RouteInv'
  BY RouteNext
<1> QED BY <1>1, <1>2, RouteInit, PTL DEF WorkloadSpec

-----------------------------------------------------------------------------
(***************************************************************************)
(* What aipg measures.                                                     *)
(***************************************************************************)
\* The least and the greatest of a set of integers, by what characterises them.
LEMMA MinIs ==
  ASSUME NEW S \in SUBSET Int, NEW m \in S, \A y \in S : m <= y
  PROVE  Min(S) = m
<1>1. Min(S) \in S /\ \A y \in S : Min(S) <= y
  BY DEF Min
<1> DEFINE x == Min(S)
<1> HIDE DEF x
<1>2. x \in Int /\ m \in Int /\ x <= m /\ m <= x
  BY <1>1 DEF x
<1>3. x = m
  BY <1>2
<1> QED BY <1>3 DEF x

LEMMA MaxIs ==
  ASSUME NEW S \in SUBSET Int, NEW m \in S, \A y \in S : y <= m
  PROVE  Max(S) = m
<1>1. Max(S) \in S /\ \A y \in S : Max(S) >= y
  <2>1. \A y \in S : m >= y
    OBVIOUS
  <2> QED BY <2>1 DEF Max
<1> DEFINE x == Max(S)
<1> HIDE DEF x
<1>2. x \in Int /\ m \in Int /\ x <= m /\ m <= x
  BY <1>1 DEF x
<1>3. x = m
  BY <1>2
<1> QED BY <1>3 DEF x

busyIn(it, S) == {s \in S : it[s] > 0}

\* The gap of a timestep with one packet: to the packets before, or else after it.
gapAt(it, l) ==
  IF busyIn(it, 0 .. l - 1) # {} THEN l - Max(busyIn(it, 0 .. l - 1))
  ELSE IF busyIn(it, l + 1 .. timesteps - 1) # {}
       THEN Min(busyIn(it, l + 1 .. timesteps - 1)) - l
  ELSE timesteps

\* The chains of ite over the timesteps around l give the gap at l.
LEMMA NearestIsGap ==
  ASSUME NEW it, NEW l \in Times
  PROVE  nearest(it, l) = gapAt(it, l)
<1> DEFINE P == busyIn(it, 0 .. l - 1)
           F == busyIn(it, l + 1 .. timesteps - 1)
           past == {l - s : s \in P}
           future == {s - l : s \in F}
<1>1. l \in Nat /\ timesteps \in Nat
  BY TimestepsAssumption DEF Times
<1>2. nearest(it, l) = IF past # {} THEN Min(past) ELSE IF future # {} THEN Min(future)
                       ELSE timesteps
  BY DEF nearest, busyIn
<1>3. P \in SUBSET (0 .. l - 1) /\ F \in SUBSET (l + 1 .. timesteps - 1)
  BY DEF busyIn
<1>4. past # {} <=> P # {}
  OBVIOUS
<1>5. future # {} <=> F # {}
  OBVIOUS
<1>6. ASSUME P # {} PROVE Min(past) = l - Max(P)
  <2> HIDE DEF P
  <2>1. P \in SUBSET (-1 .. l)
    BY <1>1, <1>3
  <2>2. Max(P) \in P /\ \A y \in P : y <= Max(P)
    BY <1>1, <1>6, <2>1, MaxIn
  <2> DEFINE m == Max(P)
  <2> HIDE DEF m
  <2>3. m \in P /\ \A y \in P : y \in Int /\ y <= m
    BY <2>1, <2>2 DEF m
  <2>4. past \in SUBSET Int /\ l - m \in past
    BY <1>1, <2>3
  <2>5. \A y \in past : l - m <= y
    BY <1>1, <2>3
  <2> HIDE DEF past
  <2> QED BY <2>4, <2>5, MinIs DEF m
<1>7. ASSUME F # {} PROVE Min(future) = Min(F) - l
  <2> HIDE DEF F
  <2>1. F \in SUBSET Nat
    BY <1>1, <1>3
  <2>2. PICK m \in F : \A y \in F : m <= y
    BY <1>7, <2>1, IndParams, Ind!NatMin
  <2>3. Min(F) = m
    BY <2>1, <2>2, MinIs
  <2>4. future \in SUBSET Int /\ m - l \in future
    BY <1>1, <2>1, <2>2
  <2>5. \A y \in future : m - l <= y
    BY <1>1, <2>1, <2>2
  <2> HIDE DEF future
  <2> QED BY <2>3, <2>4, <2>5, MinIs
<1> HIDE DEF past, future, P, F
<1> QED BY <1>2, <1>4, <1>5, <1>6, <1>7 DEF gapAt, P, F

lastBusy(it, t) == Max(busyIn(it, 1 .. t) \cup {0})

\* A timestep without packets has the last packets of the timestep before.
LEMMA LastBusy ==
  ASSUME NEW it \in [Times -> Nat], NEW t \in Times
  PROVE  /\ t = 0 => lastBusy(it, t) = 0
         /\ t # 0 /\ it[t] > 0 => lastBusy(it, t) = t
         /\ t # 0 /\ it[t] = 0 => lastBusy(it, t) = lastBusy(it, t - 1)
         /\ lastBusy(it, t) \in Times
<1>1. t \in Nat /\ timesteps \in Nat /\ t <= timesteps - 1
  BY TimestepsAssumption DEF Times
<1> DEFINE S == busyIn(it, 1 .. t) \cup {0}
<1>2. S \in SUBSET Int /\ S \in SUBSET (-1 .. t) /\ S # {} /\ S \in SUBSET (0 .. t)
  BY <1>1 DEF busyIn
<1>3. ASSUME t = 0 PROVE lastBusy(it, t) = 0
  <2>1. 0 \in S /\ \A y \in S : y <= 0
    BY <1>2, <1>3
  <2> HIDE DEF S
  <2>2. Max(S) = 0
    BY <1>2, <2>1, MaxIs
  <2> QED BY <2>2 DEF lastBusy, S
<1>4. ASSUME t # 0, it[t] > 0 PROVE lastBusy(it, t) = t
  <2>1. t \in S /\ \A y \in S : y <= t
    BY <1>1, <1>2, <1>4 DEF busyIn
  <2> HIDE DEF S
  <2>2. Max(S) = t
    BY <1>2, <2>1, MaxIs
  <2> QED BY <2>2 DEF lastBusy, S
<1>5. ASSUME t # 0, it[t] = 0 PROVE lastBusy(it, t) = lastBusy(it, t - 1)
  <2>1. ASSUME NEW s \in 1 .. t, it[s] > 0 PROVE s \in 1 .. t - 1
    BY <1>1, <1>5, <2>1
  <2>2. busyIn(it, 1 .. t) = busyIn(it, 1 .. t - 1)
    BY <1>1, <2>1 DEF busyIn
  <2> QED BY <2>2 DEF lastBusy
<1>6. lastBusy(it, t) \in Times
  <2> HIDE DEF S
  <2>1. Max(S) \in S
    BY <1>1, <1>2, MaxIn
  <2> QED BY <1>1, <1>2, <2>1 DEF lastBusy, S, Times
<1> QED BY <1>3, <1>4, <1>5, <1>6

\* So aipg keeps the gap of the last packets until there are others.
LEMMA AipgIs ==
  ASSUME NEW it \in [Times -> Nat], NEW t \in Times
  PROVE  aipgs(it)[t] = IF lastBusy(it, t) = 0 \/ it[lastBusy(it, t)] > 1 THEN 0
                        ELSE gapAt(it, lastBusy(it, t))
<1> DEFINE m == timesteps - 1
           Vals == {0} \cup {nearest(it, n) : n \in Times}
           step(n, x) == IF n = 0 \/ it[n] > 1 THEN 0 ELSE IF it[n] <= 0 THEN x ELSE nearest(it, n)
           gap[n \in Times] ==
             IF n = 0 \/ it[n] > 1 THEN 0
             ELSE IF it[n] <= 0 THEN gap[n - 1] ELSE nearest(it, n)
           G == [n \in 1 .. m |-> [x \in Vals |-> step(n, x)]]
           F(l) == IF l = 0 \/ it[l] > 1 THEN 0 ELSE gapAt(it, l)
           T == {n \in 0 .. m : gap[n] = F(lastBusy(it, n))}
<1>1. m \in Nat /\ Times = 0 .. m /\ 0 \in Times /\ \A n \in Times : it[n] \in Nat
  BY TimestepsAssumption DEF Times
<1>2. 0 \in Vals /\ G \in Ind!Loops(m, Vals)
  BY <1>1 DEF Ind!Loops
<1>3. PICK f \in [0 .. m -> Vals] : Ind!Computes(f, m, 0, G)
  <2> HIDE DEF G, m, Vals
  <2> QED BY <1>1, <1>2, IndParams, Ind!Recursion
<1>4. f[0] = 0 /\ \A n \in 1 .. m : f[n] = step(n, f[n - 1])
  <2>1. ASSUME NEW n \in 1 .. m PROVE f[n] = step(n, f[n - 1])
    <3>1. n - 1 \in 0 .. m /\ f[n - 1] \in Vals
      BY <1>1
    <3>2. G[n][f[n - 1]] = step(n, f[n - 1])
      BY <3>1
    <3> HIDE DEF G, Vals, step
    <3> QED BY <1>3, <3>2 DEF Ind!Computes
  <2> QED BY <1>3, <2>1 DEF Ind!Computes
<1>5. f = [n \in Times |-> IF n = 0 \/ it[n] > 1 THEN 0
                           ELSE IF it[n] <= 0 THEN f[n - 1] ELSE nearest(it, n)]
  <2>1. ASSUME NEW n \in Times
        PROVE  f[n] = IF n = 0 \/ it[n] > 1 THEN 0
                      ELSE IF it[n] <= 0 THEN f[n - 1] ELSE nearest(it, n)
    BY <1>1, <1>4
  <2> HIDE DEF m, G, Vals
  <2> QED BY <1>1, <2>1
<1>6. gap = [n \in Times |-> IF n = 0 \/ it[n] > 1 THEN 0
                             ELSE IF it[n] <= 0 THEN gap[n - 1] ELSE nearest(it, n)]
  BY <1>5
<1>7. aipgs(it) = gap
  BY DEF aipgs
<1> HIDE DEF gap, G, F, Vals
<1>8. 0 \in T
  <2>1. gap[0] = 0
    BY <1>1, <1>6
  <2>2. F(lastBusy(it, 0)) = 0
    BY <1>1, LastBusy DEF F
  <2> QED BY <1>1, <2>1, <2>2
<1>9. ASSUME NEW n \in 0 .. m - 1, n \in T PROVE n + 1 \in T
  <2> DEFINE j == n + 1
  <2>1. j \in 0 .. m /\ j \in Times /\ j # 0 /\ j - 1 = n /\ it[j] \in Nat /\ n \in Times
    BY <1>1
  <2> HIDE DEF j, m
  <2>2. gap[j] = F(lastBusy(it, j))
    <3>1. CASE it[j] = 0
      <4>1. gap[j] = gap[n]
        BY <1>6, <2>1, <3>1
      <4>2. lastBusy(it, j) = lastBusy(it, n)
        BY <2>1, <3>1, LastBusy
      <4> QED BY <1>9, <4>1, <4>2
    <3>2. CASE it[j] > 0
      <4>1. lastBusy(it, j) = j
        BY <2>1, <3>2, LastBusy
      <4>2. gap[j] = IF it[j] > 1 THEN 0 ELSE nearest(it, j)
        BY <1>6, <2>1, <3>2
      <4>3. nearest(it, j) = gapAt(it, j)
        BY <2>1, NearestIsGap
      <4> QED BY <2>1, <4>1, <4>2, <4>3 DEF F
    <3> QED BY <2>1, <3>1, <3>2
  <2> QED BY <2>1, <2>2 DEF j
<1>10. \A n \in 0 .. m : n \in T
  <2> HIDE DEF T, m
  <2>1. \A n \in 0 .. m - 1 : n \in T => n + 1 \in T
    BY <1>9
  <2> QED BY <1>1, <1>8, <2>1, IndParams, Ind!UpTo
<1> QED BY <1>1, <1>7, <1>10 DEF F

\* The chains of ite of the code, the last of which wins, make aipg the gap to the
\* packets before, or to the next ones, for any number of timesteps and any traffic.
THEOREM AipgMeasuresGaps == WorkloadSpec => []AipgIsGap
<1>1. ParsedInv => AipgIsGap
  <2> SUFFICES ASSUME ParsedInv, NEW i \in Hosts, NEW t \in Times
               PROVE  aipgs(IT[i])[t] =
                        IF lastBusy(IT[i], t) = 0 \/ IT[i][lastBusy(IT[i], t)] > 1 THEN 0
                        ELSE gapAt(IT[i], lastBusy(IT[i], t))
    BY DEF AipgIsGap, lastBusy, gapAt, busyIn
  <2>1. IT[i] \in [Times -> Nat]
    BY ITType DEF ParsedInv
  <2> QED BY <2>1, AipgIs
<1> QED BY <1>1, Parsed, PTL

-----------------------------------------------------------------------------
(***************************************************************************)
(* The tables of lsl.cpp.                                                  *)
(***************************************************************************)
\* The tables that are the same for all switches.
LEMMA TypeTables ==
  ASSUME num_spines = 2, leafs_per_spine = 3, hosts_per_leaf = 2
  PROVE  /\ total_hosts = 6 /\ Types = 0 .. 11
         /\ Lsl!pkt_type_to_dst = get_pkt_type_to_dst_index
         /\ Lsl!pkt_type_to_ecmp = get_pkt_type_to_spine_index
         /\ Lsl!s_pkt_type_to_nxt_hop = get_pkt_type_to_next_hop_port_spine
<1>1. total_hosts = 6 /\ Types = 0 .. 11
  BY DEF total_hosts, Types
<1>2. Lsl!pkt_type_to_dst = get_pkt_type_to_dst_index
  <2>1. Lsl!pkt_type_to_dst = [k \in 0 .. 11 |-> <<0, 1, 2, 3, 4, 5, 0, 1, 2, 3, 4, 5>>[k + 1]]
    BY DEF Lsl!pkt_type_to_dst, Lsl!vector
  <2>2. ASSUME NEW k \in 0 .. 11 PROVE <<0, 1, 2, 3, 4, 5, 0, 1, 2, 3, 4, 5>>[k + 1] = k % 6
    OBVIOUS
  <2> QED BY <1>1, <2>1, <2>2 DEF get_pkt_type_to_dst_index
<1>3. Lsl!pkt_type_to_ecmp = get_pkt_type_to_spine_index
  <2>1. Lsl!pkt_type_to_ecmp = [k \in 0 .. 11 |-> <<0, 0, 0, 0, 0, 0, 1, 1, 1, 1, 1, 1>>[k + 1]]
    BY DEF Lsl!pkt_type_to_ecmp, Lsl!vector
  <2>2. ASSUME NEW k \in 0 .. 11 PROVE <<0, 0, 0, 0, 0, 0, 1, 1, 1, 1, 1, 1>>[k + 1] = k \div 6
    OBVIOUS
  <2> QED BY <1>1, <2>1, <2>2 DEF get_pkt_type_to_spine_index
<1>4. Lsl!s_pkt_type_to_nxt_hop = get_pkt_type_to_next_hop_port_spine
  <2>1. Lsl!s_pkt_type_to_nxt_hop = [k \in 0 .. 11 |-> <<0, 0, 1, 1, 2, 2, 0, 0, 1, 1, 2, 2>>[k + 1]]
    BY DEF Lsl!s_pkt_type_to_nxt_hop, Lsl!vector
  <2>2. ASSUME NEW k \in 0 .. 11
        PROVE  <<0, 0, 1, 1, 2, 2, 0, 0, 1, 1, 2, 2>>[k + 1] = (k % 6) \div 2
    OBVIOUS
  <2> QED BY <1>1, <2>1, <2>2 DEF get_pkt_type_to_next_hop_port_spine
<1> QED BY <1>1, <1>2, <1>3, <1>4

\* The tables of the leafs.
LEMMA LeafTables ==
  ASSUME num_spines = 2, leafs_per_spine = 3, hosts_per_leaf = 2
  PROVE  /\ Lsl!l_ports = get_leaf_ports
         /\ Lsl!port_to_ecmp = get_port_to_ecmp
         /\ \A leaf \in Leafs :
              /\ Lsl!l_pkt_type_to_nxt_hop[leaf] = get_pkt_type_to_next_hop_port(leaf)
              /\ Lsl!l_src_port_to_input[leaf] = get_port_index_to_input_index(leaf)
<1>1. total_hosts = 6 /\ Types = 0 .. 11 /\ Leafs = {0, 1, 2}
  BY TypeTables DEF Leafs
<1>2. Lsl!l_ports = get_leaf_ports
  <2>1. 0 .. 2 + 2 - 1 = {0, 1, 2, 3}
    OBVIOUS
  <2>2. get_leaf_ports = {v \in {0, 1, 2, 3} \X {0, 1, 2, 3} : v[1] # v[2] /\ (v[1] < 2 \/ v[2] < 2)}
    BY <2>1 DEF get_leaf_ports
  <2>3. ASSUME NEW x \in {0, 1, 2, 3}, NEW y \in {0, 1, 2, 3}
        PROVE  <<x, y>> \in Lsl!l_ports <=> x # y /\ (x < 2 \/ y < 2)
    BY DEF Lsl!l_ports
  <2>4. Lsl!l_ports \subseteq {0, 1, 2, 3} \X {0, 1, 2, 3}
    BY DEF Lsl!l_ports
  <2> QED BY <2>2, <2>3, <2>4
<1>3. Lsl!port_to_ecmp = get_port_to_ecmp
  <2>1. Lsl!port_to_ecmp = [p \in 0 .. 3 |-> <<-1, -1, 0, 1>>[p + 1]]
    BY DEF Lsl!port_to_ecmp, Lsl!vector
  <2>2. get_port_to_ecmp = [p \in 0 .. 3 |-> IF p < 2 THEN -1 ELSE p - 2]
    BY DEF get_port_to_ecmp
  <2>3. ASSUME NEW p \in 0 .. 3 PROVE <<-1, -1, 0, 1>>[p + 1] = IF p < 2 THEN -1 ELSE p - 2
    OBVIOUS
  <2> QED BY <2>1, <2>2, <2>3
<1>4. ASSUME NEW leaf \in Leafs
      PROVE  Lsl!l_pkt_type_to_nxt_hop[leaf] = get_pkt_type_to_next_hop_port(leaf)
  <2> DEFINE hop(k) == IF k % 6 \in leaf * 2 .. (leaf + 1) * 2 - 1 THEN (k % 6) % 2
                       ELSE 2 + (k \div 6)
  <2>1. get_pkt_type_to_next_hop_port(leaf) = [k \in 0 .. 11 |-> hop(k)]
    BY <1>1 DEF get_pkt_type_to_next_hop_port
  <2>2. CASE leaf = 0
    <3>1. Lsl!l_pkt_type_to_nxt_hop[leaf] = [k \in 0 .. 11 |-> <<0, 1, 2, 2, 2, 2, 0, 1, 3, 3, 3, 3>>[k + 1]]
      BY <2>2 DEF Lsl!l_pkt_type_to_nxt_hop, Lsl!vector
    <3>2. \A k \in 0 .. 11 : <<0, 1, 2, 2, 2, 2, 0, 1, 3, 3, 3, 3>>[k + 1] = hop(k)
      BY <2>2
    <3> QED BY <2>1, <3>1, <3>2
  <2>3. CASE leaf = 1
    <3>1. Lsl!l_pkt_type_to_nxt_hop[leaf] = [k \in 0 .. 11 |-> <<2, 2, 0, 1, 2, 2, 3, 3, 0, 1, 3, 3>>[k + 1]]
      BY <2>3 DEF Lsl!l_pkt_type_to_nxt_hop, Lsl!vector
    <3>2. \A k \in 0 .. 11 : <<2, 2, 0, 1, 2, 2, 3, 3, 0, 1, 3, 3>>[k + 1] = hop(k)
      BY <2>3
    <3> QED BY <2>1, <3>1, <3>2
  <2>4. CASE leaf = 2
    <3>1. Lsl!l_pkt_type_to_nxt_hop[leaf] = [k \in 0 .. 11 |-> <<2, 2, 2, 2, 0, 1, 3, 3, 3, 3, 0, 1>>[k + 1]]
      BY <2>4 DEF Lsl!l_pkt_type_to_nxt_hop, Lsl!vector
    <3>2. \A k \in 0 .. 11 : <<2, 2, 2, 2, 0, 1, 3, 3, 3, 3, 0, 1>>[k + 1] = hop(k)
      BY <2>4
    <3> QED BY <2>1, <3>1, <3>2
  <2> QED BY <1>1, <2>2, <2>3, <2>4
<1>5. ASSUME NEW leaf \in Leafs
      PROVE  Lsl!l_src_port_to_input[leaf] = get_port_index_to_input_index(leaf)
  <2>1. get_port_index_to_input_index(leaf) = [p \in 0 .. 3 |-> IF p < 2 THEN 2 * leaf + p ELSE -1]
    BY DEF get_port_index_to_input_index
  <2>2. Lsl!l_src_port_to_input[leaf] = [p \in 0 .. 3 |-> <<2 * leaf, 2 * leaf + 1, -1, -1>>[p + 1]]
    <3>1. CASE leaf = 0
      BY <3>1 DEF Lsl!l_src_port_to_input, Lsl!vector
    <3>2. CASE leaf = 1
      BY <3>2 DEF Lsl!l_src_port_to_input, Lsl!vector
    <3>3. CASE leaf = 2
      BY <3>3 DEF Lsl!l_src_port_to_input, Lsl!vector
    <3> QED BY <1>1, <3>1, <3>2, <3>3
  <2>3. ASSUME NEW p \in 0 .. 3
        PROVE  <<2 * leaf, 2 * leaf + 1, -1, -1>>[p + 1] = IF p < 2 THEN 2 * leaf + p ELSE -1
    BY <1>1
  <2> QED BY <2>1, <2>2, <2>3
<1> QED BY <1>2, <1>3, <1>4, <1>5

\* The buffers of the spines and their types.
LEMMA SpineTables ==
  ASSUME num_spines = 2, leafs_per_spine = 3, hosts_per_leaf = 2, NEW spine \in Spines
  PROVE  Lsl!s_ports[spine] = get_spine_port_map(spine)
<1>1. total_hosts = 6 /\ Leafs = {0, 1, 2} /\ Spines = {0, 1}
  BY TypeTables DEF Leafs, Spines
<1> DEFINE pairs == {<<0, 1>>, <<0, 2>>, <<1, 0>>, <<1, 2>>, <<2, 0>>, <<2, 1>>}
           types(d) == {spine * 6 + 2 * d + h : h \in 0 .. 1}
<1>2. {w \in Leafs \X Leafs : w[1] # w[2]} = pairs
  BY <1>1
<1>3. get_spine_port_map(spine) = [v \in pairs |-> types(v[2])]
  BY <1>1, <1>2 DEF get_spine_port_map
<1>4. ASSUME NEW d \in {0, 1, 2} PROVE types(d) = {spine * 6 + 2 * d, spine * 6 + 2 * d + 1}
  BY <1>1
<1>5. CASE spine = 0
  <2>1. Lsl!s_ports[spine] = [v \in pairs |-> [n \in 0 .. 2 |-> <<{0, 1}, {2, 3}, {4, 5}>>[n + 1]][v[2]]]
    BY <1>5 DEF Lsl!s_ports, Lsl!vector
  <2>2. \A d \in {0, 1, 2} : [n \in 0 .. 2 |-> <<{0, 1}, {2, 3}, {4, 5}>>[n + 1]][d] = types(d)
    BY <1>4, <1>5
  <2>3. \A v \in pairs : v[2] \in {0, 1, 2}
    OBVIOUS
  <2> HIDE DEF pairs, types
  <2> QED BY <1>3, <2>1, <2>2, <2>3
<1>6. CASE spine = 1
  <2>1. Lsl!s_ports[spine] = [v \in pairs |-> [n \in 0 .. 2 |-> <<{6, 7}, {8, 9}, {10, 11}>>[n + 1]][v[2]]]
    BY <1>6 DEF Lsl!s_ports, Lsl!vector
  <2>2. \A d \in {0, 1, 2} : [n \in 0 .. 2 |-> <<{6, 7}, {8, 9}, {10, 11}>>[n + 1]][d] = types(d)
    BY <1>4, <1>6
  <2>3. \A v \in pairs : v[2] \in {0, 1, 2}
    OBVIOUS
  <2> HIDE DEF pairs, types
  <2> QED BY <1>3, <2>1, <2>2, <2>3
<1> QED BY <1>1, <1>5, <1>6

\* The tables written by hand are those that lst.cpp computes for this network, and the
\* buffers that the query of lsl.cpp names are on the way of the traffic that it is about.
THEOREM SameNetwork ==
  ASSUME num_spines = 2, leafs_per_spine = 3, hosts_per_leaf = 2
  PROVE  WorkloadSpec => []TablesAgree
<1>1. TwoLayers
  BY DEF TwoLayers
<1>2. RouteInv => TablesAgree
  <2>1. ASSUME RouteInv, arrived, pkt.from = 0, pkt.type = 5 PROVE pkt.path = Lsl!path_C
    <3>0. PICK i \in Hosts : \E k \in sent(i) : pkt = atHost(k, i)
      <4>1. ~travels
        BY <2>1 DEF arrived, travels
      <4> QED BY <2>1, <4>1, Where
    <3>1. PICK k \in sent(i) : pkt = atHost(k, i)
      BY <3>0
    <3>2. i = 0 /\ k = 5 /\ pkt.path = way(5, 0)
      BY <2>1, <3>1 DEF atHost, packet
    <3>3. to(5) = 5 /\ over(5) = 0
      BY TypeTables DEF to, over, get_pkt_type_to_dst_index, get_pkt_type_to_spine_index
    <3>4. 0 \div 2 = 0 /\ 0 % 2 = 0 /\ 5 \div 2 = 2 /\ 5 % 2 = 1 /\ 2 + 0 = 2
      OBVIOUS
    <3>5. ~near(5, 0)
      BY <3>3, <3>4 DEF near
    <3>6. way(5, 0) = <<upHop(5, 0), spineHop(5, 0), downHop(5)>>
      BY <3>5 DEF way
    <3>7. /\ upHop(5, 0) = <<<<"leaf", 0>>, <<0, 2>>>>
          /\ spineHop(5, 0) = <<<<"spine", 0>>, <<0, 2>>>>
          /\ downHop(5) = <<<<"leaf", 2>>, <<2, 1>>>>
      BY <3>3, <3>4 DEF upHop, spineHop, downHop, leafOf
    <3> QED BY <3>2, <3>6, <3>7 DEF Lsl!path_C
  <2> QED BY <2>1, TypeTables, LeafTables, SpineTables DEF TablesAgree
<1>3. RouteInv /\ [WorkloadNext]_vars => RouteInv'
  BY <1>1, RouteNext
<1> QED BY <1>2, <1>3, RouteInit, PTL DEF WorkloadSpec
=============================================================================
