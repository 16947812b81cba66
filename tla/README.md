# Count Buffy in TLA+

Count Buffy builds Z3 constraints for *contention points* (CPs): a scheduler over
finite input buffers, unrolled over timesteps.  A satisfying assignment is a run
of the CP.  A verdict such as "UNSAT: no traffic of this workload violates the
query" is only worth as much as the constraints.  If they leave out traffic, the
verdict is about less than it says; if they describe another scheduler, it is
about that one.  This project reads the constraints as what they are, an initial
predicate and a next-state relation, and checks and proves that they describe the
buffers, schedulers and networks they are meant to describe; and it models the
programs around the solver, which decide what it is asked and what is logged.

Paths are relative to the repository.

## 1. Inventory

| Component | State | Operations | Properties that make it correct |
|---|---|---|---|
| `STSChecker` buffers (`src/sts_checker.cpp`) | arrays I, E, D, B, O, C per buffer and timestep | `bl_size`, `enqs`, `drops`, `enq_deq_sum`, bounds | exactly what does not fit is dropped; no traffic within the bounds is excluded |
| `STSChecker` windows (`winds`, option `win`) | wnd_enq, wnd_enq_nxt, wnd_out, per packet type | `winds` | what a FIFO queue does is allowed; packets a window apart keep their order; the windows account for the packets in the buffer |
| `TrivialSts` | none | `out`, `init`, `trs` all true | the abstract CP |
| `RRChecker` (`rr`) | S, the turn | `init`, `trs`, `out` | no starvation, fair shares, work conservation |
| `PrioSTS` (`prio`) | none | `trs`, `out` | isolation of high priorities; blocking bounded by the packets ahead |
| `FqChecker` (`fq`) | nq, oq: positions in two lists | `init`, `trs`, `out`, `base_wl` | one buffer sends; a listed buffer is backlogged and in one list; a list has a head |
| `RateLimiter` (`examples/`) | S, send or not | `init`, `trs`, `out` | one packet in two timesteps, for any traffic |
| `Merger`, `Classifier`, `Composed` (`loom.cpp`) | typed buffers of nine CPs, the turns | `out`, `set_out`, the wiring | packets are accounted for from end to end; no CP's bound excludes what another sends; what is inside leaves |
| Leaf-spine switches (`leaf_base`, `fperf_leaf_sts`, `leaf_sts`, `demux_switch`) | virtual output queues, matches, heads or turns | `bl_size`, `trs`, `out`, `get_in_port` | a match is a matching, always exists and wastes no port; what waits is served |
| Leaf-spine workloads (`leaf_utils`, `leaf_workload_parser`, `leaf_constr_extractor`) | parsed constraints, silent inputs, possible values | `parse`, `add_workload`, `fix`, `update_ports` | no solution is lost by leaving variables out |
| Leaf-spine drivers (`lst.cpp`, `lsl.cpp`) | tables of ports, hops and links; solver frames | `check_wl`, `link_ports`, topology functions | a packet arrives at the host of its type; the two topologies agree |
| Workload language (`src/gen`) | metrics of an input | `cenq`, `aipg`, intervals | a line means what FPerf means by it |
| `StsRunner`, `LoomStsRunner`, `check_*`, `utils.cpp` | solver frames, log file | `read_wl_file`, `run`, `check_wl_and_query_sat`, ... | each question is asked with its own assertions only; each logged row is a verdict on that row's section |
| `SmtSolver`, `lib.cpp` | Z3 context | variables, bounds, vector operators | expression building |
| `NamedExp`, `IntSeq`, generated parser, `leaf.cpp`, scripts, data | | | not program logic, or not built |

The parts interact by calls at construction time (a CP's `base_constrs` asks the
virtual `init`, `trs` and `out`, and adds the result to the shared solver), by
shared expressions (in `loom.cpp` one CP's O is another's I; in `lst.cpp` the sum of
a port's outputs is the input of the port at the other end of the link), and through
the solver's stack of frames, which the programs push and pop.  Nothing runs
concurrently in the program.  What is hard is in the constraints: sequences of
timesteps nobody enumerated, boundaries at a full or empty buffer, several loops
that each update the same list in one timestep, matches defined in terms of each
other, and constraints that are individually plausible and together unsatisfiable
(the solver says nothing then: the traffic is simply gone).  `Receptive`,
`FifoRuns`, `Matchable`, `PriorityAccepts` and `PathDeclared` are about the last
kind.  In the runners it is the order of push, check, log and pop around several
exits.

`PROJECT.json` lists the hazards by line, and the properties that cover them.

## 2. Modules

| Module | Models | Notes |
|---|---|---|
| `STSChecker` | buffer constraints and bounds | the operators `arrivals` and `departures`; no specification of its own, as the class is abstract |
| `TrivialSts` | the CP with no scheduler | abstract specification of the CPs |
| `RRChecker` | round robin | `trs` in declarative form |
| `RRFairness` | + history variables `wait`, `lead` | fairness properties and the inductive invariant |
| `MCRR` | `trs` and `init` as the code writes them, and the unused `turn_transition` | checked and proved to be equivalent to the declarative forms |
| `PrioSTS`, `PrioBlocking`, `PrioIsolation` | strict priority; + `quiet`; two copies that differ in the low priorities | |
| `FqChecker`, `FqBaseWl` | fair queueing; under its base workload, and under any traffic | |
| `RateLimiter` | the hello-world example | the horizon is part of the model |
| `Winds` | window constraints over `TrivialSts`, one packet type | + history `sent` |
| `Vectors`, `TypedWinds` | packets of three types; the windows of one buffer with them | refines `Winds` |
| `Loom` | `Composed`: round robins, merger, classifier, priority CP | instantiates `RRChecker` and `PrioSTS` for the buffer and scheduler constraints |
| `LeafBase` | the virtual output queues of a switch, and its ports | operators and `bl_size` |
| `FperfLeafSts`, `LeafSts`, `LeafSwitch` | the priority match, the round-robin match; a switch with either | + history `wait` |
| `LeafTopology`, `LslTables` | the functions of `lst.cpp` and the tables of `lsl.cpp` | constants only |
| `WlConstr`, `LeafWorkload` | metrics and lines; from the lines to the pruned network and the way of a packet | |
| `StsRunner` | the workload reader, the loops of the five kinds of program, the solver's frames | frames are sets of assertions |
| `MCLeaf`, `MCLeafWorkload` | the instances for TLC that need definitions | |
| `*_proofs` | theorems | see section 5 |

How the code's constraints become a specification:

* the arrays at timestep t are the variables.  The constraints of timestep 0 are
  those of later timesteps from an empty backlog (`Empty`), and are `Init`; those
  relating j-1 and j are `Next`.  Unprimed values are timestep j-1;
* the bounds that `add_bound` adds are conjuncts, in the range each array ranges
  over.  They are constraints: what violates them is not a run;
* the horizon is left out (except in `RateLimiter` and `LeafWorkload`): the
  invariants hold at each timestep of every horizon;
* counts are scalars in the CPs of `rr`, `prio`, `fq` and the example, which run with
  one packet type: the vectors of `lib.cpp` have one element.  `Loom` and
  `TypedWinds` have three types.  The constraints on vectors compare either
  elementwise or by the sum; each is kept as it is, and `SumsAreScalar` says that
  the sums behave as the scalars.  The bounds me and md of the code are per type
  (`mk` and `mo` in `TypedWinds`); me and md there are those of the sums.  me is
  3 * mk; md is what the scheduler takes, at most 1 in the repository and 3 * mo for a
  scheduler that is bounded by the declaration of O only;
* the CP modules are the programs run with `no_win`.  With `win`, a run has the
  constraints of `Winds` as well.  `Loom` too is without windows, although
  `loom.cpp` leaves them on: `TypedWinds` says what they can remove;
* in `Loom` a timestep takes NumRR + 1 steps, along the flow of packets, because
  its constraints relate the CPs within a timestep; between them `link` holds what
  was sent so far;
* in `FperfLeafSts` the two families of match variables, which `trs` equates, are the
  set `matched`;
* in `FqChecker` the position of an unlisted buffer is -1; the code lets it run to
  minus infinity and reads its sign only;
* history variables (`wait`, `lead`, which measures what `RRChecker::query` compares, `quiet`, `sent` in `Winds`, `away`, `old`,
  `fifo`, `q`, `answers`) record the past and constrain nothing; `slack` in
  `FqBaseWl` is the workload's running sum, and `sent`, `t` in `RateLimiter` are the
  query's.

In `LeafWorkload` a behaviour picks one candidate solution I, a set of lines of a
workload (in any order; a line is only taken if I satisfies it), then the set of
values and the pruned buffers that the code derives from the lines, and then sends
the packets of I one at a time through the switches.  Packets do not contend there:
queues and matches are `LeafSwitch`'s subject.

In `StsRunner` the file arrives line by line, any line at any time; blank lines,
which the reader skips, are left out.  What a line says is told apart only where it
stands in for a missing header.  The two or three lines that `lst` and `lsl` append to
every section are one assertion (`appended`).  The solver (Z3, external) answers `sat`,
`unsat` or `unknown` to every question; what the programs do may not depend on it
being right.  Only when asked for a model after `sat` does it not contradict itself.
Console output and timing are left out.

## 3. Runs

Instances are small: buffers differ only in their index (order matters, so there is
no symmetry to use), so three buffers give a first, a middle and a last one.
Capacities of 2 or 3 with me = 2 reach empty, partly full and full buffers, and
overflow by one and two packets.

| Run | Bounds | Shows |
|---|---|---|
| `windows` | 1 buffer, 3 types, c=3 mk=1 (me=3) mo=1 md=1 MAX_I=6 | what is dropped is determined; until c packets have left, the windows account for the packets in the buffer, allow every run of a FIFO queue and keep packets a window apart in order; sums of typed windows are the windows of one type |
| `round_robin` | n=3 c=2 me=2 MAX_I=3 | the code's formulations of the turn agree; wait < n; pairwise lead at most 1; work conservation; no traffic excluded; refinement of `TrivialSts` |
| `priority` | n=3 c=3 me=2 MAX_I=2 k=2 | a buffer with quiet buffers ahead is blocked at most i*c-1 timesteps (the bound is reached); what the first two priorities do does not depend on the third; `PrioSTS::trs` is implied by the rest |
| `fair_queueing` | n=3 c=2 me=2 MAX_I=2 MaxSlack=1 | positions bounded, listed buffers backlogged and in one list, no traffic excluded; under `base_wl` loaded buffers are always backlogged and lists have a head |
| `rate_limiter` | n=1 c=10 me=md=1 timesteps=10 | the example's query on every prefix |
| `runner` | 6 lines, 5 programs | rows are verdicts; every question is asked alone; no section lost or mixed |
| `leaf_switch` | 3 ports, 6 queues, buff_cap=1 max_enq=1 MAX_I=2 | both matches are matchings; the priority match always exists and is maximal, and serves a queue within two timesteps; the round-robin match is never empty twice in a row |
| `leaf_workload` | 3 timesteps; 2 spines, 3 leafs, 2 hosts each | pruning loses no solution; every packet finds its buffers and its host; `lst` and `lsl` have the same network; `aipg` is the gap between packets |
| `loom` | NumRR=2 c=2 MAX_ENQ=2 MAX_DEQ=1 | the merger is a wire; the priority CP accepts all that is sent; every packet is accounted for; type 2 goes first; the system drains |

Why these bounds are enough:

* one buffer in `windows`: `winds` and the buffer constraints of buffer i read arrays
  of buffer i only.  c=3 with one packet of each type per timestep fills a window in
  one timestep or over several, and overflows it by one and by two;
* two round robins in `loom`: the round robins and the merger's buffers behind them
  are copies of each other, joined only by the classifier's sum.  Two of them offer a
  priority buffer two packets per timestep, which a capacity of 2 with MAX_ENQ = 2
  meets at its limits just as four do with the code's MAX_ENQ = 4;
* `leaf_switch` is the spine of `lsl.cpp`; capacity 1 makes a queue empty or
  full, which is all the schedulers see;
* the network of `leaf_workload` is the one of `lst.cpp` and `lsl.cpp`; three
  timesteps have a first, a middle and a last;
* `MaxSlack` stops the running sum of `base_wl`: traffic that gets more than that
  far ahead of the workload counts as a burst, under which nothing is claimed.  (The
  theorem `BaseWlKeepsBacklog` has it up to c - 1, and beyond that it is false: a
  full buffer drops packets that `base_wl` counts.)  `MaxWait` stops a
  count above every bound that `SpineWait` states; the count of `PrioBlocking` stops
  above every bound of `DrainBound`.  `MaxLines` bounds the workload file.

In `rate_limiter` the capacity is at least the number of timesteps, as in the
example (1000), so it never fills.  `RateLimiter`, `Winds`, `TypedWinds`,
`LeafWorkload` and `StsRunner` may stop (the horizon; no solution for the next
timestep; a line that the solution does not satisfy; the end of the program), so
their runs do not check for deadlock; the CPs, the switches and Loom never stop, and
theirs do.

### Fairness

Fairness is assumed in `Loom` only: weak fairness of Next, which says that time
passes.  The code unrolls the relation once per timestep, so time passes as long as a
next timestep exists.  `Drains` needs it; nothing is assumed about inputs, which
`Drains` takes as a hypothesis (the inputs fall silent for good).  The other
statements about waiting, `BoundedWait`, `DrainBound`, `SpineWait` and `WakesUp`, count
timesteps and need no fairness.

### Disagreements

Three runs expect a violation; `PROJECT.json` quotes the lines.

* `windows_equity`: `winds` renews a window with `wnd_enq_nxt` of the timestep being
  defined, not the one before (`src/sts_checker.cpp:170`; the leaf switch's copy,
  `leaf_base.cpp:484`, has j-1).  Packets leave the accounting, and
  `wnd_out <= wnd_enq` then limits what the buffer may send.  It takes a buffer that
  has sent c packets, so runs with a capacity above their timesteps are unaffected
  (`EquityInFirstWindow`, `FifoRuns`).
* `fq_one_output`: two buffers demoted in one timestep share a position, and then
  the output.  It happens under the base workload that `fq.cpp` uses.
* `rate_limiter_traffic`: `RateLimiter::out` does not test the backlog, so traffic
  that pauses after the buffer has emptied has no run.

## 4. What the properties mean for the tool

* `Receptive`: an UNSAT verdict is about all traffic of at most me packets per
  buffer and timestep.  An input above me has a run only if the buffer fills up in
  that timestep (E and D are each bounded by me); that is how the bounds are
  designed, and outside the property.
* `ImplementsBase`: a scheduler never asks a buffer for packets it does not have or
  for more than md, so it does not exclude traffic by accident, and inherits
  `TailDrop`.
* `FairShare` decides what `RRChecker::query` asks for: a lead of 3 needs at least two
  timesteps in which the one buffer sends while the other is empty.  `DrainBound`: what
  `PrioSTS::query` asks for needs traffic ahead, or a drain of that length.
* `FifoRuns` and `InOrder` are the two sides of what the Readme calls "a fifo queue":
  the windows allow everything such a queue does, and forbid a packet to overtake one
  of an earlier window.  They are weaker than a FIFO queue: packets of different
  types can overtake each other within a window, and in the timestep of the c-th
  packet.  Both speak of a buffer that has not sent c packets since it was last empty;
  after a renewal with packets waiting the windows lose packets (`windows_equity`), and
  nothing is claimed.  Both are for a scheduler that takes at most one packet from the
  buffer in a timestep (md = 1 in `TypedWinds`), as every scheduler of the repository
  does; see section 5.
* `ListsSound` is one half of what the lists of `FqChecker` are for: a listed buffer is
  backlogged.  The other half does not hold.  Of two buffers that were demoted together
  and now share position 0 (`fq_one_output`), the one with the higher index may
  run empty; the removal loop then moves up the other too, to -1, and it is in
  neither list although it is backlogged.  Only a buffer that was not backlogged is
  listed again, so it is never served from there on.  With three buffers this takes four
  timesteps: buffer 2 gets packets at 0 and 1, buffer 1 at 1 and 2, then at 3.
* `PriorityAccepts`: with four round robins and MAX_ENQ = 4, `loom.cpp` meets exactly
  the bound under which no run is excluded.  A fifth input to the merger would exclude
  runs without a word.
* `Maximal` and `SpineWait`: a spine, with at most two peers on every port, serves
  every queue within two timesteps.  With three or more peers on both sides, as in
  the leafs, `FperfLeafSts` can pass over a queue for ever.  `LeafSts` may leave an
  input and an output idle that could be matched, but not all of them twice in a row.
* `AllOrNothing`: in the leaf-spine workloads, `valid` and `same` together let an input
  send in every timestep or in none.  A workload that has an input pause is UNSAT by
  itself.  `lst` would notice, since it first asks for a run with the query; `lsl` has
  that question switched off (`debug = false`), so its UNSAT may be vacuous.
  `RowsAreVerdicts` says what a row stands for in each program.
* `lst` and `lsl` pass over a section whose first line is SKIP.  No header gives that:
  `read_wl_file` takes a header for SAT unless it says UNSAT, so a section under
  `### SKIP` is checked as SAT.  Only a file that begins with the line SKIP, without a
  header, has its first section passed over (`Skip`); the rows of the others keep their
  numbers (`RowsAreVerdicts`).  Recorded workloads have SAT and UNSAT headers only.

## 5. Proofs

All theorems hold for every value of the constants under the assumptions that the
modules name: `ParamsAssumption` (positive numbers of buffers, capacity, me and md, and
me <= MAX_I, as the drivers pass them), `TypedAssumption`, `LoomAssumption`,
`kAssumption`, the ports of a switch in `LeafAssumption`; `TopologyAssumption` and
`TimestepsAssumption` (a network and a horizon that are not empty), `LinesAssumption`
(lines of the form of the grammar, whose intervals are in the horizon) and
`TrafficAssumption` (counts of packets).  Where a theorem needs more, its statement says
so: `WindowsKeepOrder`, `QueueAllowed`, `WaitsForPeers`, `TurnsAgreeAgain`, Loom's
`NothingExcluded` and four theorems about the leaf-spine network below.

* `STSChecker_proofs`: lemmas on one timestep of the buffers.  Ranges,
  `TakesWhatFits` (what is enqueued and dropped is a function of what is offered
  and held), conservation; and that the constraints can be met: `ArrivalsPossible` for
  any input up to me, `DeparturesPossible` for any outputs of packets that are there.
  Also induction over the numbers, as facts about sets (`NatMin`, `UpTo`,
  `Recursion`), for what the CPs compute by a loop over their buffers: `Recursion`
  says that a function defined by recursion is the sequence of its steps.
* `Winds_proofs`: `TypeCorrect` and `BuffersTailDrop` for the abstract CP.
  `FirstWindowExact` from `WindInv`: the next window stays empty until the current one
  is full, and a full one cannot be renewed before c packets were sent.
  `TypedRefinesWinds`: every step of the typed windows is a step of the scalar ones
  under summation, whatever md is, so for schedulers that take more than a packet too.  The step needs an invariant, that the sums of the typed variables
  are the scalar ones and the vectors are in range (`SumInv`), and the lemma that a
  window is renewed by the elementwise test exactly when it is by the test on sums,
  because `wnd_out <= wnd_enq` holds elementwise.
  `WindowsKeepOrder` from `OrderInv`, in all windows and not the first only: a renewal
  can lose packets from the accounting, but never adds one; so when the buffer runs
  empty the windows balance again, and from then until c packets have left they account
  for exactly what is in the buffer, and a full window holds old packets only.
  It assumes md = 1, which every scheduler here keeps to.  With md = 2 it is false: the timestep that
  empties the buffer may already be a packet into the next window.
  `QueueAllowed` from `QueueInv`, on top of the same: as long as the buffer has behaved
  as a queue, q holds packet by packet what the buffer holds by type; and until c
  packets have left, what is still to leave of the window are the first packets of q, and
  what waits for the next window the rest.  The window then takes of the arrivals the
  first that fit (`WindowTakes`), the head of the queue is always a packet of the
  window (`LeavesWindow`), and the windows that result are written down and checked
  against the constraints (`WindowsAllow`).  It assumes md = 1 as `OrderInv` does.
* `RRFairness_proofs`: `BoundedWait` is not inductive: it does not say why a buffer
  that has waited long is next.  `IInv` does: `WaitInv` bounds what a buffer has
  waited by how far the turn has come, `wait[i] + fwd(S, i) <= num_bufs`, and
  `LeadInv` says that when a buffer leads another, the other one still has a packet and
  the turn meets it first; what the leading buffer did since does not matter.  The
  step rests on `TurnMeets` (the turn goes to the nearest backlogged buffer) and
  `FwdAdvance` (going forward shortens the way by what was gone).  Then
  `NoStarvation`, `PairwiseFair`, `NeverIdle`, `RefinesTrivialSts` and
  `NothingExcluded`.  `TurnsAgree`: the chains of implications and of `ite` that the code
  builds, of any length, pick the buffer that the declarative form does; by induction
  over how many buffers of the chain were passed.
* `PrioSTS_proofs`: `TrsExcludesNothing` and `NothingExcluded`, from the invariant that
  a buffer which had to wait still holds a packet (`KeepsPacket`); `RefinesTrivialSts`;
  `HighIsolated`, by an invariant on the two copies, with `TakesWhatFits` for the drops.
  `Drained` from `BlockInv`: the packets ahead of a buffer and the timesteps it
  has been blocked for add up to at most i * c - 1, because each of these timesteps
  took one of the packets and brought none.  The -1 is buffer 0, which is never full
  at the end of a timestep.
* `FqBaseWl_proofs`: `ListsAreSound`, for any traffic, from `ListInv`: a buffer that
  runs empty has just sent and so was at the head of its list, where the removal
  loop cannot miss it, whatever else it does to the positions.  `NothingExcluded` from
  the same invariant.
  `PositionsBounded`: no position exceeds 2 * num_bufs - 2, although the code declares
  no bound.  The invariant (`FewHoles`) says that a list reaches no further beyond a
  hole than there are buffers to account for it, each behind the hole and each not
  before it.  A list gets holes when the removal loop passes over some of its buffers, but
  for each hole there is then a buffer that was not moved; pushes and demotions add at
  least as many buffers as positions.  (num_bufs - 1 is no bound, because a list can
  lose its head and start at 1.)
  `BaseWlKeepsBacklog`: that a loaded buffer is backlogged now does not say that it
  will be after the next packet; the invariant (`Covered`) says that it holds at
  least as many packets as its traffic is ahead of the base workload.
  `ANonemptyListSends` puts the two together (`HeadInv`): only the last buffer can run
  empty, the loop then moves up everything behind it, and no position below a taken
  one is ever free (`NoGaps`).
* `Programs_proofs`: `RowsHold`, `AskedWithOwnLines` and `EndsComplete`, from `RunnerInv`:
  what the reader has made of the file (`FileInv`), what is on the solver's stack at
  each point of the programs (`FramesInv`), that each answer is to a question of
  one section put with that section's assertions (`AnswersInv`), and that each row of
  the log, and each question of the current section that is no longer to do, has its
  answers (`LogInv`).  Rows number their sections; a row is behind by one if the first
  section was passed over, which no other can be.  The file may have any number of
  lines and the solver answer anything.  `NeverFaster`, from `RateInv`: the bound is
  half a packet better in a timestep that does not send, which pays for the next one
  that does.
* `Leaf_proofs`, the switches: the match conditions alone forbid double matches, for any ports:
  of two matched queues that share an input, one is preferred, and excludes the other
  (`DoubleMatchLoopsRedundant`).  `MatchIsMatching` and `NothingIdle` follow with the
  invariant that the match of each timestep is one for its backlog and heads
  (`SwitchInv`); `LeafTailDrop` is about the queues.
  `MatchExists`: the more queues an output may still take, the more its input can turn
  down for a better one, and the less the outputs turn down in turn; what is left is a
  monotone function of what was there (`offered`), so it has a fixpoint, from which the
  match is read off.  `AlwaysMatchable` follows.
  `WaitsForPeers` assumes that no port has more than two peers (`AtMostTwoPeers`); then
  a head that passes a queue over can only move to it, and what a queue has waited is at
  most the number of its two heads that are not yet there (`WaitInv`).
  `TurnsAgreeAgain`, for the ports of a spine or leaf of any size (`SwitchPorts`): after
  a timestep without a match all turns start behind the same port, so all ports look at
  their peers in the same order (`Aligned`), and the first output in that order that
  has packets is matched, or else the next one is.
* `Leaf_proofs`, the workloads: `PausesHaveNoSolution`, `NothingPruned` and
  `AipgMeasuresGaps` hold for any lines and any traffic.  Behind the first two is
  `ParsedInv`, that the solution satisfies what was extracted of the lines.  It is not
  obvious that pruning is right: an input is taken for silent although its line ends
  before the last timestep, and a line on dst speaks of the first one only.  But a sum
  of packets that is zero up to any timestep is zero in the first (`CenqsFromFirst`,
  `SilencedAtFirst`), and `same` makes of that all timesteps (`OneDestination`).
  `NothingPruned` assumes at most 6 hosts and 2 spines, the constants 0 .. 5 and {0, 1}
  that `add_workload` starts from; in a larger network it would be false.
  `BuffersOnTheWay` and `ArrivesOverItsSpine` are for the network of the two programs
  (`TwoLayers`, with one spine or two), since the code's `6` and `2` are that network's.
  `RouteInv` says where a packet is and what its path was; that each buffer on it is
  built for the type (`Built`) needs `ParsedInv` again.  `SameNetwork` computes the
  tables.  `AipgMeasuresGaps` is by induction over the timesteps (`LastBusy`).
* `Loom_proofs`: `MergerTransparent`, for any number of round robins, from the invariant
  that what is on a link is at most one packet and that the merger's buffers are empty
  (`MergerEmpty`): either needs the other, and the first needs that a round robin sends
  from one buffer only.  `LoomInv` adds that the types are kept apart in the priority CP
  (`Separate`); `NothingLost` and `PriorityThroughLoom` follow, for the sum over any
  number of inputs.  `NothingExcluded` has the hypothesis NumRR <= MAX_ENQ, which `loom.cpp`
  meets with equality.  `KeepsMoving` is the safety that `Drains` rests on (`DrainsStep`): a
  round robin that holds a packet sends one in each of its steps, because a backlogged
  buffer gets the turn and the merger passes on what it sends, and holds one less if it
  enqueued none; the priority CP sends one if it holds or is given any, because a
  buffer that drops is full; and it then holds less than it held and was given.

`NothingExcluded` in the modules of `rr`, `prio` and `fq` is about the relation of two
timesteps (`timestep`), without ENABLED, which is out of the prover's reach: in every
reachable state, for every input of up to me packets per buffer, values exist that
satisfy the constraints of the next timestep.  For `rr` and `fq` the runs check the same
formula (`Receptive`).

Only model-checked: `Drains`, liveness under fairness, which is out of the prover's
reach.  What is left of it beside `KeepsMoving` is that the numbers of packets, which fall,
reach zero because time passes.  Of the runs that expect a violation nothing is proved.

## 6. Not modelled

* A whole network with contention: `LeafWorkload` sends one packet at a time and
  `LeafSwitch` is one switch.  Five switches with all their queues are beyond TLC.
* Loom with its windows, for the same reason: see section 2 for what is known of
  them.  Likewise `LeafBase::winds`, which the code has switched off (`use_win = false`).
* `winds_old` and `capped`, which nothing calls; of the first, its equity constraint
  is the property `Equity`.  `workload` of `RRChecker` and `PrioSTS`, which no driver
  calls (the one reads I one past the last timestep, the other E of buffer 2 at timestep 0
  whatever its loop variable); the drivers take workloads from files.
* The intervals of workload lines are not compared with the number of timesteps by
  the code; the model has the lines that recorded workloads have, which end in time.
* `NamedExp` (an expression with a label), `IntSeq` (used by `FqChecker.cpp.bak` only),
  the generated ANTLR parser, printing and timing, scripts, recorded data.
* `leaf.cpp`, which is in no build target and does not match the classes it uses.
