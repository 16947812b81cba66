------------------------------ MODULE FqBaseWl ------------------------------
(***************************************************************************)
(* FqChecker, and its base workload, under which fq.cpp runs it:           *)
(* FqChecker::base_wl asks that each buffer but the last has been offered  *)
(* at least t + 1 packets by the end of timestep t.  The traffic is any    *)
(* traffic; `kept' says whether it has obeyed base_wl so far without       *)
(* bursts, that is without ever being further ahead of it than a buffer    *)
(* can hold.                                                               *)
(***************************************************************************)
EXTENDS FqChecker

CONSTANT MaxSlack  \* how far ahead of base_wl is not a burst

\* With one place less than the buffer: beyond that it drops packets which base_wl
\* counts all the same, and it can run empty while base_wl is obeyed.
ASSUME SlackAssumption == MaxSlack \in 0 .. c - 1

VARIABLES slack,  \* slack[i]: sum(I[i], t) - (t + 1), while kept
          kept

wlVars == <<I, E, D, B, O, C, nq, oq, slack, kept>>

Loaded == 0 .. num_bufs - 2

\* MUTANT of base_wl: t packets by the end of timestep t are enough.
base_wl_Late(s) == \A n \in Loaded : s[n] >= -1

\* Each loaded buffer has had at least t + 1 packets by now.
base_wl(s) == \A n \in Loaded : s[n] >= 0

\* One more timestep; when the traffic is not of that kind there is nothing more to
\* count.
count(prev, ok, i, s, k) ==
  LET more == [n \in Bufs |-> prev[n] + i[n] - 1]
  IN  /\ k = (ok /\ base_wl(more) /\ \A n \in Loaded : more[n] <= MaxSlack)
      /\ s = IF k THEN [n \in Bufs |-> IF n \in Loaded THEN more[n] ELSE 0] ELSE Empty

WlInit == Init /\ count(Empty, TRUE, I, slack, kept)

WlNext == Next /\ count(slack, kept, I', slack', kept')

WlSpec == WlInit /\ [][WlNext]_wlVars

-----------------------------------------------------------------------------
\* base_wl keeps every loaded buffer backlogged at all times, whatever it drops
\* and however often it is served, unless the traffic comes in bursts: base_wl sums
\* what is offered, and what a full buffer drops does not keep it backlogged.
LoadedBacklogged == kept => \A i \in Loaded : B[i]

\* A list that is not empty has a head, and some buffer sends.  Without base_wl
\* this is false: when a head runs empty the removal loop of FqChecker::trs does
\* not move up the buffers after it (in index order), and the list begins at 1.
ListHasHead ==
  kept /\ (\E i \in Bufs : nq[i] >= 0 \/ oq[i] >= 0) => \E i \in Bufs : O[i] = 1

\* The formulation with sequences the repository keeps, FqChecker.cpp.bak, sends
\* from is.head(nq), or from is.head(oq) if nq has length 0: a list has one head,
\* so at most one buffer sends.  In FqChecker::trs two buffers demoted in the same
\* timestep get the same position.
AtMostOneOutput == kept => \A i, j \in Bufs : O[i] = 1 /\ O[j] = 1 => i = j
=============================================================================
