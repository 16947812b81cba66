------------------------------- MODULE Winds -------------------------------
(***************************************************************************)
(* The window constraints that STSChecker::winds adds to the buffers when  *)
(* use_win is set, over the unconstrained scheduler of TrivialSts.         *)
(*                                                                         *)
(* A window is the next (at most c) packets of the buffer's stream:        *)
(* wnd_enq counts those that have arrived, wnd_out those of them that have *)
(* left and wnd_enq_nxt the arrivals that belong to the window after.      *)
(* The constraints are there to keep packets of several types in FIFO      *)
(* order, see TypedWinds; here is what they say of the packets' number.    *)
(***************************************************************************)
EXTENDS TrivialSts

VARIABLES wnd_enq, wnd_enq_nxt, wnd_out,
          sent  \* history: packets each buffer has sent so far, counted up to c

windVars == <<I, E, D, B, O, C, wnd_enq, wnd_enq_nxt, wnd_out, sent>>

-----------------------------------------------------------------------------
\* All of the window's packets have left and the next window begins, with the
\* part sn of the arrivals that did not fit.  The code adds wnd_enq_nxt of the
\* same timestep, which the next conjunct makes 0, so the packets already
\* waiting in the next window, pn, are in neither window from here on.
renewWindow(pn, sn, se, to, we, wn, wo) ==
  /\ wn = 0
  /\ we = wn + sn
  /\ wo = to - se

\* Some packet of the window is still in the buffer.
keepWindow(pn, sn, se, po, to, we, wn, wo) ==
  /\ wn = pn + sn
  /\ we = se
  /\ wo = to

\* [15]-[25] for one buffer: pe, pn, po are its windows at the timestep before,
\* we, wn, wo those at this one, se and sn the code's tmp_wnd_enq and
\* tmp_wnd_enq_nxt, the split of the arrivals between the two windows.
winds(pe, pn, po, e, o, we, wn, wo) ==
  \E se, sn \in 0 .. c :
    LET to == po + o IN
    /\ pe + e = se + sn
    /\ sn <= c - 1 /\ to <= 2 * c
    /\ pe <= se
    /\ sn > 0 => se = c
    /\ IF se <= to THEN renewWindow(pn, sn, se, to, we, wn, wo)
                   ELSE keepWindow(pn, sn, se, po, to, we, wn, wo)
    /\ wn < c
    /\ wo <= we

\* The windows of all buffers, with the bounds of their arrays.
windsAll ==
  /\ wnd_enq' \in [Bufs -> 0 .. c]
  /\ wnd_enq_nxt' \in [Bufs -> 0 .. c]
  /\ wnd_out' \in [Bufs -> 0 .. c]
  /\ \A n \in Bufs : winds(wnd_enq[n], wnd_enq_nxt[n], wnd_out[n], E'[n], O'[n],
                           wnd_enq'[n], wnd_enq_nxt'[n], wnd_out'[n])

sentAfter(s, o) == [n \in Bufs |-> Least(s[n] + o[n], c)]

\* [14]: at timestep 0 the windows are the first arrivals and departures.
WindInit ==
  /\ Init
  /\ wnd_enq = E
  /\ wnd_enq_nxt = Empty
  /\ wnd_out = O
  /\ sent = sentAfter(Empty, O)

WindNext ==
  /\ Next
  /\ windsAll
  /\ sent' = sentAfter(sent, O')

WindSpec == WindInit /\ [][WindNext]_windVars

-----------------------------------------------------------------------------
WindTypeOK ==
  /\ bounds
  /\ wnd_enq \in [Bufs -> 0 .. c]
  /\ wnd_enq_nxt \in [Bufs -> 0 .. c]
  /\ wnd_out \in [Bufs -> 0 .. c]
  /\ sent \in [Bufs -> 0 .. c]

\* The constraint `equity' of STSChecker::winds_old, which winds dropped: the
\* windows account for exactly the packets in the buffer.
equity(n) == C[n] = wnd_enq[n] + wnd_enq_nxt[n] - wnd_out[n]

Equity == \A n \in Bufs : equity(n)

\* Until a buffer has sent c packets its windows account for it.  With md = 1
\* that is the first c - 1 timesteps at least, so a run whose capacity exceeds
\* its timesteps is not touched by what renewWindow loses.
EquityInFirstWindow == \A n \in Bufs : sent[n] < c => equity(n)

\* The inductive invariant behind EquityInFirstWindow: the next window is empty
\* until the current one has all its c packets, and no more packets of a window
\* can have left than were sent.
WindInv ==
  \A n \in Bufs : sent[n] < c =>
    /\ equity(n)
    /\ wnd_enq_nxt[n] > 0 => wnd_enq[n] = c
    /\ wnd_out[n] <= sent[n]
=============================================================================
