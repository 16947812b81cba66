----------------------------- MODULE TypedWinds -----------------------------
(***************************************************************************)
(* The window constraints of STSChecker::winds on a buffer whose packets   *)
(* have types.  Readme.md calls a buffer "a fifo queue of packets", but    *)
(* the constraints count packets per type and keep no order; the windows   *)
(* are what is left of it.  They should allow whatever a FIFO queue does   *)
(* (FifoRuns) and keep the order of packets a window apart (InOrder).      *)
(*                                                                         *)
(* One buffer: the windows of a buffer read nothing of the others.  The    *)
(* variables of Winds are kept as the sums of the typed ones, so that      *)
(* SumsAreScalar says that Winds is an abstraction of this module.         *)
(***************************************************************************)
EXTENDS Winds, Vectors, Sequences, FiniteSets

CONSTANTS
  mk,  \* me of the code: bound on the packets of one type that come in a timestep
  mo   \* md of the code: bound on the packets of one type that leave in a timestep

\* me and md bound the sums.  What comes is bounded by type only; what leaves is up to
\* the scheduler as well: md is 1 under those of the repository, and 3 * mo if only the
\* declaration of O bounds it.
ASSUME TypedAssumption ==
  /\ num_bufs = 1
  /\ mk \in Nat \ {0} /\ mo \in Nat \ {0}
  /\ me = 3 * mk
  /\ MAX_I >= 2 * me

VARIABLES
  vC,    \* C[0], by type
  vEnq,  \* wnd_enq[0]
  vNxt,  \* wnd_enq_nxt[0]
  vOut,  \* wnd_out[0]
  away,  \* history: packets sent since the buffer was last empty, to c + 1
  old,   \* history: the first packets to come since the buffer was last empty,
         \*          up to the timestep of the c-th, less those that were sent
  fifo,  \* history: so far the buffer can have been a FIFO queue ...
  q      \*          ... that now holds the packets q

typedVars == <<windVars, vC, vEnq, vNxt, vOut, away, old, fifo, q>>

The(x) == [n \in Bufs |-> x]

-----------------------------------------------------------------------------
\* MUTANT of splits: a window is full at c - 1.
splits_Short(pe, e) ==
  {se \in vec(c) :
     LET sn == minus(plus(pe, e), se)
     IN  /\ sn \in vec(c)
         /\ leq(pe, se)
         /\ sum(se) <= c - 1 /\ sum(sn) <= c - 1
         /\ sum(sn) > 0 => sum(se) = c - 1}

\* How the window pe and the arrivals e can be divided: se, the code's
\* tmp_wnd_enq, stays in this window, and the rest, its tmp_wnd_enq_nxt, waits for
\* the next, which it does only when this one is full.
splits(pe, e) ==
  {se \in vec(c) :
     LET sn == minus(plus(pe, e), se)
     IN  /\ sn \in vec(c)
         /\ leq(pe, se)
         /\ sum(se) <= c /\ sum(sn) <= c - 1
         /\ sum(sn) > 0 => sum(se) = c}

\* MUTANT of windows: the overflow of this timestep replaces the earlier one.
windows_Overwrite(se, sn, to, we, wn, wo) ==
  IF leq(se, to)
  THEN wn = None /\ we = plus(wn, sn) /\ wo = minus(to, se)
  ELSE wn = sn /\ we = se /\ wo = to

\* A window is renewed when all its packets have left, of each type; see
\* renewWindow and keepWindow of Winds.  we, wn, wo are the windows at this timestep.
windows(se, sn, to, we, wn, wo) ==
  IF leq(se, to)
  THEN wn = None /\ we = plus(wn, sn) /\ wo = minus(to, se)
  ELSE wn = plus(vNxt, sn) /\ we = se /\ wo = to

\* MUTANT of typedWinds: without the last constraint of STSChecker::winds.
typedWinds_Unordered(e, o, se, we, wn, wo) ==
  /\ sum(plus(vOut, o)) <= 2 * c
  /\ windows(se, minus(plus(vEnq, e), se), plus(vOut, o), we, wn, wo)
  /\ we \in vec(c) /\ wn \in vec(c) /\ wo \in vec(c)
  /\ sum(wn) < c

\* STSChecker::winds for a timestep in which e comes and o leaves, se being what of
\* the window and the arrivals belongs to the window.
typedWinds(e, o, se, we, wn, wo) ==
  /\ sum(plus(vOut, o)) <= 2 * c
  /\ windows(se, minus(plus(vEnq, e), se), plus(vOut, o), we, wn, wo)
  /\ we \in vec(c) /\ wn \in vec(c) /\ wo \in vec(c)
  /\ sum(wn) < c
  /\ leq(wo, we)

-----------------------------------------------------------------------------
left(pc, e, o) == minus(plus(pc, e), o)

\* The constraints of the buffer: to its packets pc, e are enqueued, d packets are
\* dropped, o leave; b says whether it is backlogged.  The sums are those of Winds, and
\* so are the buffer's constraints, all of which compare with numbers.  That the
\* scheduler lets at most md packets leave is part of them.
typedBuffer(pc, e, d, o, b) ==
  /\ arrivals(The(sum(pc)), The(sum(e) + d), The(sum(e)), The(d), b)
  /\ sum(o) <= md
  /\ departures(The(sum(pc)), The(sum(e)), The(sum(o)), The(sum(left(pc, e, o))))
  /\ left(pc, e, o) \in vec(c)

count(s) == [k \in Types |-> Cardinality({j \in DOMAIN s : s[j] = k})]
Prefix(s, n) == SubSeq(s, 1, n)
Suffix(s, n) == SubSeq(s, n + 1, Len(s))

\* The orders in which the packets e can have come, the first of them being f.
orders(e, f) ==
  {s \in [1 .. sum(e) -> Types] : count(s) = e /\ count(Prefix(s, sum(f))) = f}

\* The queue after s has come, if what left is what a FIFO queue would have sent.
queueAfter(s, o) ==
  LET all == q \o s IN
  /\ fifo' = (fifo /\ count(Prefix(all, sum(o))) = o)
  /\ q' = IF fifo' THEN Suffix(all, sum(o)) ELSE <<>>

\* old and away, which begin again when the buffer runs empty.
historyAfter(e, o) ==
  LET n == away + sum(o) IN
  /\ away' = IF vC' = None THEN 0 ELSE Least(n, c + 1)
  /\ old' = IF vC' = None \/ n > c THEN None
            ELSE IF away + sum(vC) < c THEN minus(plus(old, e), o)
            ELSE minus(old, o)

\* [14]: at timestep 0 the windows are the first arrivals and departures.  A buffer
\* that is empty again is not renewed before timestep 1.
TypedInit ==
  \E e \in vec(mk), o \in vec(mo), d \in 0 .. me :
    /\ I = The(sum(e) + d) /\ E = The(sum(e))
    /\ arrivals(Empty, I, E, D, B)
    /\ O = The(sum(o)) /\ sum(o) <= md
    /\ departures(Empty, E, O, C)
    /\ vC = minus(e, o) /\ vC \in vec(c)
    /\ vEnq = e /\ vNxt = None /\ vOut = o
    /\ wnd_enq = E /\ wnd_enq_nxt = Empty /\ wnd_out = O
    /\ sent = sentAfter(Empty, O)
    /\ away = sum(o)
    /\ old = vC
    /\ fifo = TRUE
    /\ \E s \in orders(e, e) :
         count(Prefix(s, sum(o))) = o /\ q = Suffix(s, sum(o))

TypedNext ==
  \E e \in vec(mk), d \in 0 .. me, o \in vec(mo) :
    /\ I' = The(sum(e) + d) /\ E' = The(sum(e)) /\ D' = The(d)
    /\ O' = The(sum(o)) /\ vC' = left(vC, e, o) /\ C' = The(sum(vC'))
    /\ typedBuffer(vC, e, d, o, B')
    /\ \E se \in splits(vEnq, e) :
         /\ typedWinds(e, o, se, vEnq', vNxt', vOut')
         /\ \E s \in orders(e, minus(se, vEnq)) : queueAfter(s, o)
    /\ wnd_enq' = The(sum(vEnq')) /\ wnd_enq_nxt' = The(sum(vNxt'))
    /\ wnd_out' = The(sum(vOut'))
    /\ sent' = sentAfter(sent, O')
    /\ historyAfter(e, o)

TypedSpec == TypedInit /\ [][TypedNext]_typedVars

-----------------------------------------------------------------------------
\* The sums of a typed buffer and of its windows are a buffer and windows of one
\* type, although the comparisons of windows in STSChecker::winds are elementwise:
\* what is true of Winds, STSChecker and the CPs is true of the sums.
SumsAreScalar == WindSpec

\* Some windows satisfy the constraints of a timestep.  (Those of the two cases of
\* windows are enough to try.)
windowsAllow(e, o, se) ==
  LET sn == minus(plus(vEnq, e), se)
      to == plus(vOut, o)
  IN  \E we \in {se, sn}, wn \in {None, plus(vNxt, sn)}, wo \in {to, minus(to, se)} :
        typedWinds(e, o, se, we, wn, wo)

\* The constraints allow what a FIFO queue does until it has sent c packets
\* without running empty: whatever is offered, in whatever order, the queue can
\* take what fits and send up to md of its packets, first come first served.
\* (md = 1, as under every scheduler of the repository.)
FifoRuns ==
  fifo /\ away < c =>
    \A s \in {r \in UNION {[1 .. n -> Types] : n \in 0 .. me} :
               \A k \in Types : count(r)[k] <= mk} :
      LET r == Prefix(s, Least(Len(s), c - Len(q)))
          e == count(r)
          d == Len(s) - Len(r)
      IN  \A n \in 0 .. Least(md, Len(q \o r)) :
            LET o == count(Prefix(q \o r, n)) IN
            /\ e \in vec(mk) /\ d \in 0 .. me /\ o \in vec(mo)
            /\ \E b \in [Bufs -> BOOLEAN] : typedBuffer(vC, e, d, o, b)
            /\ \E se \in splits(vEnq, e) :
                 r \in orders(e, minus(se, vEnq)) /\ windowsAllow(e, o, se)

\* Packets a window apart keep their order: of the first packets to come after the
\* buffer was empty, up to the timestep of the c-th, none is overtaken by one that
\* comes later, as long as no more than c have left.  (Within a window, and in the
\* timestep of the c-th, the constraints let packets of different types overtake.
\* md = 1, as above.)
InOrder == \A k \in Types : old[k] >= 0

\* The inductive invariant behind InOrder, for md = 1.  The windows never account
\* for more packets than the buffer has, of any type; a buffer that is empty has
\* therefore windows that balance, which makes good what a renewal has lost.  From
\* then until c packets have left they account for exactly what it has, and once
\* the window is full it has only packets of old.
OrderInv ==
  /\ sum(vEnq) <= c
  /\ leq(vOut, vEnq)
  /\ leq(minus(plus(vEnq, vNxt), vOut), vC)
  /\ sum(vNxt) > 0 => sum(vEnq) = c
  /\ sum(vEnq) = c /\ vOut = vEnq => c = 1
  /\ away < c =>
       /\ vC = minus(plus(vEnq, vNxt), vOut)
       /\ sum(vOut) = away
       /\ IF away + sum(vC) < c THEN old = vC
          ELSE sum(vEnq) = c /\ leq(vEnq, plus(old, vOut))
  /\ InOrder
=============================================================================
