----------------------------- MODULE FqChecker -----------------------------
(***************************************************************************)
(* The fair-queueing contention point: class FqChecker of                  *)
(* src/src/FqChecker.cpp, over the buffers of STSChecker.  Two lists of    *)
(* buffers are kept as positions: nq[i] is buffer i's place in the list of *)
(* new buffers, oq[i] its place in the list of old ones, 0 the head.  The  *)
(* code lets the position of a buffer outside a list run to minus          *)
(* infinity, and reads no more of a negative position than its sign: here  *)
(* it stays at -1.                                                         *)
(***************************************************************************)
EXTENDS STSChecker, FiniteSetsExt

VARIABLES
  nq,  \* nq[i]: position of buffer i in the list of new buffers, -1 outside
  oq   \* oq[i]: position of buffer i in the list of old buffers, -1 outside

fqVars == <<I, E, D, B, O, C, nq, oq>>

NoList == [i \in Bufs |-> -1]

dec(x) == IF x < 0 THEN x ELSE x - 1

shift(pos) == [i \in Bufs |-> dec(pos[i])]

heads(pos) == {i \in Bufs : pos[i] = 0}

tail(pos) == Max({pos[i] : i \in Bufs} \cup {-1})

-----------------------------------------------------------------------------
\* Each head of the new list sends one packet; if it has none, each head of the
\* old list does.
out(n, o) ==
  LET senders == IF heads(n) # {} THEN heads(n) ELSE heads(o)
  IN  [i \in Bufs |-> IF i \in senders THEN 1 ELSE 0]

\* MUTANT of removeInactive: buffers that ran empty stay where they are.
removeInactive_None(pos, bp) == pos

\* The body of the removal loop for buffer i.  If i ran empty the inner loop moves
\* up buffer j, for j = 0, 1, ..., while the position of i is not negative, and moves
\* i itself on the way: past j = i it goes on only if i was not the head.
removeBuffer(i, pos, bp) ==
  IF ~bp[i] /\ pos[i] >= 0
  THEN [j \in Bufs |-> IF j <= i \/ pos[i] > 0 THEN dec(pos[j]) ELSE pos[j]]
  ELSE pos

\* The removal of the buffers that ran empty, buffer by buffer.
removeInactive(pos, bp) ==
  LET r[n \in 0 .. num_bufs] == IF n = 0 THEN pos ELSE removeBuffer(n - 1, r[n - 1], bp)
  IN  r[num_bufs]

\* MUTANT of pushActivated: positions are counted from 1 past the tail.
pushActivated_Gap(n, b, bp) ==
  [i \in Bufs |-> IF ~b[i] /\ bp[i] THEN tail(n) + 1 + i + 1 ELSE n[i]]

\* MUTANT of pushActivated: a buffer that has just run empty is appended too.
pushActivated_Changed(n, b, bp) ==
  LET changed == {i \in Bufs : b[i] # bp[i]}
  IN  [i \in Bufs |-> IF i \in changed
                      THEN tail(n) + 1 + Cardinality({j \in changed : j < i})
                      ELSE n[i]]

\* Buffers that become backlogged are appended to the new list in index order.
pushActivated(n, b, bp) ==
  LET activated == {i \in Bufs : ~b[i] /\ bp[i]}
  IN  [i \in Bufs |-> IF i \in activated
                      THEN tail(n) + 1 + Cardinality({j \in activated : j < i})
                      ELSE n[i]]

\* The list of new buffers loses its heads and gains the activated buffers.
newList(n, b, bp) ==
  LET n1 == removeInactive(n, bp)
      n2 == IF heads(n1) # {} THEN shift(n1) ELSE n1
  IN  pushActivated(n2, b, bp)

\* The list of old buffers loses its heads if the new list np is empty, and gains
\* what either list has lost to sending.
oldList(n, o, bp, np) ==
  LET o1 == removeInactive(o, bp)
      poppedN == heads(removeInactive(n, bp))
      poppedO == IF \A i \in Bufs : np[i] < 0 THEN heads(o1) ELSE {}
      o2 == IF poppedO # {} THEN shift(o1) ELSE o1
  IN  [i \in Bufs |-> IF bp[i] /\ i \in poppedN \cup poppedO
                      THEN tail(o2) + 1 ELSE o2[i]]

\* The lists at the next timestep.
trs(n, o, b, bp, np, op) ==
  /\ np = newList(n, b, bp)
  /\ op = oldList(n, o, bp, np)

\* At timestep 0 the backlogged buffers are new, in index order.
init(b, n, o) ==
  /\ n = [i \in Bufs |-> IF b[i] THEN Cardinality({j \in Bufs : j < i /\ b[j]})
                         ELSE -1]
  /\ o = NoList

Init ==
  /\ arrivals(Empty, I, E, D, B)
  /\ init(B, nq, oq)
  /\ O = out(nq, oq)
  /\ departures(Empty, E, O, C)

\* The constraints on the arrays of the next timestep.
timestep(i, e, d, b, n, o, sends, pcp) ==
  /\ arrivals(C, i, e, d, b)
  /\ trs(nq, oq, B, b, n, o)
  /\ sends = out(n, o)
  /\ departures(C, e, sends, pcp)

\* One timestep of the CP.
Next == timestep(I', E', D', B', nq', oq', O', C')

Spec == Init /\ [][Next]_fqVars

-----------------------------------------------------------------------------
\* The code declares no bound for the positions (the add_bound calls of its
\* constructor are commented out), and num_bufs - 1 is not one: a list can lose its
\* head and begin at position 1.  Such holes add up, but for each a buffer has left the
\* list or waits behind it.
LastPosition == 2 * num_bufs - 2

TypeOK ==
  /\ bounds
  /\ nq \in [Bufs -> -1 .. LastPosition]
  /\ oq \in [Bufs -> -1 .. LastPosition]

\* A buffer that ran empty is in no list, although the removal loop of
\* FqChecker::trs tests a position it is changing: otherwise out would have an
\* empty buffer send, and the solver would discard the behaviour.  And a buffer is
\* not new and old at once, although activation and demotion are decided
\* independently.
ListsSound ==
  \A i \in Bufs :
    /\ nq[i] >= 0 \/ oq[i] >= 0 => B[i]
    /\ nq[i] < 0 \/ oq[i] < 0

\* No input of up to me packets per buffer is excluded in any reachable state, for
\* some enqueues; the other arrays have no other value.
Receptive ==
  \A inp \in [Bufs -> 0 .. me] : \E e \in [Bufs -> 0 .. me] :
    LET d == [i \in Bufs |-> enq_deq_sum(inp[i], e[i])]
        b == [i \in Bufs |-> backlogged(C[i], e[i])]
        n == newList(nq, B, b)
        o == oldList(nq, oq, b, n)
        sends == out(n, o)
        pcp == [i \in Bufs |-> remaining(C[i], e[i], sends[i])]
    IN  timestep(inp, e, d, b, n, o, sends, pcp)
=============================================================================
