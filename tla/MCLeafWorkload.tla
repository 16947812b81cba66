--------------------------- MODULE MCLeafWorkload ---------------------------
EXTENDS LeafWorkload

line(b, e, m, i, o, r, l) ==
  [begin |-> b, end |-> e, metric |-> m, ids |-> i, op |-> o, rhs |-> r, linear |-> l]

\* Lines of the kinds in data/sub_wls/lst and lsl, and those the mains add.
MCLines ==
  {line(1, 3, "cenq", {0}, ">=", 1, TRUE),  line(1, 3, "cenq", {0}, "<=", 1, TRUE),
   line(1, 2, "cenq", {1}, "<=", 0, FALSE), line(2, 2, "cenq", {0, 1}, ">=", 0, FALSE),
   line(2, 3, "aipg", {0}, "<=", 1, FALSE), line(1, 3, "dst", {0}, "==", 5, FALSE),
   line(1, 3, "dst", {1}, "<=", 3, FALSE),  line(1, 2, "ecmp", {0}, "==", 0, FALSE),
   line(3, 3, "ecmp", {0}, "==", 1, FALSE)}

cell(k, n) == [j \in Types |-> IF j = k THEN n ELSE 0]
Silent == cell(0, 0)
Mixed == [j \in Types |-> IF j \in {5, 11} THEN 1 ELSE 0]

\* Host 0 sends to hosts 5 and 1 over either spine, or nothing, in any timestep; host
\* 1 sends to itself, to host 0, or to the other leafs, or nothing; the others are
\* silent.
MCTraffic ==
  {[i \in Hosts |-> IF i = 0 THEN f ELSE [t \in Times |-> IF i = 1 THEN g[t] ELSE Silent]] :
     f \in [Times -> {Silent, Mixed, cell(5, 1), cell(11, 1), cell(1, 2)}],
     g \in {[t \in Times |-> cell(1, 1)],
            [t \in Times |-> cell(6, 1)],
            [t \in Times |-> IF t = 0 THEN Silent ELSE cell(7, 1)],
            [t \in Times |-> IF t = 1 THEN cell(8, 1) ELSE cell(2, 2)],
            [t \in Times |-> Silent]}}
=============================================================================
