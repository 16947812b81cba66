------------------------------ MODULE WlConstr ------------------------------
(***************************************************************************)
(* What a workload line says: ConstrExtractor of                           *)
(* src/src/gen/constr_extractor.cpp and LeafConstrExtractor of             *)
(* src/src/leaf_spine/leaf_constr_extractor.cpp, which repeats it.         *)
(*                                                                         *)
(* A line is a record: its interval [begin, end] (timesteps counted from   *)
(* 1), metric, inputs ids, comparison op, and right side: rhs, or rhs * t  *)
(* if linear.  It is evaluated on IT, the packets of each input in each    *)
(* timestep, counted from 0.                                               *)
(***************************************************************************)
EXTENDS Integers, FiniteSetsExt

CONSTANT timesteps

ASSUME TimestepsAssumption == timesteps \in Nat \ {0}

Times == 0 .. timesteps - 1

binop(x, op, y) ==
  CASE op = "<" -> x < y
    [] op = "<=" -> x <= y
    [] op = ">" -> x > y
    [] op = ">=" -> x >= y
    [] op = "==" -> x = y
    [] op = "!=" -> x # y

\* The packets of one input up to each timestep.
cenqs(it) ==
  LET upTo[t \in Times] == it[t] + IF t = 0 THEN 0 ELSE upTo[t - 1]
  IN  upTo

\* The value of the chain of ite on it[s] > 0: the last ones decide first, those
\* on earlier timesteps before later ones and near ones before far ones.
nearest(it, t) ==
  LET past == {t - s : s \in {s \in 0 .. t - 1 : it[s] > 0}}
      future == {s - t : s \in {s \in t + 1 .. timesteps - 1 : it[s] > 0}}
  IN  IF past # {} THEN Min(past) ELSE IF future # {} THEN Min(future) ELSE timesteps

\* MUTANT of aipgs: a silent timestep is given a gap as well.
aipgs_Silent(it) == [t \in Times |-> IF t = 0 \/ it[t] > 1 THEN 0 ELSE nearest(it, t)]

\* The gap between packets.  The first timestep has none, nor one with several
\* packets; a silent timestep keeps the gap of the timestep before.
aipgs(it) ==
  LET gap[t \in Times] ==
        IF t = 0 \/ it[t] > 1 THEN 0
        ELSE IF it[t] <= 0 THEN gap[t - 1] ELSE nearest(it, t)
  IN  gap

bound(line, t) == IF line.linear THEN line.rhs * t ELSE line.rhs

parse_cenq(line, IT) ==
  \A t \in line.begin .. line.end :
    binop(MapThenSumSet(LAMBDA i : cenqs(IT[i])[t - 1], line.ids), line.op, bound(line, t))

parse_aipg(line, IT) ==
  \A t \in line.begin .. line.end : \A i \in line.ids :
    binop(aipgs(IT[i])[t - 1], line.op, bound(line, t))

=============================================================================
