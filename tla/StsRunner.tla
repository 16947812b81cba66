----------------------------- MODULE StsRunner -----------------------------
(***************************************************************************)
(* What the programs ask of the Z3 solver, with its stack of assertions,   *)
(* and what they make of its answers.                                      *)
(*                                                                         *)
(* "sts" is rr, prio and fq (StsRunner::run of src/src/sts_runner.cpp),    *)
(* "loom" has LoomStsRunner::run (src/src/loom_sts_runner.cpp), "lst" and  *)
(* "lsl" are src/lst.cpp and src/lsl.cpp, main and check_wl.  All four     *)
(* go through a workload file (read_wl_file of src/src/utils.cpp): a list  *)
(* of sections, each a header line that says which answer is expected, and *)
(* one line per constraint on the input.  "example" is                     *)
(* src/examples/main.cpp, two calls of the methods of STSChecker.          *)
(***************************************************************************)
EXTENDS Integers, SequencesExt

CONSTANT MaxLines  \* bound on the lines of the workload file that are not blank

ASSUME MaxLinesAssumption == MaxLines \in Nat

VARIABLES
  program,   \* the one that runs
  pc,        \* where it is
  lines,     \* lines of the file read so far
  current,   \* read_wl_file: the section being read
  sections,  \* read_wl_file's result, wls in the loop
  stack,     \* frames of the solver, each a set of assertions
  i,         \* the loop variable, from 1
  todo,      \* the questions about this section that are left to ask
  log,       \* rows of the log file: section and expected answer
  answers    \* history: what the solver said, of which section and assertions

file == <<lines, current, sections>>
runnerVars == <<program, pc, file, stack, i, todo, log, answers>>

Programs == {"sts", "loom", "lst", "lsl", "example"}
Headers == {"SAT", "UNSAT"}
\* What the first line of a section may be.  Only the first section can lack a header;
\* its first line is then read in place of one, and SKIP is what lst and lsl look for.
Firsts == Headers \cup {"SKIP", "constraint"}
Answers == {"sat", "unsat", "unknown"}

\* Assertions: <<"line", s, l>> is line l of section s; the others are
\* base_constrs, and for lst and lsl the links with them, base_wl (or workload),
\* the lines that lst and lsl append to every section, uniq, query and its negation.
named(a) == <<a, 0, 0>>
workload(s) == {<<"line", s, l>> : l \in 2 .. Len(sections[s])}

asserted == UNION {stack[f] : f \in 1 .. Len(stack)}

\* What is asserted before the loop, in the frame that nothing pops; lst and lsl
\* make a new solver for every section.
Base == IF program \in {"lst", "lsl"} THEN {named("base")}
        ELSE {named("base"), named("base_wl")} \cup
             (IF program = "sts" THEN {named("not_query")} ELSE {})

\* The lines that main of lst and lsl append to every section.
appended == IF program \in {"lst", "lsl"} THEN {named("appended")} ELSE {}

\* What goes with the lines of a section into a frame.
extra == appended \cup
  CASE program = "loom" -> {named("not_query")}
    [] program = "lst" -> {named("uniq")}
    [] OTHER -> {}

\* MUTANT of questions: lst is satisfied like lsl, without the first question.
questions_Vacuous(p, res) ==
  LET ask(q, e) == [q |-> q, expect |-> e]
      not_query == IF p \in {"lst", "lsl"} THEN {named("not_query")} ELSE {}
  IN  IF res = "SAT" THEN <<ask(not_query, "sat")>>
      ELSE IF res = "UNSAT" \/ p \in {"lst", "lsl"} THEN <<ask(not_query, "unsat")>>
      ELSE <<>>

\* What is asked about a section with this first line, each with what is asserted for
\* that question only and the answer that lets the program go on.  lst asks whether
\* the workload allows the query at all before it asks whether it implies it; lst
\* and lsl take what is not SAT for UNSAT, the others ask nothing then.
questions(p, res) ==
  LET ask(q, e) == [q |-> q, expect |-> e]
      not_query == IF p \in {"lst", "lsl"} THEN {named("not_query")} ELSE {}
  IN  IF res = "SAT" THEN <<ask(not_query, "sat")>>
      ELSE IF p = "lst" THEN <<ask({named("query")}, "sat"), ask(not_query, "unsat")>>
      ELSE IF res = "UNSAT" \/ p = "lsl" THEN <<ask(not_query, "unsat")>>
      ELSE <<>>

RunnerInit ==
  /\ program \in Programs
  /\ pc = IF program = "example" THEN "first" ELSE "read"
  /\ lines = 0 /\ current = <<>> /\ sections = <<>>
  /\ stack = <<{}>>
  /\ i = 1 /\ todo = <<>>
  /\ log = <<>> /\ answers = <<>>

-----------------------------------------------------------------------------
(* read_wl_file                                                            *)

\* MUTANT of flushed: a new header drops the section before it.
flushed_Lost == sections

\* The sections with the current one, if it has any line.
flushed == IF current = <<>> THEN sections ELSE Append(sections, current)

\* A line that begins with ###: the section before it ends.  It is UNSAT if it says
\* so, and SAT if it says anything else, SKIP too.
ReadHeader(res) ==
  /\ pc = "read" /\ lines < MaxLines
  /\ lines' = lines + 1
  /\ sections' = flushed
  /\ current' = <<res>>
  /\ UNCHANGED <<program, pc, stack, i, todo, log, answers>>

\* Any other line that is not blank.  Nothing requires a header before it.  What it
\* says is told apart only where it stands in for the header.
ReadConstraint(line) ==
  /\ pc = "read" /\ lines < MaxLines
  /\ line # "constraint" => current = <<>>
  /\ lines' = lines + 1
  /\ current' = Append(current, line)
  /\ UNCHANGED <<program, pc, sections, stack, i, todo, log, answers>>

\* End of the file, or no file at all; and the assertions before the loop.
ReadEnd ==
  /\ pc = "read"
  /\ sections' = flushed
  /\ stack' = IF program \in {"lst", "lsl"} THEN stack ELSE [stack EXCEPT ![1] = @ \cup Base]
  /\ pc' = "loop"
  /\ UNCHANGED <<program, lines, current, i, todo, log, answers>>

-----------------------------------------------------------------------------
(* The loop over the sections                                              *)

skips(s) == program \in {"lst", "lsl"} /\ sections[s][1] = "SKIP"

\* lst and lsl pass over a section that begins with SKIP, without a row.
Skip ==
  /\ pc = "loop" /\ i <= Len(sections) /\ skips(i)
  /\ i' = i + 1
  /\ UNCHANGED <<program, pc, file, stack, todo, log, answers>>

\* Any other section: push, and its constraints are asserted.  In lst and lsl the
\* solver is new, and the frame that was used to find the values in use is popped.
PushAndParse ==
  /\ pc = "loop" /\ i <= Len(sections) /\ ~skips(i)
  /\ stack' = Append(IF program \in {"lst", "lsl"} THEN <<Base>> ELSE stack,
                     workload(i) \cup extra)
  /\ todo' = questions(program, sections[i][1])
  /\ pc' = "check"
  /\ UNCHANGED <<program, file, i, log, answers>>

\* Where the program goes with the solver's answer: on, to the branch that prints
\* the model, or out with an exception nobody catches.
verdict(ans, expect) ==
  IF ans = expect THEN "check"
  ELSE IF program = "sts" /\ expect = "unsat" THEN "diagnose" ELSE "aborted"

\* slv.check_sat() or slv.check_unsat(), in lst and lsl in a frame of its own.
Check(ans) ==
  /\ pc = "check" /\ todo # <<>>
  /\ answers' = Append(answers, [wl |-> i, of |-> asserted \cup Head(todo).q, ans |-> ans])
  /\ pc' = verdict(ans, Head(todo).expect)
  /\ todo' = Tail(todo)
  /\ UNCHANGED <<program, file, stack, i, log>>

\* The handler of check_unsat's exception asks for a model: it prints it and
\* exits, unless the solver, which may have given up, has none.
Diagnose(ans) ==
  /\ pc = "diagnose"
  /\ Last(answers).ans = "sat" => ans # "unsat"
  /\ pc' = IF ans = "sat" THEN "exited" ELSE "aborted"
  /\ UNCHANGED <<program, file, stack, i, todo, log, answers>>

\* MUTANT of popped: the frame of the section stays.
popped_Kept == stack

popped == SubSeq(stack, 1, Len(stack) - 1)

\* The row of the section, and the end of the loop's body (loom pops first).
LogAndPop ==
  /\ pc = "check" /\ todo = <<>>
  /\ log' = Append(log, [wl |-> i, res |-> sections[i][1]])
  /\ stack' = popped
  /\ i' = i + 1
  /\ pc' = "loop"
  /\ UNCHANGED <<program, file, todo, answers>>

Finish ==
  /\ pc = "loop" /\ i > Len(sections)
  /\ pc' = "done"
  /\ UNCHANGED <<program, file, stack, i, todo, log, answers>>

-----------------------------------------------------------------------------
(* The methods of STSChecker, in the order of src/examples/main.cpp        *)

\* When check_sat throws, the frame stays: nobody catches it.
check_wl_and_query_sat(ans) ==
  LET frame == Append(stack, Base \cup {named("query")})
  IN  /\ pc = "first"
      /\ stack' = IF ans = "sat" THEN SubSeq(frame, 1, Len(frame) - 1) ELSE frame
      /\ answers' = Append(answers, [wl |-> 0, of |-> UNION {frame[f] : f \in 1 .. Len(frame)},
                                     ans |-> ans])
      /\ pc' = IF ans = "sat" THEN "second" ELSE "aborted"
      /\ UNCHANGED <<program, file, i, todo, log>>

\* This one never pops its frame.
check_wl_and_not_query_unsat(ans) ==
  /\ pc = "second"
  /\ stack' = Append(stack, Base \cup {named("not_query")})
  /\ answers' = Append(answers, [wl |-> 0, of |-> asserted \cup Base \cup {named("not_query")},
                                 ans |-> ans])
  /\ pc' = IF ans = "unsat" THEN "done" ELSE "aborted"
  /\ UNCHANGED <<program, file, i, todo, log>>

RunnerNext ==
  \/ \E res \in Headers : ReadHeader(res)
  \/ \E line \in Firsts : ReadConstraint(line)
  \/ ReadEnd
  \/ Skip \/ PushAndParse
  \/ \E ans \in Answers : Check(ans) \/ Diagnose(ans)
  \/ LogAndPop \/ Finish
  \/ \E ans \in Answers : check_wl_and_query_sat(ans) \/ check_wl_and_not_query_unsat(ans)

RunnerSpec == RunnerInit /\ [][RunnerNext]_runnerVars

-----------------------------------------------------------------------------
said(r, q, ans) == \E n \in 1 .. Len(answers) :
  answers[n].wl = r /\ named(q) \in answers[n].of /\ answers[n].ans = ans

\* Sections passed over: the first one, or none.
skipped == IF sections # <<>> /\ skips(1) THEN 1 ELSE 0

\* Readme.md: "raise an exception if our result is different from FPerf".  A row
\* of the log stands for answers of the solver that agree with the file: a SAT row
\* for a trace of the workload against the query, an UNSAT row for there being none
\* and, in lst, for there being one with the query.  The rows number their sections
\* as the file has them, those passed over included.  Only the first section can be
\* logged unchecked, when the file does not begin with a header, and not by lst and
\* lsl.
RowsAreVerdicts ==
  \A r \in 1 .. Len(log) :
    LET s == log[r].wl
        res == log[r].res
    IN  /\ s = r + skipped
        /\ res = "SAT" => said(s, "not_query", "sat")
        /\ res = "UNSAT" \/ (program \in {"lst", "lsl"} /\ res # "SAT") =>
             said(s, "not_query", "unsat") /\ (program = "lst" => said(s, "query", "sat"))
        /\ res \notin Headers => s = 1

\* Every question is put on its own: with the CP and with the query or its negation,
\* not both, which nothing satisfies; and with the lines of its own section, all of
\* them and no other's.  Three of the programs pop what they push; the example gets
\* it right because it asks the question that leaves a frame behind last.
AskedAlone ==
  \A n \in 1 .. Len(answers) :
    LET a == answers[n]
    IN  /\ named("base") \in a.of
        /\ named("query") \in a.of <=> named("not_query") \notin a.of
        /\ {e \in a.of : e[1] = "line"} = IF a.wl = 0 THEN {} ELSE workload(a.wl)

\* A run that ends normally has logged every section but those passed over, has seen
\* every line of the file in one of them, and has left the solver as it was before the
\* loop.
DoneIsComplete ==
  pc = "done" /\ program # "example" =>
    /\ Len(log) + skipped = Len(sections)
    /\ Len(FlattenSeq(sections)) = lines
    /\ Len(stack) = 1
=============================================================================
