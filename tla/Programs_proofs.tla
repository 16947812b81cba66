-------------------------- MODULE Programs_proofs --------------------------
(***************************************************************************)
(* The programs: what a row of their log stands for, whatever the workload *)
(* file says and the solver answers.  And for the example, which has no    *)
(* log, that its query has no witness.                                     *)
(***************************************************************************)
EXTENDS StsRunner, RateLimiter, STSChecker_proofs, SequenceTheorems

LEMMA FlattenLoop ==
  ASSUME NEW T, NEW s \in Seq(Seq(T))
  PROVE  \E f \in [0 .. Len(s) -> Seq(T)] :
           /\ f[0] = <<>>
           /\ \A n \in 1 .. Len(s) : f[n] = f[n - 1] \o s[n]
           /\ FlattenSeq(s) = f[Len(s)]
<1> DEFINE G == [n \in 1 .. Len(s) |-> [x \in Seq(T) |-> x \o s[n]]]
<1>1. Len(s) \in Nat /\ \A n \in 1 .. Len(s) : s[n] \in Seq(T)
  OBVIOUS
<1>2. G \in Loops(Len(s), Seq(T))
  BY <1>1 DEF Loops
<1>3. PICK f \in [0 .. Len(s) -> Seq(T)] : Computes(f, Len(s), <<>>, G)
  <2>1. <<>> \in Seq(T)
    OBVIOUS
  <2> HIDE DEF G
  <2> QED BY <1>1, <1>2, <2>1, Recursion, Zenon
<1>4. f[0] = <<>> /\ \A n \in 1 .. Len(s) : f[n] = f[n - 1] \o s[n]
  <2> SUFFICES ASSUME NEW n \in 1 .. Len(s) PROVE f[n] = f[n - 1] \o s[n]
    BY <1>3 DEF Computes
  <2>1. n - 1 \in 0 .. Len(s)
    BY <1>1
  <2>2. f[n - 1] \in Seq(T)
    BY <2>1
  <2>3. G[n][f[n - 1]] = f[n - 1] \o s[n]
    BY <2>2
  <2> HIDE DEF G
  <2> QED BY <1>3, <2>3 DEF Computes
<1>5. FlattenSeq(s) = f[Len(s)]
  <2>1. CASE Len(s) = 0
    <3>1. FlattenSeq(s) = s
      BY <2>1 DEF FlattenSeq
    <3> QED BY <1>4, <2>1, <3>1
  <2>2. CASE Len(s) # 0
    <3> DEFINE flatten[n \in 1 .. Len(s)] == IF n = 1 THEN s[n] ELSE flatten[n - 1] \o s[n]
               g == [n \in 1 .. Len(s) |-> f[n]]
    <3>1. FlattenSeq(s) = flatten[Len(s)]
      BY <2>2 DEF FlattenSeq
    <3>2. g = [n \in 1 .. Len(s) |-> IF n = 1 THEN s[n] ELSE g[n - 1] \o s[n]]
      <4> SUFFICES ASSUME NEW n \in 1 .. Len(s)
                   PROVE  f[n] = IF n = 1 THEN s[n] ELSE g[n - 1] \o s[n]
        OBVIOUS
      <4>1. CASE n = 1
        <5>1. f[n] = f[n - 1] \o s[n]
          BY <1>4
        <5>2. n - 1 = 0 /\ s[n] \in Seq(T)
          BY <1>1, <4>1
        <5>3. f[n] = <<>> \o s[n]
          BY <1>4, <5>1, <5>2
        <5>4. f[n] = s[n]
          BY <5>2, <5>3, ConcatEmptySeq
        <5> QED BY <4>1, <5>4
      <4>2. CASE n # 1
        <5>1. n - 1 \in 1 .. Len(s)
          BY <1>1, <4>2
        <5> QED BY <1>4, <4>2, <5>1
      <4> QED BY <4>1, <4>2
    <3>3. flatten = [n \in 1 .. Len(s) |-> IF n = 1 THEN s[n] ELSE flatten[n - 1] \o s[n]]
      <4> HIDE DEF g
      <4> QED BY <3>2
    <3> HIDE DEF flatten
    <3> DEFINE A == {n \in 0 .. Len(s) : n = 0 \/ flatten[n] = f[n]}
    <3>4. 0 \in A
      BY <1>1
    <3>5. ASSUME NEW n \in 0 .. Len(s) - 1, n \in A PROVE n + 1 \in A
      <4>1. n + 1 \in 1 .. Len(s)
        BY <1>1
      <4>2. flatten[n + 1] = IF n + 1 = 1 THEN s[n + 1] ELSE flatten[(n + 1) - 1] \o s[n + 1]
        BY <3>3, <4>1
      <4>3. f[n + 1] = f[n] \o s[n + 1]
        <5>1. (n + 1) - 1 = n
          OBVIOUS
        <5>2. f[n + 1] = f[(n + 1) - 1] \o s[n + 1]
          BY <1>4, <4>1
        <5> QED BY <5>1, <5>2
      <4>4. CASE n = 0
        <5>1. flatten[n + 1] = s[n + 1]
          BY <4>2, <4>4
        <5>2. f[n + 1] = s[n + 1]
          BY <1>1, <1>4, <4>1, <4>3, <4>4, ConcatEmptySeq
        <5> QED BY <4>1, <5>1, <5>2
      <4>5. CASE n # 0
        <5>1. n + 1 # 1 /\ (n + 1) - 1 = n /\ flatten[n] = f[n]
          BY <1>1, <3>5, <4>5
        <5>2. flatten[n + 1] = flatten[n] \o s[n + 1]
          BY <4>2, <5>1
        <5>3. flatten[n + 1] = f[n + 1]
          BY <4>3, <5>1, <5>2
        <5>4. n + 1 \in 0 .. Len(s)
          BY <4>1
        <5> QED BY <5>3, <5>4
      <4> QED BY <4>4, <4>5
    <3>6. Len(s) \in A
      <4> HIDE DEF A
      <4>1. \A n \in 0 .. Len(s) : n \in A
        BY <1>1, <3>4, <3>5, UpTo
      <4> QED BY <1>1, <4>1
    <3> QED BY <2>2, <3>1, <3>6
  <2> QED BY <2>1, <2>2
<1> QED BY <1>4, <1>5
\* One section more adds its lines at the end.
LEMMA FlattenAppend ==
  ASSUME NEW T, NEW s \in Seq(Seq(T)), NEW x \in Seq(T)
  PROVE  Len(FlattenSeq(Append(s, x))) = Len(FlattenSeq(s)) + Len(x)
<1> DEFINE sx == Append(s, x)
<1>1. /\ Len(s) \in Nat /\ sx \in Seq(Seq(T)) /\ Len(sx) = Len(s) + 1
      /\ sx[Len(s) + 1] = x /\ \A n \in 1 .. Len(s) : sx[n] = s[n]
  BY AppendProperties
<1> HIDE DEF sx
<1>2. PICK f \in [0 .. Len(s) -> Seq(T)] :
        /\ f[0] = <<>> /\ \A n \in 1 .. Len(s) : f[n] = f[n - 1] \o s[n]
        /\ FlattenSeq(s) = f[Len(s)]
  BY FlattenLoop
<1>3. PICK g \in [0 .. Len(sx) -> Seq(T)] :
        /\ g[0] = <<>> /\ \A n \in 1 .. Len(sx) : g[n] = g[n - 1] \o sx[n]
        /\ FlattenSeq(sx) = g[Len(sx)]
  BY <1>1, FlattenLoop
<1> DEFINE A == {n \in 0 .. Len(s) : g[n] = f[n]}
<1>4. 0 \in A
  BY <1>1, <1>2, <1>3
<1>5. ASSUME NEW n \in 0 .. Len(s) - 1, n \in A PROVE n + 1 \in A
  <2>1. n + 1 \in 1 .. Len(s) /\ n + 1 \in 1 .. Len(sx) /\ (n + 1) - 1 = n
    BY <1>1
  <2>2. f[n + 1] = f[(n + 1) - 1] \o s[n + 1]
    BY <1>2, <2>1
  <2>3. g[n + 1] = g[(n + 1) - 1] \o sx[n + 1]
    BY <1>3, <2>1
  <2>4. g[n + 1] = f[n + 1]
    BY <1>1, <1>5, <2>1, <2>2, <2>3
  <2> QED BY <2>1, <2>4
<1>6. g[Len(s)] = f[Len(s)]
  <2>1. \A n \in 0 .. Len(s) : n \in A
    <3> HIDE DEF A
    <3> QED BY <1>1, <1>4, <1>5, UpTo
  <2> QED BY <1>1, <2>1
<1>7. g[Len(s) + 1] = g[Len(s)] \o x
  <2>1. Len(s) + 1 \in 1 .. Len(sx) /\ (Len(s) + 1) - 1 = Len(s)
    BY <1>1
  <2>2. g[Len(s) + 1] = g[(Len(s) + 1) - 1] \o sx[Len(s) + 1]
    BY <1>3, <2>1
  <2> QED BY <1>1, <2>1, <2>2
<1>8. FlattenSeq(sx) = FlattenSeq(s) \o x /\ FlattenSeq(s) \in Seq(T)
  BY <1>1, <1>2, <1>3, <1>6, <1>7
<1>9. Len(FlattenSeq(s) \o x) = Len(FlattenSeq(s)) + Len(x)
  BY <1>8, ConcatProperties
<1> QED BY <1>8, <1>9 DEF sx

-----------------------------------------------------------------------------
(***************************************************************************)
(* The inductive invariant: the file that was read, ...                    *)
(***************************************************************************)
Names == {"base", "base_wl", "query", "not_query", "appended", "uniq"}

Asserts == {named(x) : x \in Names} \cup
           {<<"line", s, l>> : s \in Nat, l \in Nat}

FileInv ==
  /\ program \in Programs /\ lines \in Nat
  /\ current \in Seq(Firsts) /\ sections \in Seq(Seq(Firsts))
  /\ \A r \in 1 .. Len(sections) : /\ sections[r] # <<>>
                                   /\ r # 1 => sections[r][1] \in Headers
  /\ pc = "read" => /\ Len(FlattenSeq(sections)) + Len(current) = lines
                    /\ sections # <<>> => current # <<>> /\ current[1] \in Headers
  /\ pc # "read" => Len(FlattenSeq(sections)) = lines
  /\ IF program = "example" THEN pc \in {"first", "second", "aborted", "done"} /\ sections = <<>>
                            ELSE pc \notin {"first", "second"}

(***************************************************************************)
(* ... the solver's frames, ...                                            *)
(***************************************************************************)
FramesInv ==
  /\ pc \in {"read", "first", "second"} => stack = <<{}>>
  /\ pc = "loop" => Len(stack) = 1 /\ (program \notin {"lst", "lsl"} => stack = <<Base>>)
  /\ pc = "check" => stack = <<Base, workload(i) \cup extra>>
  /\ pc = "done" /\ program # "example" => Len(stack) = 1

(***************************************************************************)
(* ... the answers, each to a question of a section with what is asserted  *)
(* for it, ...                                                             *)
(***************************************************************************)
asked(r) == questions(program, sections[r][1])

Put(r, a) == Base \cup workload(r) \cup extra \cup a.q

AnswerSet == [wl : Nat, of : SUBSET Asserts, ans : Answers]

Answered(r, a) == \E n \in 1 .. Len(answers) :
  answers[n].wl = r /\ answers[n].of = Put(r, a) /\ answers[n].ans = a.expect

AnswersInv ==
  /\ answers \in Seq(AnswerSet)
  /\ pc \in {"read", "first"} => answers = <<>>
  /\ \A n \in 1 .. Len(answers) :
       IF program = "example"
       THEN /\ answers[n].wl = 0
            /\ \E x \in {"query", "not_query"} : answers[n].of = Base \cup {named(x)}
       ELSE /\ answers[n].wl \in 1 .. Len(sections)
            /\ \E m \in 1 .. Len(asked(answers[n].wl)) :
                 answers[n].of = Put(answers[n].wl, asked(answers[n].wl)[m])

(***************************************************************************)
(* ... and the log, whose rows have had all their questions answered; in   *)
(* the section that is being checked those that are no longer to do.       *)
(***************************************************************************)
Verified(s) == \A m \in 1 .. Len(asked(s)) : Answered(s, asked(s)[m])

Row(r, s) == log[r].wl = s /\ log[r].res = sections[s][1] /\ Verified(s)

Rows == \A r \in 1 .. Len(log) : \E s \in 1 .. Len(sections) : s = r + skipped /\ Row(r, s)

LogInv ==
  /\ i \in Nat \ {0} /\ i <= Len(sections) + 1
  /\ log \in Seq([wl : Nat, res : Firsts])
  /\ Len(log) = IF i = 1 THEN 0 ELSE i - 1 - skipped
  /\ pc = "read" => log = <<>> /\ i = 1
  /\ Rows
  /\ pc = "check" =>
       /\ i <= Len(sections) /\ ~skips(i)
       /\ \E n \in 0 .. Len(asked(i)) :
            /\ todo = SubSeq(asked(i), n + 1, Len(asked(i)))
            /\ \A m \in 1 .. n : Answered(i, asked(i)[m])
  /\ pc = "done" /\ program # "example" => i > Len(sections)

RunnerInv == FileInv /\ FramesInv /\ AnswersInv /\ LogInv

-----------------------------------------------------------------------------
\* What is asked of a section: the query's negation is asserted for every question
\* but one of lst's, and every verdict has its question.
LEMMA QuestionFacts ==
  ASSUME NEW p \in Programs, NEW res \in Firsts
  PROVE  /\ questions(p, res) \in Seq([q : SUBSET Asserts, expect : Answers])
         /\ \A m \in 1 .. Len(questions(p, res)) :
              IF p \in {"lst", "lsl"}
              THEN questions(p, res)[m].q \in {{named("query")}, {named("not_query")}}
              ELSE questions(p, res)[m].q = {}
         /\ res = "SAT" => /\ Len(questions(p, res)) = 1
                           /\ questions(p, res)[1].expect = "sat"
                           /\ p \in {"lst", "lsl"} =>
                                questions(p, res)[1].q = {named("not_query")}
         /\ res = "UNSAT" \/ (p \in {"lst", "lsl"} /\ res # "SAT") =>
              \E m \in 1 .. Len(questions(p, res)) :
                /\ questions(p, res)[m].expect = "unsat"
                /\ p \in {"lst", "lsl"} => questions(p, res)[m].q = {named("not_query")}
<1> DEFINE Q == [q : SUBSET Asserts, expect : Answers]
           nq == IF p \in {"lst", "lsl"} THEN {named("not_query")} ELSE {}
           a1 == [q |-> nq, expect |-> "sat"]
           a2 == [q |-> {named("query")}, expect |-> "sat"]
           a3 == [q |-> nq, expect |-> "unsat"]
<1>1. a1 \in Q /\ a2 \in Q /\ a3 \in Q
  BY DEF Asserts, Names, Answers
<1>2. /\ res = "SAT" => questions(p, res) = <<a1>>
      /\ res # "SAT" /\ p = "lst" => questions(p, res) = <<a2, a3>>
      /\ res # "SAT" /\ p # "lst" /\ (res = "UNSAT" \/ p = "lsl") => questions(p, res) = <<a3>>
      /\ res # "SAT" /\ p # "lst" /\ ~(res = "UNSAT" \/ p = "lsl") => questions(p, res) = <<>>
  BY DEF questions
<1>3. CASE res = "SAT"
  <2> DEFINE s == questions(p, res)
  <2>0. s = <<a1>>
    BY <1>2, <1>3
  <2>1. s \in Seq(Q) /\ Len(s) = 1 /\ s[1] = a1
    <3> HIDE DEF s, a1, a3, Q
    <3> QED BY <1>1, <2>0
  <2> HIDE DEF s
  <2>2. \A m \in 1 .. Len(s) : IF p \in {"lst", "lsl"} THEN s[m].q = {named("not_query")}
                                                      ELSE s[m].q = {}
    BY <2>1
  <2>3. s[1].expect = "sat" /\ (p \in {"lst", "lsl"} => s[1].q = {named("not_query")})
    BY <2>1
  <2> QED BY <1>3, <2>1, <2>2, <2>3 DEF s
<1>4. CASE res # "SAT" /\ p = "lst"
  <2> DEFINE s == questions(p, res)
  <2>1. s = <<a2, a3>>
    BY <1>2, <1>4
  <2>2. s \in Seq(Q) /\ Len(s) = 2 /\ s[1] = a2 /\ s[2] = a3
    BY <1>1, <2>1
  <2>3. nq = {named("not_query")}
    BY <1>4
  <2> HIDE DEF s
  <2>4. \A m \in 1 .. Len(s) : s[m].q \in {{named("query")}, {named("not_query")}}
    BY <2>2, <2>3
  <2>5. \E m \in 1 .. Len(s) : s[m].expect = "unsat" /\ s[m].q = {named("not_query")}
    BY <2>2, <2>3
  <2> QED BY <1>4, <2>2, <2>4, <2>5 DEF s
<1>5. CASE res # "SAT" /\ p # "lst" /\ (res = "UNSAT" \/ p = "lsl")
  <2> DEFINE s == questions(p, res)
  <2>0. s = <<a3>>
    BY <1>2, <1>5
  <2>1. s \in Seq(Q) /\ Len(s) = 1 /\ s[1] = a3
    <3> HIDE DEF s, a1, a3, Q
    <3> QED BY <1>1, <2>0
  <2> HIDE DEF s
  <2>2. \A m \in 1 .. Len(s) : IF p \in {"lst", "lsl"} THEN s[m].q = {named("not_query")}
                                                      ELSE s[m].q = {}
    BY <2>1
  <2>3. \E m \in 1 .. Len(s) : s[m].expect = "unsat" /\ (p \in {"lst", "lsl"} => s[m].q = {named("not_query")})
    BY <2>1
  <2> QED BY <1>5, <2>1, <2>2, <2>3 DEF s
<1>6. CASE res # "SAT" /\ p # "lst" /\ ~(res = "UNSAT" \/ p = "lsl")
  BY <1>1, <1>2, <1>6
<1> QED BY <1>3, <1>4, <1>5, <1>6

\* lst asks first whether the workload allows the query.
LEMMA LstAsksFirst ==
  ASSUME NEW res, res # "SAT"
  PROVE  \E m \in 1 .. Len(questions("lst", res)) :
           /\ questions("lst", res)[m].expect = "sat"
           /\ questions("lst", res)[m].q = {named("query")}
<1> DEFINE a2 == [q |-> {named("query")}, expect |-> "sat"]
           a3 == [q |-> {named("not_query")}, expect |-> "unsat"]
<1>1. questions("lst", res) = <<a2, a3>>
  BY DEF questions
<1> QED BY <1>1

LEMMA SectionFacts ==
  ASSUME FileInv
  PROVE  \A r \in 1 .. Len(sections) : sections[r] \in Seq(Firsts) /\ sections[r][1] \in Firsts
<1> SUFFICES ASSUME NEW r \in 1 .. Len(sections)
             PROVE  sections[r] \in Seq(Firsts) /\ sections[r][1] \in Firsts
  OBVIOUS
<1>1. sections \in Seq(Seq(Firsts)) /\ sections[r] # <<>>
  BY DEF FileInv
<1>2. sections[r] \in Seq(Firsts)
  BY <1>1
<1> QED BY <1>1, <1>2

\* lst and lsl put the query or its negation with a question, the others have it among
\* what they assert for all.
LEMMA QuestionKinds ==
  ASSUME NEW p \in Programs, NEW res \in Firsts
  PROVE  \A k \in 1 .. Len(questions(p, res)) :
           IF p \in {"lst", "lsl"}
           THEN questions(p, res)[k].q \in {{named("query")}, {named("not_query")}}
           ELSE questions(p, res)[k].q = {}
<1>1. \A k \in 1 .. Len(questions(p, res)) :
        IF p \in {"lst", "lsl"}
        THEN questions(p, res)[k].q \in {{named("query")}, {named("not_query")}}
        ELSE questions(p, res)[k].q = {}
  BY QuestionFacts
<1> QED BY <1>1

\* What is asserted, of the program and a section.
LEMMA PutFacts ==
  ASSUME FileInv, program # "example", NEW r \in 1 .. Len(sections), NEW m \in 1 .. Len(asked(r))
  PROVE  /\ Put(r, asked(r)[m]) \in SUBSET Asserts
         /\ named("base") \in Put(r, asked(r)[m])
         /\ program \notin {"lst", "lsl"} => named("not_query") \in Put(r, asked(r)[m])
         /\ named("query") \in Put(r, asked(r)[m]) <=> named("not_query") \notin Put(r, asked(r)[m])
         /\ {e \in Put(r, asked(r)[m]) : e[1] = "line"} = workload(r)
<1> DEFINE a == asked(r)[m]
<1>1. program \in Programs /\ sections[r][1] \in Firsts /\ sections[r] \in Seq(Firsts)
  BY SectionFacts DEF FileInv
<1>2. IF program \in {"lst", "lsl"} THEN a.q \in {{named("query")}, {named("not_query")}}
                                    ELSE a.q = {}
  <2> DEFINE res == sections[r][1]
  <2>1. \A k \in 1 .. Len(questions(program, res)) :
          IF program \in {"lst", "lsl"}
          THEN questions(program, res)[k].q \in {{named("query")}, {named("not_query")}}
          ELSE questions(program, res)[k].q = {}
    <3>1. res \in Firsts /\ program \in Programs
      BY <1>1
    <3> HIDE DEF res
    <3> QED BY <3>1, QuestionKinds
  <2> QED BY <2>1 DEF asked
<1> HIDE DEF a
<1>3. workload(r) \in SUBSET Asserts /\ \A e \in workload(r) : e[1] = "line"
  BY <1>1 DEF workload, Asserts
<1>4. /\ Base = IF program \in {"lst", "lsl"} THEN {named("base")}
                ELSE IF program = "sts" THEN {named("base"), named("base_wl"), named("not_query")}
                ELSE {named("base"), named("base_wl")}
      /\ extra = IF program = "loom" THEN {named("not_query")}
                 ELSE IF program = "lst" THEN {named("appended"), named("uniq")}
                 ELSE IF program = "lsl" THEN {named("appended")} ELSE {}
  BY DEF Base, extra, appended
<1>5. program \in {"sts", "loom", "lst", "lsl"}
  BY <1>1 DEF Programs
<1>6. \A x \in Names :
        named(x) \in Asserts /\ named(x)[1] = x /\ named(x) \notin workload(r)
  BY <1>3 DEF Asserts, Names, named
<1>7. Put(r, a) = workload(r) \cup (Base \cup extra \cup a.q)
  BY DEF Put
<1> DEFINE N == {named(x) : x \in Names}
<1>8. Base \cup extra \cup a.q \in SUBSET N
  BY <1>2, <1>4 DEF Names
<1>9. \A e \in N : e \in Asserts /\ e[1] # "line"
  BY <1>6 DEF Names
<1>10. /\ named("query") # named("not_query") /\ named("base") # named("query")
       /\ named("base_wl") # named("query") /\ named("uniq") # named("query")
       /\ named("base_wl") # named("not_query") /\ named("uniq") # named("not_query")
       /\ named("base") # named("not_query")
       /\ named("appended") # named("query") /\ named("appended") # named("not_query")
  BY DEF named
<1>11. named("base") \in Base
  BY <1>4
<1>12. program \notin {"lst", "lsl"} => named("not_query") \in Base \cup extra
  BY <1>4, <1>5
<1>13. named("query") \in Base \cup extra \cup a.q <=> named("not_query") \notin Base \cup extra \cup a.q
  BY <1>2, <1>4, <1>5, <1>10
<1> HIDE DEF N
<1>14. {e \in Put(r, a) : e[1] = "line"} = workload(r)
  BY <1>3, <1>7, <1>8, <1>9
<1>15. Put(r, a) \in SUBSET Asserts
  BY <1>3, <1>7, <1>8, <1>9
<1> QED BY <1>6, <1>7, <1>11, <1>12, <1>13, <1>14, <1>15 DEF a, Names

-----------------------------------------------------------------------------
(***************************************************************************)
(* What the invariant says of the log and of the questions.                *)
(***************************************************************************)
LEMMA SkippedFacts ==
  /\ skipped \in {0, 1}
  /\ skipped = 1 => sections # <<>> /\ skips(1)
BY DEF skipped

LEMMA RowsFromInv == RunnerInv => RowsAreVerdicts
<1> SUFFICES ASSUME RunnerInv, NEW n \in 1 .. Len(log), NEW r, r = log[n].wl
             PROVE  /\ r = n + skipped
                    /\ log[n].res = "SAT" => said(r, "not_query", "sat")
                    /\ log[n].res = "UNSAT" \/ (program \in {"lst", "lsl"} /\ log[n].res # "SAT") =>
                         said(r, "not_query", "unsat") /\ (program = "lst" => said(r, "query", "sat"))
                    /\ log[n].res \notin Headers => r = 1
  BY DEF RowsAreVerdicts
<1>1. /\ FileInv /\ r = n + skipped /\ r \in 1 .. Len(sections) /\ log[n].res = sections[r][1]
      /\ \A m \in 1 .. Len(asked(r)) : Answered(r, asked(r)[m])
  <2>1. PICK s \in 1 .. Len(sections) : s = n + skipped /\ Row(n, s)
    BY DEF RunnerInv, LogInv, Rows
  <2> QED BY <2>1 DEF RunnerInv, Row, Verified
<1>2. r \in 1 .. Len(sections)
  BY <1>1
<1> DEFINE res == sections[r][1]
           qs == asked(r)
<1>3. res \in Firsts /\ program \in Programs /\ (r # 1 => res \in Headers)
  BY <1>1, <1>2, SectionFacts DEF FileInv
<1>4. program # "example"
  BY <1>2 DEF RunnerInv, FileInv
<1>5. ASSUME NEW m \in 1 .. Len(qs), NEW x \in {"query", "not_query"},
             program \in {"lst", "lsl"} => qs[m].q = {named(x)},
             program \notin {"lst", "lsl"} => x = "not_query"
      PROVE  said(r, x, qs[m].expect)
  <2>1. PICK k \in 1 .. Len(answers) :
          answers[k].wl = r /\ answers[k].of = Put(r, qs[m]) /\ answers[k].ans = qs[m].expect
    BY <1>1 DEF Answered
  <2>2. named(x) \in Put(r, qs[m])
    <3>1. CASE program \in {"lst", "lsl"}
      BY <1>5, <3>1 DEF Put
    <3>2. CASE program \notin {"lst", "lsl"}
      BY <1>1, <1>2, <1>4, <1>5, <3>2, PutFacts
    <3> QED BY <3>1, <3>2
  <2> QED BY <2>1, <2>2 DEF said
<1>6. qs = questions(program, res)
  BY DEF asked
<1> HIDE DEF res, qs
<1>7. ASSUME res = "SAT" PROVE said(r, "not_query", "sat")
  <2>1. /\ 1 \in 1 .. Len(qs) /\ qs[1].expect = "sat"
        /\ program \in {"lst", "lsl"} => qs[1].q = {named("not_query")}
    BY <1>3, <1>6, <1>7, QuestionFacts
  <2>2. said(r, "not_query", qs[1].expect)
    BY <1>5, <2>1
  <2> QED BY <2>1, <2>2
<1>8. ASSUME res = "UNSAT" \/ (program \in {"lst", "lsl"} /\ res # "SAT")
      PROVE  said(r, "not_query", "unsat")
  <2>1. PICK m \in 1 .. Len(qs) :
          qs[m].expect = "unsat" /\ (program \in {"lst", "lsl"} => qs[m].q = {named("not_query")})
    BY <1>3, <1>6, <1>8, QuestionFacts
  <2>2. said(r, "not_query", qs[m].expect)
    BY <1>5, <2>1
  <2> QED BY <2>1, <2>2
<1>9. ASSUME program = "lst", res # "SAT" PROVE said(r, "query", "sat")
  <2>1. PICK m \in 1 .. Len(qs) : qs[m].expect = "sat" /\ qs[m].q = {named("query")}
    BY <1>6, <1>9, LstAsksFirst
  <2>2. said(r, "query", qs[m].expect)
    BY <1>5, <1>9, <2>1
  <2> QED BY <2>1, <2>2
<1>10. log[n].res = res
  BY <1>1 DEF res
<1>11. res = "UNSAT" => res # "SAT"
  OBVIOUS
<1> QED BY <1>1, <1>3, <1>7, <1>8, <1>9, <1>10, <1>11

LEMMA AloneFromInv == RunnerInv => AskedAlone
<1> SUFFICES ASSUME RunnerInv, NEW n \in 1 .. Len(answers)
             PROVE  LET a == answers[n]
                    IN  /\ named("base") \in a.of
                        /\ named("query") \in a.of <=> named("not_query") \notin a.of
                        /\ {e \in a.of : e[1] = "line"} = IF a.wl = 0 THEN {} ELSE workload(a.wl)
  BY DEF AskedAlone
<1>1. FileInv
  BY DEF RunnerInv
<1>2. CASE program = "example"
  <2>1. PICK x \in {"query", "not_query"} : answers[n].wl = 0 /\ answers[n].of = Base \cup {named(x)}
    BY <1>2 DEF RunnerInv, AnswersInv
  <2>2. Base = {<<"base", 0, 0>>, <<"base_wl", 0, 0>>}
    BY <1>2 DEF Base, named
  <2>3. answers[n].of = {<<"base", 0, 0>>, <<"base_wl", 0, 0>>, <<x, 0, 0>>}
    BY <2>1, <2>2 DEF named
  <2>4. named("query") = <<"query", 0, 0>> /\ named("not_query") = <<"not_query", 0, 0>>
        /\ named("base") = <<"base", 0, 0>>
    BY DEF named
  <2>5. <<"query", 0, 0>> # <<"not_query", 0, 0>>
    OBVIOUS
  <2>6. \A e \in answers[n].of : e[1] # "line"
    BY <2>3
  <2>7. <<"query", 0, 0>> \in answers[n].of <=> x = "query"
    BY <2>3
  <2>8. <<"not_query", 0, 0>> \in answers[n].of <=> x = "not_query"
    BY <2>3
  <2> QED BY <2>1, <2>3, <2>4, <2>6, <2>7, <2>8
<1>3. CASE program # "example"
  <2>1. PICK r \in 1 .. Len(sections) : answers[n].wl = r /\
          \E m \in 1 .. Len(asked(r)) : answers[n].of = Put(r, asked(r)[m])
    BY <1>3 DEF RunnerInv, AnswersInv
  <2>2. r # 0
    BY <1>1 DEF FileInv
  <2> QED BY <1>1, <1>3, <2>1, <2>2, PutFacts
<1> QED BY <1>2, <1>3

LEMMA CompleteFromInv == RunnerInv => DoneIsComplete
<1> SUFFICES ASSUME RunnerInv, pc = "done", program # "example"
             PROVE  Len(log) + skipped = Len(sections) /\ Len(FlattenSeq(sections)) = lines /\ Len(stack) = 1
  BY DEF DoneIsComplete
<1>1. Len(sections) \in Nat
  BY DEF RunnerInv, FileInv
<1>2. Len(log) + skipped = Len(sections)
  <2>1. i = Len(sections) + 1 /\ Len(log) = IF i = 1 THEN 0 ELSE i - 1 - skipped
    BY <1>1 DEF RunnerInv, LogInv
  <2>2. CASE i = 1
    <3>1. sections = <<>>
      BY <1>1, <2>1, <2>2 DEF RunnerInv, FileInv
    <3>2. skipped = 0
      BY <3>1 DEF skipped
    <3> QED BY <1>1, <2>1, <2>2, <3>2
  <2>3. CASE i # 1
    BY <1>1, <2>1, <2>3, SkippedFacts
  <2> QED BY <2>2, <2>3
<1> QED BY <1>2 DEF RunnerInv, FileInv, FramesInv

-----------------------------------------------------------------------------
(***************************************************************************)
(* What the steps have in common.                                          *)
(***************************************************************************)
\* Nothing but the program and the sections decides what is asked.
LEMMA SameQuestions ==
  ASSUME program' = program, sections' = sections
  PROVE  /\ Base' = Base /\ extra' = extra
         /\ skipped' = skipped /\ \A r : skips(r)' = skips(r)
         /\ \A r : asked(r)' = asked(r) /\ workload(r)' = workload(r)
         /\ \A r, a : Put(r, a)' = Put(r, a)
<1>1. Base' = Base /\ extra' = extra
  BY DEF Base, extra, appended
<1>2. \A r : asked(r)' = asked(r) /\ workload(r)' = workload(r)
  BY DEF asked, workload
<1>3. skipped' = skipped /\ \A r : skips(r)' = skips(r)
  BY DEF skipped, skips
<1> QED BY <1>1, <1>2, <1>3 DEF Put

LEMMA KeepsAnswers ==
  ASSUME AnswersInv, program' = program, sections' = sections, answers' = answers,
         pc' \in {"read", "first"} => pc \in {"read", "first"}
  PROVE  AnswersInv'
<1>1. /\ Base' = Base /\ \A r : asked(r)' = asked(r)
      /\ \A r, a : Put(r, a)' = Put(r, a)
  BY SameQuestions
<1> QED BY <1>1 DEF AnswersInv

\* What was answered stays answered.
LEMMA StaysAnswered ==
  ASSUME AnswersInv, program' = program, sections' = sections,
         answers' = answers \/ \E a \in AnswerSet : answers' = Append(answers, a)
  PROVE  \A r, a : Answered(r, a) => Answered(r, a)'
<1>1. \A r, a : Put(r, a)' = Put(r, a)
  BY SameQuestions
<1>2. \A n \in 1 .. Len(answers) : n \in 1 .. Len(answers') /\ answers'[n] = answers[n]
  <2>1. answers \in Seq(AnswerSet)
    BY DEF AnswersInv
  <2>2. ASSUME NEW a \in AnswerSet, answers' = Append(answers, a), NEW n \in 1 .. Len(answers)
        PROVE  n \in 1 .. Len(answers') /\ answers'[n] = answers[n]
    <3>1. Len(answers') = Len(answers) + 1 /\ answers'[n] = answers[n] /\ Len(answers) \in Nat
      BY <2>1, <2>2
    <3> QED BY <3>1
  <2> QED BY <2>2
<1> SUFFICES ASSUME NEW r, NEW a, Answered(r, a) PROVE Answered(r, a)'
  OBVIOUS
<1> QED BY <1>1, <1>2 DEF Answered

LEMMA StaysVerified ==
  ASSUME AnswersInv, program' = program, sections' = sections,
         answers' = answers \/ \E a \in AnswerSet : answers' = Append(answers, a)
  PROVE  \A s : Verified(s) => Verified(s)'
<1>1. \A r : asked(r)' = asked(r)
  BY SameQuestions
<1>2. \A r, a : Answered(r, a) => Answered(r, a)'
  BY StaysAnswered
<1> SUFFICES ASSUME NEW s, Verified(s) PROVE Verified(s)'
  OBVIOUS
<1>3. ASSUME NEW m \in 1 .. Len(asked(s)) PROVE Answered(s, asked(s)[m])'
  <2>1. Answered(s, asked(s)[m])
    BY DEF Verified
  <2> DEFINE a == asked(s)[m]
  <2>2. \A e : Answered(s, e) => Answered(s, e)'
    BY <1>2
  <2>3. asked(s)' = asked(s)
    BY <1>1
  <2> QED BY <2>1, <2>2, <2>3 DEF Answered
<1> QED BY <1>1, <1>3 DEF Verified

LEMMA KeepsRows ==
  ASSUME AnswersInv, Rows, program' = program, sections' = sections, log' = log,
         answers' = answers \/ \E a \in AnswerSet : answers' = Append(answers, a)
  PROVE  Rows'
<1>1. skipped' = skipped
  BY SameQuestions
<1>2. \A s : Verified(s) => Verified(s)'
  BY StaysVerified
<1>3. ASSUME NEW r, NEW s, Row(r, s) PROVE Row(r, s)'
  <2>1. Verified(s)'
    BY <1>2, <1>3 DEF Row
  <2> QED BY <1>3, <2>1 DEF Row
<1> QED BY <1>1, <1>3 DEF Rows

-----------------------------------------------------------------------------
(***************************************************************************)
(* The steps.                                                              *)
(***************************************************************************)
LEMMA Start == RunnerInit => RunnerInv
<1> SUFFICES ASSUME RunnerInit PROVE RunnerInv
  OBVIOUS
<1> USE DEF RunnerInit
<1>1. FileInv
  <2>1. <<>> \in Seq(Firsts) /\ <<>> \in Seq(Seq(Firsts)) /\ Len(FlattenSeq(<<>>)) = 0
    BY DEF FlattenSeq
  <2> QED BY <2>1 DEF FileInv
<1>2. FramesInv
  BY DEF FramesInv
<1>3. AnswersInv
  BY DEF AnswersInv
<1>4. LogInv
  BY DEF LogInv, Rows
<1> QED BY <1>1, <1>2, <1>3, <1>4 DEF RunnerInv

\* The section that a header or the end of the file ends.
LEMMA FlushedFacts ==
  ASSUME FileInv, pc = "read"
  PROVE  /\ flushed \in Seq(Seq(Firsts)) /\ Len(FlattenSeq(flushed)) = lines
         /\ \A r \in 1 .. Len(flushed) : flushed[r] # <<>> /\ (r # 1 => flushed[r][1] \in Headers)
<1> USE DEF FileInv, flushed
<1>1. CASE current = <<>>
  BY <1>1
<1>2. CASE current # <<>>
  <2>1. /\ flushed = Append(sections, current)
        /\ sections \in Seq(Seq(Firsts)) /\ current \in Seq(Firsts)
    BY <1>2
  <2>2. Len(FlattenSeq(flushed)) = lines
    BY <2>1, FlattenAppend
  <2>3. /\ flushed \in Seq(Seq(Firsts)) /\ Len(flushed) = Len(sections) + 1
        /\ flushed[Len(sections) + 1] = current
        /\ \A r \in 1 .. Len(sections) : flushed[r] = sections[r]
    BY <2>1, AppendProperties
  <2> HIDE DEF flushed
  <2>4. ASSUME NEW r \in 1 .. Len(flushed)
        PROVE  flushed[r] # <<>> /\ (r # 1 => flushed[r][1] \in Headers)
    <3>1. CASE r = Len(sections) + 1
      BY <1>2, <2>1, <2>3, <3>1
    <3>2. CASE r # Len(sections) + 1
      BY <2>1, <2>3, <2>4, <3>2
    <3> QED BY <3>1, <3>2
  <2> QED BY <2>2, <2>3, <2>4
<1> QED BY <1>1, <1>2

LEMMA ReadHeaderStep ==
  ASSUME RunnerInv, NEW res \in Headers, ReadHeader(res)
  PROVE  RunnerInv'
<1> USE DEF RunnerInv, ReadHeader
<1>1. /\ flushed \in Seq(Seq(Firsts)) /\ Len(FlattenSeq(flushed)) = lines
      /\ \A r \in 1 .. Len(flushed) : flushed[r] # <<>> /\ (r # 1 => flushed[r][1] \in Headers)
  BY FlushedFacts
<1>2. FileInv'
  <2>1. current' \in Seq(Firsts) /\ current' # <<>> /\ current'[1] = res /\ Len(current') = 1
    BY DEF Firsts
  <2>2. program # "example" /\ program \in Programs /\ lines \in Nat
    BY DEF FileInv
  <2>3. sections' = flushed /\ lines' = lines + 1 /\ pc' = "read" /\ program' = program
    BY DEF FileInv
  <2> QED BY <1>1, <2>1, <2>2, <2>3 DEF FileInv
<1>3. FramesInv'
  BY DEF FramesInv
<1>4. answers = <<>> /\ AnswersInv'
  BY DEF AnswersInv
<1>5. LogInv'
  <2>1. log = <<>> /\ i = 1
    BY DEF LogInv
  <2>2. Len(sections') \in Nat
    BY <1>1
  <2> QED BY <2>1, <2>2 DEF LogInv, Rows
<1> QED BY <1>2, <1>3, <1>4, <1>5

LEMMA ReadConstraintStep ==
  ASSUME RunnerInv, NEW line \in Firsts, ReadConstraint(line)
  PROVE  RunnerInv'
<1> USE DEF RunnerInv, ReadConstraint
<1>1. FileInv'
  <2>1. /\ current \in Seq(Firsts) /\ Len(FlattenSeq(sections)) + Len(current) = lines
        /\ sections # <<>> => current # <<>> /\ current[1] \in Headers
        /\ lines \in Nat /\ program # "example"
    BY DEF FileInv
  <2>2. /\ current' \in Seq(Firsts) /\ Len(current') = Len(current) + 1 /\ current' # <<>>
        /\ current # <<>> => current'[1] = current[1]
    BY <2>1 DEF Firsts
  <2>3. Len(FlattenSeq(sections)) + Len(current') = lines'
    <3>1. Len(FlattenSeq(sections)) \in Nat
      BY FlattenLoop DEF FileInv
    <3> QED BY <2>1, <2>2, <3>1
  <2> QED BY <2>1, <2>2, <2>3 DEF FileInv
<1>2. FramesInv'
  BY DEF FramesInv
<1>3. AnswersInv'
  BY DEF AnswersInv
<1>4. LogInv'
  BY DEF LogInv, Rows
<1> QED BY <1>1, <1>2, <1>3, <1>4

LEMMA ReadEndStep == RunnerInv /\ ReadEnd => RunnerInv'
<1> SUFFICES ASSUME RunnerInv, ReadEnd PROVE RunnerInv'
  OBVIOUS
<1> USE DEF RunnerInv, ReadEnd
<1>1. FileInv'
  BY FlushedFacts DEF FileInv
<1>2. FramesInv'
  <2>1. stack = <<{}>> /\ pc' = "loop" /\ Base' = Base
    BY SameQuestions DEF FramesInv, Base
  <2>2. stack' = IF program \in {"lst", "lsl"} THEN <<{}>> ELSE <<Base>>
    BY <2>1
  <2> QED BY <2>1, <2>2 DEF FramesInv
<1>3. AnswersInv'
  BY DEF AnswersInv
<1>4. LogInv'
  <2>1. log = <<>> /\ i = 1 /\ Len(sections') \in Nat
    BY <1>1 DEF LogInv, FileInv
  <2> QED BY <2>1 DEF LogInv, Rows
<1> QED BY <1>1, <1>2, <1>3, <1>4

\* Frames.
LEMMA PushOne ==
  ASSUME NEW a, NEW b
  PROVE  Append(<<a>>, b) = <<a, b>>
<1> DEFINE T == {a, b}
           s == Append(<<a>>, b)
<1>1. <<a>> \in Seq(T) /\ b \in T /\ Len(<<a>>) = 1
  OBVIOUS
<1>2. s \in Seq(T) /\ Len(s) = 2 /\ s[1] = a /\ s[2] = b
  <2> HIDE DEF T
  <2> QED BY <1>1, AppendProperties
<1>3. <<a, b>> \in Seq(T)
  OBVIOUS
<1> HIDE DEF s, T
<1>4. s = <<a, b>>
  BY <1>2, <1>3, SeqEqual
<1> QED BY <1>4 DEF s

\* Only the first section is passed over.
LEMMA SkipStep == RunnerInv /\ Skip => RunnerInv'
<1> SUFFICES ASSUME RunnerInv, Skip PROVE RunnerInv'
  OBVIOUS
<1> USE DEF RunnerInv, Skip, file
<1>1. /\ pc = "loop" /\ pc' = "loop" /\ i <= Len(sections) /\ skips(i) /\ i' = i + 1
      /\ program' = program /\ sections' = sections /\ lines' = lines /\ current' = current
      /\ stack' = stack /\ log' = log /\ answers' = answers
  OBVIOUS
<1>2. i = 1 /\ sections # <<>>
  <2>1. i \in 1 .. Len(sections)
    BY <1>1 DEF LogInv, FileInv
  <2>2. sections[i][1] = "SKIP"
    BY <1>1 DEF skips
  <2>3. sections[i][1] \notin Headers
    BY <2>2 DEF Headers
  <2> QED BY <2>1, <2>3 DEF FileInv
<1>3. FileInv'
  BY <1>1 DEF FileInv
<1>4. FramesInv'
  <2>1. Base' = Base
    BY <1>1, SameQuestions
  <2> QED BY <1>1, <2>1 DEF FramesInv
<1>5. AnswersInv'
  BY <1>1, KeepsAnswers
<1>6. LogInv'
  <2>1. Rows'
    BY <1>1, KeepsRows DEF LogInv
  <2>2. skipped = 1 /\ skipped' = skipped
    BY <1>1, <1>2, SameQuestions DEF skipped
  <2>3. Len(log') = 0 /\ i' = 2 /\ i' <= Len(sections') + 1
    BY <1>1, <1>2 DEF LogInv
  <2>4. log' \in Seq([wl : Nat, res : Firsts])
    BY <1>1 DEF LogInv
  <2> QED BY <1>1, <2>1, <2>2, <2>3, <2>4 DEF LogInv
<1> QED BY <1>3, <1>4, <1>5, <1>6

LEMMA PushAndParseStep == RunnerInv /\ PushAndParse => RunnerInv'
<1> SUFFICES ASSUME RunnerInv, PushAndParse PROVE RunnerInv'
  OBVIOUS
<1> USE DEF RunnerInv, PushAndParse, file
<1>1. /\ pc = "loop" /\ pc' = "check" /\ program' = program /\ sections' = sections
      /\ answers' = answers /\ log' = log /\ i' = i
  OBVIOUS
<1>2. /\ Base' = Base /\ extra' = extra
      /\ \A r : asked(r)' = asked(r) /\ workload(r)' = workload(r)
  BY <1>1, SameQuestions
<1>3. FileInv'
  BY DEF FileInv
<1>4. FramesInv'
  <2>1. program \notin {"lst", "lsl"} => stack = <<Base>>
    BY DEF FramesInv
  <2>2. stack' = Append(<<Base>>, workload(i) \cup extra)
    BY <2>1
  <2>3. stack' = <<Base, workload(i) \cup extra>>
    BY <2>2, PushOne
  <2>4. workload(i)' = workload(i)
    BY <1>1 DEF workload
  <2> QED BY <1>1, <1>2, <2>3, <2>4 DEF FramesInv
<1>5. AnswersInv'
  BY <1>1, KeepsAnswers
<1>6. LogInv'
  <2>1. Rows'
    BY <1>1, KeepsRows DEF LogInv
  <2>2. i <= Len(sections) /\ ~skips(i) /\ todo' = asked(i)
    BY DEF asked
  <2>3. asked(i) \in Seq([q : SUBSET Asserts, expect : Answers])
    <3>1. program \in Programs /\ i \in 1 .. Len(sections) /\ FileInv
      BY <2>2 DEF LogInv, FileInv
    <3>2. sections[i][1] \in Firsts
      BY ONLY <3>1, SectionFacts
    <3> QED BY ONLY <3>1, <3>2, QuestionFacts DEF asked
  <2>4. 0 \in 0 .. Len(asked(i)) /\ todo' = SubSeq(asked(i), 0 + 1, Len(asked(i)))
    BY <2>2, <2>3, SubSeqFull
  <2>5. asked(i)' = asked(i)
    BY <1>1 DEF asked
  <2>6. (\E n \in 0 .. Len(asked(i)) :
           /\ todo = SubSeq(asked(i), n + 1, Len(asked(i)))
           /\ \A m \in 1 .. n : Answered(i, asked(i)[m]))'
    BY <1>1, <2>4, <2>5
  <2>7. skipped' = skipped /\ ~skips(i)'
    BY <1>1, <2>2, SameQuestions DEF skips
  <2> QED BY <1>1, <2>1, <2>2, <2>6, <2>7 DEF LogInv
<1> QED BY <1>3, <1>4, <1>5, <1>6

LEMMA PopOne ==
  ASSUME NEW a, NEW b
  PROVE  SubSeq(<<a, b>>, 1, Len(<<a, b>>) - 1) = <<a>>
<1> DEFINE T == {a, b}
           s == SubSeq(<<a, b>>, 1, 1)
<1>1. s \in Seq(T) /\ Len(s) = 1 /\ s[1] = a
  OBVIOUS
<1>2. <<a>> \in Seq(T) /\ Len(<<a>>) = 1
  OBVIOUS
<1>3. SubSeq(<<a, b>>, 1, Len(<<a, b>>) - 1) = s
  OBVIOUS
<1> HIDE DEF s, T
<1>4. s = <<a>>
  BY <1>1, <1>2, SeqEqual
<1> QED BY <1>3, <1>4

\* A section that is being checked has a next question, unless none is left to ask.
LEMMA CheckFacts ==
  ASSUME RunnerInv, pc = "check"
  PROVE  /\ program # "example" /\ i \in 1 .. Len(sections)
         /\ asked(i) \in Seq([q : SUBSET Asserts, expect : Answers])
         /\ \E n \in 0 .. Len(asked(i)) :
              /\ \A m \in 1 .. n : Answered(i, asked(i)[m])
              /\ IF todo = <<>> THEN n = Len(asked(i))
                 ELSE /\ n + 1 \in 1 .. Len(asked(i)) /\ Head(todo) = asked(i)[n + 1]
                      /\ Tail(todo) = SubSeq(asked(i), (n + 1) + 1, Len(asked(i)))
<1>1. program # "example" /\ i \in 1 .. Len(sections) /\ FileInv
  BY DEF RunnerInv, LogInv, FileInv
<1>2. asked(i) \in Seq([q : SUBSET Asserts, expect : Answers])
  <2>1. program \in Programs /\ sections[i][1] \in Firsts
    BY <1>1, SectionFacts DEF FileInv
  <2> QED BY ONLY <2>1, QuestionFacts DEF asked
<1>3. PICK n \in 0 .. Len(asked(i)) :
        /\ todo = SubSeq(asked(i), n + 1, Len(asked(i)))
        /\ \A m \in 1 .. n : Answered(i, asked(i)[m])
  BY DEF RunnerInv, LogInv
<1> DEFINE s == asked(i)
<1> HIDE DEF s
<1>4. Len(s) \in Nat /\ s \in Seq([q : SUBSET Asserts, expect : Answers]) /\ n \in 0 .. Len(s)
  BY <1>2 DEF s
<1>5. todo = SubSeq(s, n + 1, Len(s))
  BY <1>3 DEF s
<1>6. CASE n = Len(s)
  <2>1. todo = <<>>
    BY <1>4, <1>5, <1>6, SubSeqEmpty
  <2> QED BY <1>1, <1>2, <1>3, <1>6, <2>1 DEF s
<1>7. CASE n # Len(s)
  <2>1. n + 1 \in 1 .. Len(s) /\ Len(s) \in n + 1 .. Len(s)
    BY <1>4, <1>7
  <2>2. Head(todo) = s[n + 1] /\ Tail(todo) = SubSeq(s, (n + 1) + 1, Len(s))
    BY <1>4, <1>5, <2>1, HeadTailOfSubSeq
  <2>3. Len(todo) = Len(s) - n
    <3>1. \A m \in n + 1 .. Len(s) : s[m] \in [q : SUBSET Asserts, expect : Answers]
      <4>1. \A m \in n + 1 .. Len(s) : m \in 1 .. Len(s)
        BY <1>4
      <4> QED BY <1>4, <4>1, ElementOfSeq
    <3>2. Len(SubSeq(s, n + 1, Len(s))) = Len(s) - (n + 1) + 1
      BY <1>4, <2>1, <3>1, SubSeqProperties
    <3> QED BY <1>4, <1>5, <3>2
  <2>4. todo # <<>>
    BY <1>4, <1>7, <2>3
  <2> QED BY <1>1, <1>2, <1>3, <2>1, <2>2, <2>4 DEF s
<1> QED BY <1>6, <1>7

LEMMA CheckStep ==
  ASSUME RunnerInv, NEW ans \in Answers, Check(ans)
  PROVE  RunnerInv'
<1> USE DEF RunnerInv, file
<1>1. /\ pc = "check" /\ todo # <<>> /\ program' = program /\ sections' = sections
      /\ lines' = lines /\ current' = current /\ stack' = stack /\ log' = log /\ i' = i
      /\ todo' = Tail(todo) /\ pc' = verdict(ans, Head(todo).expect)
      /\ answers' = Append(answers, [wl |-> i, of |-> asserted \cup Head(todo).q, ans |-> ans])
  BY DEF Check
<1>2. program # "example" /\ i \in 1 .. Len(sections)
  BY <1>1, CheckFacts
<1>3. PICK n \in 0 .. Len(asked(i)) :
        /\ \A m \in 1 .. n : Answered(i, asked(i)[m])
        /\ n + 1 \in 1 .. Len(asked(i)) /\ Head(todo) = asked(i)[n + 1]
        /\ Tail(todo) = SubSeq(asked(i), (n + 1) + 1, Len(asked(i)))
  BY <1>1, CheckFacts
<1>4. pc' \in {"check", "diagnose", "aborted"} /\ (pc' = "check" => ans = Head(todo).expect)
  BY <1>1 DEF verdict
<1>5. /\ Base' = Base /\ extra' = extra /\ \A r : asked(r)' = asked(r)
      /\ \A r, a : Put(r, a)' = Put(r, a)
  BY <1>1, SameQuestions
<1> DEFINE q == asked(i)[n + 1]
           a == [wl |-> i, of |-> Put(i, q), ans |-> ans]
<1>6. asserted = Base \cup workload(i) \cup extra
  <2>1. stack = <<Base, workload(i) \cup extra>>
    BY <1>1 DEF FramesInv
  <2>2. Len(stack) = 2 /\ stack[1] = Base /\ stack[2] = workload(i) \cup extra
    BY <2>1
  <2>3. 1 .. Len(stack) = {1, 2}
    BY <2>2
  <2> QED BY <2>2, <2>3 DEF asserted
<1>7. answers' = Append(answers, a)
  BY <1>1, <1>3, <1>6 DEF Put
<1>8. FileInv /\ Put(i, q) \in SUBSET Asserts
  BY <1>2, <1>3, PutFacts
<1>9. a \in AnswerSet
  BY <1>2, <1>8 DEF AnswerSet, LogInv
<1>10. /\ answers \in Seq(AnswerSet) /\ answers' \in Seq(AnswerSet)
       /\ Len(answers') = Len(answers) + 1 /\ answers'[Len(answers) + 1] = a
       /\ \A m \in 1 .. Len(answers) : answers'[m] = answers[m]
  <2>1. answers \in Seq(AnswerSet)
    BY DEF AnswersInv
  <2> HIDE DEF a
  <2> QED BY <1>7, <1>9, <2>1, AppendProperties
<1> HIDE DEF a
<1>11. FileInv'
  BY <1>1, <1>2, <1>4 DEF FileInv
<1>12. FramesInv'
  <2>1. workload(i)' = workload(i)
    BY <1>1 DEF workload
  <2> QED BY <1>1, <1>4, <1>5, <2>1 DEF FramesInv
<1>13. AnswersInv'
  <2>1. ASSUME NEW m \in 1 .. Len(answers')
        PROVE  /\ answers'[m].wl \in 1 .. Len(sections)
               /\ \E k \in 1 .. Len(asked(answers'[m].wl)) :
                    answers'[m].of = Put(answers'[m].wl, asked(answers'[m].wl)[k])
    <3>1. CASE m = Len(answers) + 1
      <4>1. answers'[m].wl = i /\ answers'[m].of = Put(i, asked(i)[n + 1])
        BY <1>10, <3>1 DEF a
      <4> QED BY <1>2, <1>3, <4>1
    <3>2. CASE m # Len(answers) + 1
      <4>1. m \in 1 .. Len(answers) /\ answers'[m] = answers[m]
        BY <1>10, <3>2
      <4> QED BY <1>2, <4>1 DEF AnswersInv
    <3> QED BY <3>1, <3>2
  <2> QED BY <1>1, <1>2, <1>4, <1>5, <1>10, <2>1 DEF AnswersInv
<1>14. LogInv'
  <2>1. Rows'
    BY <1>1, <1>7, <1>9, KeepsRows DEF LogInv
  <2>2. ASSUME pc' = "check" PROVE \A m \in 1 .. n + 1 : Answered(i, asked(i)[m])'
    <3>1. ASSUME NEW m \in 1 .. n PROVE Answered(i, asked(i)[m])'
      <4>1. \A r, e : Answered(r, e) => Answered(r, e)'
        BY <1>1, <1>7, <1>9, StaysAnswered
      <4>2. Answered(i, asked(i)[m])
        BY <1>3
      <4> QED BY <1>1, <1>5, <4>1, <4>2 DEF Answered
    <3>2. Answered(i, asked(i)[n + 1])'
      <4>1. ans = q.expect
        BY <1>3, <1>4, <2>2
      <4>2. Len(answers) + 1 \in 1 .. Len(answers')
        BY <1>10
      <4>3. /\ answers'[Len(answers) + 1].wl = i /\ answers'[Len(answers) + 1].of = Put(i, q)
            /\ answers'[Len(answers) + 1].ans = q.expect
        BY <1>10, <4>1 DEF a
      <4>4. q' = q /\ Put(i, q)' = Put(i, q)
        BY <1>1, <1>5 DEF asked, Put, workload
      <4> QED BY <1>1, <4>2, <4>3, <4>4 DEF Answered
    <3> QED BY <3>1, <3>2
  <2>3. pc' = "check" =>
          /\ i' <= Len(sections') /\ ~skips(i)'
          /\ (\E k \in 0 .. Len(asked(i)) :
                /\ todo = SubSeq(asked(i), k + 1, Len(asked(i)))
                /\ \A m \in 1 .. k : Answered(i, asked(i)[m]))'
    <3>1. asked(i)' = asked(i)
      BY <1>1 DEF asked
    <3>2. n + 1 \in 0 .. Len(asked(i))
      BY <1>3
    <3>3. todo' = SubSeq(asked(i)', (n + 1) + 1, Len(asked(i)'))
      BY <1>1, <1>3, <3>1
    <3> DEFINE A(k) == \A m \in 1 .. k : Answered(i, asked(i)[m])
    <3>4. pc' = "check" => A(n + 1)'
      BY <2>2
    <3> HIDE DEF A
    <3>5. pc' = "check" => (\E k \in 0 .. Len(asked(i)) :
                              todo = SubSeq(asked(i), k + 1, Len(asked(i))) /\ A(k))'
      BY <3>1, <3>2, <3>3, <3>4
    <3>6. i' <= Len(sections') /\ ~skips(i)'
      <4>1. ~skips(i)
        BY <1>1 DEF LogInv
      <4> QED BY <1>1, <1>2, <4>1 DEF skips
    <3> QED BY <3>5, <3>6 DEF A
  <2>4. skipped' = skipped
    BY <1>1, SameQuestions
  <2> QED BY <1>1, <1>4, <2>1, <2>3, <2>4 DEF LogInv
<1> QED BY <1>11, <1>12, <1>13, <1>14

LEMMA DiagnoseStep ==
  ASSUME RunnerInv, NEW ans \in Answers, Diagnose(ans)
  PROVE  RunnerInv'
<1> USE DEF RunnerInv, file
<1>1. /\ pc = "diagnose" /\ pc' \in {"exited", "aborted"}
      /\ program' = program /\ sections' = sections /\ lines' = lines /\ current' = current
      /\ stack' = stack /\ log' = log /\ i' = i /\ answers' = answers
  BY DEF Diagnose
<1>2. FileInv'
  BY <1>1 DEF FileInv
<1>3. FramesInv'
  BY <1>1 DEF FramesInv
<1>4. AnswersInv'
  BY <1>1, KeepsAnswers
<1>5. LogInv'
  <2>1. Rows'
    BY <1>1, KeepsRows DEF LogInv
  <2>2. skipped' = skipped
    BY <1>1, SameQuestions
  <2> QED BY <1>1, <2>1, <2>2 DEF LogInv
<1> QED BY <1>2, <1>3, <1>4, <1>5

LEMMA LogAndPopStep == RunnerInv /\ LogAndPop => RunnerInv'
<1> SUFFICES ASSUME RunnerInv, LogAndPop PROVE RunnerInv'
  OBVIOUS
<1> USE DEF RunnerInv, file
<1>1. /\ pc = "check" /\ pc' = "loop" /\ todo = <<>>
      /\ program' = program /\ sections' = sections /\ lines' = lines /\ current' = current
      /\ stack' = popped /\ i' = i + 1 /\ answers' = answers
      /\ log' = Append(log, [wl |-> i, res |-> sections[i][1]])
  BY DEF LogAndPop
<1>2. /\ program # "example" /\ i \in 1 .. Len(sections)
      /\ \A m \in 1 .. Len(asked(i)) : Answered(i, asked(i)[m])
  BY <1>1, CheckFacts
<1>3. Base' = Base /\ \A r : asked(r)' = asked(r)
  BY <1>1, SameQuestions
<1>4. FileInv'
  BY <1>1, <1>2 DEF FileInv
<1>5. FramesInv'
  <2>1. stack = <<Base, workload(i) \cup extra>>
    BY <1>1 DEF FramesInv
  <2>2. stack' = <<Base>>
    BY <1>1, <2>1, PopOne DEF popped
  <2> QED BY <1>1, <1>3, <2>2 DEF FramesInv
<1>6. AnswersInv'
  BY <1>1, KeepsAnswers
<1>7. LogInv'
  <2> DEFINE row == [wl |-> i, res |-> sections[i][1]]
  <2>1. /\ log \in Seq([wl : Nat, res : Firsts])
        /\ row \in [wl : Nat, res : Firsts] /\ row.wl = i /\ row.res = sections[i][1]
    BY <1>2, SectionFacts DEF LogInv
  <2> HIDE DEF row
  <2>2. /\ log' \in Seq([wl : Nat, res : Firsts]) /\ Len(log') = Len(log) + 1
        /\ log'[Len(log) + 1] = row /\ \A r \in 1 .. Len(log) : log'[r] = log[r]
    BY <1>1, <2>1, AppendProperties DEF row
  <2>3. Len(log) \in Nat /\ i = Len(log) + 1 + skipped /\ i \in Nat
    <3>1. ~skips(i) /\ i \in Nat \ {0} /\ Len(log) = IF i = 1 THEN 0 ELSE i - 1 - skipped
      BY <1>1 DEF LogInv
    <3>2. i = 1 => skipped = 0
      BY <3>1, SkippedFacts
    <3> QED BY <2>1, <3>1, <3>2, SkippedFacts
  <2>4. skipped' = skipped /\ skipped \in {0, 1}
    BY <1>1, SameQuestions, SkippedFacts
  <2>5. \A s : Verified(s) => Verified(s)'
    BY <1>1, StaysVerified
  <2>6. ASSUME NEW r \in 1 .. Len(log')
        PROVE  \E s \in 1 .. Len(sections) : s = r + skipped /\ Row(r, s)'
    <3>1. CASE r = Len(log) + 1
      <4>1. log'[r].wl = i /\ log'[r].res = sections[i][1]
        BY <2>1, <2>2, <3>1
      <4>2. PICK s : s = i
        OBVIOUS
      <4>3. Verified(s)'
        BY <1>2, <2>5, <4>2 DEF Verified
      <4>4. Row(r, s)'
        BY <1>1, <4>1, <4>2, <4>3 DEF Row
      <4>5. s = r + skipped
        BY <2>3, <2>4, <3>1, <4>2
      <4> QED BY <1>2, <4>2, <4>4, <4>5
    <3>2. CASE r # Len(log) + 1
      <4>1. r \in 1 .. Len(log)
        BY <2>2, <2>3, <3>2
      <4>2. PICK s \in 1 .. Len(sections) : s = r + skipped /\ Row(r, s)
        BY <4>1 DEF LogInv, Rows
      <4>3. Verified(s)'
        BY <2>5, <4>2 DEF Row
      <4>4. Row(r, s)'
        BY <1>1, <2>2, <4>1, <4>2, <4>3 DEF Row
      <4> QED BY <4>2, <4>4
    <3> QED BY <3>1, <3>2
  <2>7. Rows'
    BY <1>1, <2>4, <2>6 DEF Rows
  <2>8. i' \in Nat \ {0} /\ i' <= Len(sections') + 1 /\ Len(log') = i' - 1 - skipped' /\ i' # 1
    <3>1. i' = i + 1 /\ Len(sections') = Len(sections) /\ i <= Len(sections) /\ i \in Nat \ {0}
      BY <1>1, <1>2, <2>3
    <3>2. Len(sections) \in Nat
      BY DEF FileInv
    <3> QED BY <2>2, <2>3, <2>4, <3>1, <3>2
  <2> QED BY <1>1, <2>2, <2>7, <2>8 DEF LogInv
<1> QED BY <1>4, <1>5, <1>6, <1>7

LEMMA FinishStep == RunnerInv /\ Finish => RunnerInv'
<1> SUFFICES ASSUME RunnerInv, Finish PROVE RunnerInv'
  OBVIOUS
<1> USE DEF RunnerInv, file
<1>1. /\ pc = "loop" /\ pc' = "done" /\ i > Len(sections)
      /\ program' = program /\ sections' = sections /\ lines' = lines /\ current' = current
      /\ stack' = stack /\ log' = log /\ i' = i /\ answers' = answers
  BY DEF Finish
<1>2. FileInv'
  BY <1>1 DEF FileInv
<1>3. FramesInv'
  BY <1>1 DEF FramesInv
<1>4. AnswersInv'
  BY <1>1, KeepsAnswers
<1>5. LogInv'
  <2>1. Rows'
    BY <1>1, KeepsRows DEF LogInv
  <2>2. skipped' = skipped
    BY <1>1, SameQuestions
  <2> QED BY <1>1, <2>1, <2>2 DEF LogInv
<1> QED BY <1>2, <1>3, <1>4, <1>5

\* One more answer in the example.
LEMMA ExampleAnswers ==
  ASSUME AnswersInv, program = "example", program' = program, pc' \notin {"read", "first"},
         NEW x \in {"query", "not_query"}, NEW ans \in Answers,
         answers' = Append(answers, [wl |-> 0, of |-> Base \cup {named(x)}, ans |-> ans])
  PROVE  AnswersInv'
<1> DEFINE a == [wl |-> 0, of |-> Base \cup {named(x)}, ans |-> ans]
<1>1. Base = {named("base"), named("base_wl")} /\ Base' = Base
  BY DEF Base
<1>2. a \in AnswerSet
  BY <1>1 DEF AnswerSet, Asserts, Names
<1>3. answers \in Seq(AnswerSet)
  BY DEF AnswersInv
<1>4. a.wl = 0 /\ a.of = Base \cup {named(x)}
  OBVIOUS
<1> HIDE DEF a
<1>5. /\ answers' \in Seq(AnswerSet) /\ Len(answers') = Len(answers) + 1
      /\ answers'[Len(answers) + 1] = a
      /\ \A m \in 1 .. Len(answers) : answers'[m] = answers[m]
  BY <1>2, <1>3, AppendProperties DEF a
<1>6. ASSUME NEW n \in 1 .. Len(answers')
      PROVE  /\ answers'[n].wl = 0
             /\ \E y \in {"query", "not_query"} : answers'[n].of = Base \cup {named(y)}
  <2>1. CASE n = Len(answers) + 1
    BY <1>4, <1>5, <2>1
  <2>2. CASE n # Len(answers) + 1
    <3>1. n \in 1 .. Len(answers)
      BY <1>3, <1>5, <2>2
    <3> QED BY <1>5, <3>1 DEF AnswersInv
  <2> QED BY <2>1, <2>2
<1> QED BY <1>1, <1>5, <1>6 DEF AnswersInv

LEMMA QuerySatStep ==
  ASSUME RunnerInv, NEW ans \in Answers, check_wl_and_query_sat(ans)
  PROVE  RunnerInv'
<1> USE DEF RunnerInv, file
<1> DEFINE w == Base \cup {named("query")}
           frame == Append(stack, w)
<1>1. /\ pc = "first" /\ pc' = (IF ans = "sat" THEN "second" ELSE "aborted")
      /\ program' = program /\ sections' = sections /\ lines' = lines /\ current' = current
      /\ log' = log /\ i' = i
      /\ stack' = IF ans = "sat" THEN SubSeq(frame, 1, Len(frame) - 1) ELSE frame
      /\ answers' = Append(answers, [wl |-> 0, of |-> UNION {frame[f] : f \in 1 .. Len(frame)},
                                     ans |-> ans])
  BY DEF check_wl_and_query_sat
<1>2. program = "example" /\ stack = <<{}>>
  BY <1>1 DEF FileInv, FramesInv
<1>3. frame = <<{}, w>>
  BY <1>2, PushOne
<1>4. UNION {frame[f] : f \in 1 .. Len(frame)} = w
  <2>1. Len(frame) = 2 /\ frame[1] = {} /\ frame[2] = w
    <3> HIDE DEF frame, w
    <3> QED BY <1>3
  <2>2. 1 .. Len(frame) = {1, 2}
    BY <2>1
  <2> HIDE DEF frame, w
  <2> QED BY <2>1, <2>2
<1>5. answers' = Append(answers, [wl |-> 0, of |-> w, ans |-> ans])
  BY <1>1, <1>4
<1>6. FileInv'
  BY <1>1, <1>2 DEF FileInv
<1>7. FramesInv'
  <2>1. pc' = "second" => stack' = <<{}>>
    <3> HIDE DEF w
    <3>1. SubSeq(<<{}, w>>, 1, Len(<<{}, w>>) - 1) = <<{}>>
      BY PopOne
    <3> HIDE DEF frame
    <3> QED BY <1>1, <1>3, <3>1
  <2> QED BY <1>1, <1>2, <2>1 DEF FramesInv
<1>8. AnswersInv'
  BY <1>1, <1>2, <1>5, ExampleAnswers
<1>9. LogInv'
  <2>1. log' = <<>> /\ i' = 1
    BY <1>1, <1>2 DEF LogInv, FileInv
  <2> QED BY <1>1, <1>2, <2>1 DEF LogInv, Rows
<1> QED BY <1>6, <1>7, <1>8, <1>9

LEMMA NotQueryUnsatStep ==
  ASSUME RunnerInv, NEW ans \in Answers, check_wl_and_not_query_unsat(ans)
  PROVE  RunnerInv'
<1> USE DEF RunnerInv, file
<1>1. /\ pc = "second" /\ pc' \in {"done", "aborted"}
      /\ program' = program /\ sections' = sections /\ lines' = lines /\ current' = current
      /\ log' = log /\ i' = i
      /\ answers' = Append(answers, [wl |-> 0, of |-> asserted \cup Base \cup {named("not_query")},
                                     ans |-> ans])
  BY DEF check_wl_and_not_query_unsat
<1>2. program = "example" /\ stack = <<{}>>
  BY <1>1 DEF FileInv, FramesInv
<1>3. asserted = {}
  BY <1>2 DEF asserted
<1>4. answers' = Append(answers, [wl |-> 0, of |-> Base \cup {named("not_query")}, ans |-> ans])
  BY <1>1, <1>3
<1>5. FileInv'
  BY <1>1, <1>2 DEF FileInv
<1>6. FramesInv'
  BY <1>1, <1>2 DEF FramesInv
<1>7. AnswersInv'
  BY <1>1, <1>2, <1>4, ExampleAnswers
<1>8. LogInv'
  <2>1. log' = <<>> /\ i' = 1
    BY <1>1, <1>2 DEF LogInv, FileInv
  <2> QED BY <1>1, <1>2, <2>1 DEF LogInv, Rows
<1> QED BY <1>5, <1>6, <1>7, <1>8

LEMMA Step == RunnerInv /\ [RunnerNext]_runnerVars => RunnerInv'
<1> SUFFICES ASSUME RunnerInv, [RunnerNext]_runnerVars PROVE RunnerInv'
  OBVIOUS
<1>1. CASE RunnerNext
  BY <1>1, ReadHeaderStep, ReadConstraintStep, ReadEndStep, SkipStep, PushAndParseStep, CheckStep,
     DiagnoseStep, LogAndPopStep, FinishStep, QuerySatStep, NotQueryUnsatStep DEF RunnerNext
<1>2. CASE UNCHANGED runnerVars
  <2>1. /\ program' = program /\ pc' = pc /\ lines' = lines /\ current' = current
        /\ sections' = sections /\ stack' = stack /\ i' = i /\ todo' = todo /\ log' = log
        /\ answers' = answers
    BY <1>2 DEF runnerVars, file
  <2>2. FileInv'
    BY <2>1 DEF RunnerInv, FileInv
  <2>3. FramesInv' /\ AnswersInv' /\ Rows'
    <3>1. Base' = Base /\ extra' = extra /\ workload(i)' = workload(i)
      BY <2>1, SameQuestions DEF workload
    <3> QED BY <2>1, <3>1, KeepsAnswers, KeepsRows DEF RunnerInv, FramesInv, LogInv
  <2>4. LogInv'
    <3>1. asked(i)' = asked(i) /\ \A r, a : Answered(r, a)' <=> Answered(r, a)
      BY <2>1, SameQuestions DEF asked, Answered
    <3>2. skipped' = skipped /\ skips(i)' = skips(i)
      BY <2>1, SameQuestions DEF skips
    <3> QED BY <2>1, <2>3, <3>1, <3>2 DEF RunnerInv, LogInv
  <2> QED BY <2>2, <2>3, <2>4 DEF RunnerInv
<1> QED BY <1>1, <1>2

LEMMA RunnerInvariant == RunnerSpec => []RunnerInv
BY Start, Step, PTL DEF RunnerSpec

\* A row of the log stands for answers of the solver that agree with the file, however
\* many sections it has and whatever is in them.
THEOREM RowsHold == RunnerSpec => []RowsAreVerdicts
BY RunnerInvariant, RowsFromInv, PTL

\* Every question that the programs put to the solver is put with the lines of its
\* own section, and not with the query and its negation at once.
THEOREM AskedWithOwnLines == RunnerSpec => []AskedAlone
BY RunnerInvariant, AloneFromInv, PTL

\* A program that ends normally has logged every section, except a first one that lst
\* or lsl passed over, and dropped no line of the file.
THEOREM EndsComplete == RunnerSpec => []DoneIsComplete
BY RunnerInvariant, CompleteFromInv, PTL


-----------------------------------------------------------------------------
(***************************************************************************)
(* The example's query has no witness, whatever the horizon and capacity.  *)
(***************************************************************************)
\* The limiter has sent in every second timestep at most; if its state is 0 the
\* last of them was not this one, so it has half a packet to spare.
RateInv ==
  /\ C \in [Bufs -> 0 .. c]
  /\ S \in {0, 1}
  /\ t \in Nat
  /\ sent \in Int
  /\ 2 * sent <= t + 1 + S

LEMMA BufferZero == 0 \in Bufs
BY ParamsAssumption DEF Bufs

\* In a timestep in which the limiter sends its buffer is backlogged: out does
\* not look, but the buffer cannot go below zero.
LEMMA SendsBacklogged ==
  ASSUME NEW pk \in [Bufs -> 0 .. c], NEW inp, NEW e, NEW d, NEW b, NEW o, NEW pcp,
         arrivals(pk, inp, e, d, b), departures(pk, e, o, pcp), o[0] = 1
  PROVE  b[0]
<1>1. pk[0] \in 0 .. c /\ e[0] \in 0 .. me
  BY BufferZero DEF arrivals
<1>2. pk[0] + e[0] - o[0] \in 0 .. c
  BY BufferZero DEF departures, remaining
<1>3. pk[0] + e[0] > 0
  BY <1>1, <1>2, ParamsAssumption
<1>4. b[0] = (pk[0] + e[0] > 0)
  BY BufferZero DEF arrivals, backlogged
<1> QED BY <1>3, <1>4, Zenon

LEMMA RateInit == Init => RateInv
<1> SUFFICES ASSUME Init PROVE RateInv
  OBVIOUS
<1>1. arrivals(Empty, I, E, D, B) /\ departures(Empty, E, O, C)
  BY DEF Init
<1>2. C \in [Bufs -> 0 .. c]
  BY <1>1, EmptyType, ArrivalsType, DeparturesType
<1>3. S \in {0, 1}
  BY DEF Init, init
<1>4. t = 0 /\ sent = S
  BY <1>3 DEF Init, out
<1> QED BY <1>2, <1>3, <1>4 DEF RateInv

LEMMA RateStep == RateInv /\ [Next]_rlVars => RateInv'
<1> SUFFICES ASSUME RateInv, [Next]_rlVars PROVE RateInv'
  OBVIOUS
<1>1. CASE Next
  <2>1. arrivals(C, I', E', D', B') /\ departures(C, E', O', C')
    BY <1>1 DEF Next
  <2>2. /\ C \in [Bufs -> 0 .. c]
        /\ S \in {0, 1} /\ t \in Nat /\ sent \in Int /\ 2 * sent <= t + 1 + S
    BY DEF RateInv
  <2>3. C' \in [Bufs -> 0 .. c]
    BY <2>1, <2>2, ArrivalsType, DeparturesType
  <2>4. S' = IF B'[0] THEN 1 - S ELSE S
    BY <1>1 DEF Next, trs
  <2>5. O'[0] = (IF S' = 1 THEN 1 ELSE 0) /\ t' = t + 1 /\ sent' = sent + O'[0]
    BY <1>1 DEF Next, out
  <2>6. S' = 1 - S \/ (S' = S /\ S' # 1)
    <3>1. CASE S' = 1
      <4>1. O'[0] = 1
        BY <2>5, <3>1
      <4>2. B'[0]
        BY <2>1, <2>2, <4>1, SendsBacklogged
      <4> QED BY <2>4, <4>2
    <3>2. CASE S' # 1
      BY <2>4, <3>2
    <3> QED BY <3>1, <3>2
  <2>7. S' \in {0, 1} /\ t' \in Nat /\ sent' \in Int /\ 2 * sent' <= t' + 1 + S'
    BY <2>2, <2>5, <2>6
  <2> QED BY <2>3, <2>7 DEF RateInv
<1>2. CASE UNCHANGED rlVars
  BY <1>2 DEF RateInv, rlVars
<1> QED BY <1>1, <1>2

\* RateLimiter never sends more than one packet in every two timesteps, for
\* every horizon: in the 10 timesteps of the example no traffic gets more than 5
\* packets through.
THEOREM NeverFaster == Spec => []RateLimited
<1>1. RateInv => RateLimited
  BY DEF RateInv, RateLimited
<1> QED BY <1>1, RateInit, RateStep, PTL DEF Spec
=============================================================================
