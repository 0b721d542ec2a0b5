--------------------------- MODULE SolverTasksProofs ---------------------------
(****************************************************************************)
(* For any horizon, settings and order of calls: no work is offered under a *)
(* process ID that was used before, unless GNMS runs without line search.   *)
(****************************************************************************)
EXTENDS SolverTasks, SequenceTheorems, TLAPS

Tasks == {"ROLLOUT_SHOTS", "COMPUTE_LQ_PROBLEM", "LINE_SEARCH"}
OpNames == Tasks \cup {"COUNT_LQP", "ITERATE"}
Operations == [op : OpNames, first : Int, last : Int]

\* The tasks a call can begin with.  iLQR rolls out only without line search,
\* in place of it.
Opening == IF Algorithm = "GNMS" THEN {"ROLLOUT_SHOTS", "COMPUTE_LQ_PROBLEM"}
                                 ELSE {"COMPUTE_LQ_PROBLEM"}

--------------------------------------------------------------------------------
(***************************************************************************)
(* Calls                                                                   *)
(***************************************************************************)

CountedBetween(ops, j, k) == \E m \in DOMAIN ops : j < m /\ m < k /\ ops[m] = CountLQP

\* Between two offers of a task a counter goes up.
Separated(ops) == \A j, k \in DOMAIN ops :
    (j < k /\ Parallel(ops[j]) /\ Parallel(ops[k]) /\ ops[j].op = ops[k].op) =>
        CountedBetween(ops, j, k)

\* After a task that can open a call, a counter goes up.
Closed(ops) == \A j \in DOMAIN ops :
    (Parallel(ops[j]) /\ ops[j].op \in Opening) =>
        \E m \in DOMAIN ops : j < m /\ ops[m] = CountLQP

\* Before a task that cannot, too.
Opened(ops) == \A j \in DOMAIN ops :
    (Parallel(ops[j]) /\ ops[j].op \notin Opening) =>
        \E m \in DOMAIN ops : m < j /\ ops[m] = CountLQP

Proper(ops) == ops \in Seq(Operations) /\ Separated(ops) /\ Closed(ops) /\ Opened(ops)

(***************************************************************************)
(* A call is put together operation by operation.  Prefix: the beginning   *)
(* of a call, the tasks offered in it since the last count, and whether    *)
(* there was a count                                                       *)
(***************************************************************************)
Prefix(ops, since, counted) ==
    /\ ops \in Seq(Operations) /\ Separated(ops) /\ Opened(ops)
    /\ \A j \in DOMAIN ops : (Parallel(ops[j]) /\ ops[j].op \notin since) =>
          \E m \in DOMAIN ops : j < m /\ ops[m] = CountLQP
    /\ counted => \E m \in DOMAIN ops : ops[m] = CountLQP

LEMMA OperationTypes ==
    /\ \A m, n \in Int : /\ Rollout(m, n) \in Operations /\ Rollout(m, n).op = "ROLLOUT_SHOTS"
                         /\ Approximate(m, n) \in Operations
                         /\ Approximate(m, n).op = "COMPUTE_LQ_PROBLEM"
    /\ Search \in Operations /\ Search.op = "LINE_SEARCH"
    /\ CountLQP \in Operations /\ CountLQP.op = "COUNT_LQP"
    /\ Iterate \in Operations /\ Iterate.op = "ITERATE"
  BY DEF Rollout, Approximate, Search, CountLQP, Iterate, Op, Operations, OpNames, Tasks

LEMMA PrefixEmpty == Prefix(<<>>, {}, FALSE)
  <1>1. <<>> \in Seq(Operations) /\ DOMAIN <<>> = {}
    OBVIOUS
  <1> QED
    BY <1>1 DEF Prefix, Separated, Opened

\* What appending one operation does to a sequence
LEMMA OneMore ==
    ASSUME NEW ops \in Seq(Operations), NEW e \in Operations
    PROVE  /\ ops \o <<e>> \in Seq(Operations)
           /\ DOMAIN (ops \o <<e>>) = 1 .. Len(ops) + 1
           /\ DOMAIN ops = 1 .. Len(ops) /\ Len(ops) \in Nat
           /\ \A j \in DOMAIN ops : (ops \o <<e>>)[j] = ops[j]
           /\ (ops \o <<e>>)[Len(ops) + 1] = e
  <1>1. <<e>> \in Seq(Operations) /\ Len(<<e>>) = 1 /\ <<e>>[1] = e
    OBVIOUS
  <1>2. /\ ops \o <<e>> \in Seq(Operations) /\ Len(ops \o <<e>>) = Len(ops) + Len(<<e>>)
        /\ \A i \in 1 .. Len(ops) + Len(<<e>>) :
              (ops \o <<e>>)[i] = IF i <= Len(ops) THEN ops[i] ELSE <<e>>[i - Len(ops)]
    BY <1>1, ConcatProperties
  <1>3. Len(ops) \in Nat /\ DOMAIN ops = 1 .. Len(ops)
    BY LenProperties
  <1> QED
    BY <1>1, <1>2, <1>3

\* A task that was not offered since the last count may follow.
LEMMA PrefixOffer ==
    ASSUME NEW ops, NEW since, NEW counted \in BOOLEAN, Prefix(ops, since, counted),
           NEW e \in Operations, e.op \in Tasks, e.op \notin since,
           e.op \in Opening \/ counted
    PROVE  Prefix(ops \o <<e>>, since \cup {e.op}, counted)
  <1> DEFINE new == ops \o <<e>>
             n   == Len(ops)
  <1>1. /\ new \in Seq(Operations) /\ DOMAIN new = 1 .. n + 1 /\ DOMAIN ops = 1 .. n /\ n \in Nat
        /\ \A j \in 1 .. n : new[j] = ops[j]
        /\ new[n + 1] = e
    BY OneMore DEF Prefix
  <1> HIDE DEF new, n
  <1>2. Separated(new)
    <2> SUFFICES ASSUME NEW j \in 1 .. n + 1, NEW k \in 1 .. n + 1, j < k,
                        Parallel(new[j]), Parallel(new[k]), new[j].op = new[k].op
                 PROVE  CountedBetween(new, j, k)
      BY <1>1 DEF Separated
    <2>1. CASE k \in 1 .. n
      <3>1. CountedBetween(ops, j, k)
        BY <1>1, <2>1 DEF Prefix, Separated
      <3> QED
        BY <1>1, <3>1 DEF CountedBetween
    <2>2. CASE k = n + 1
      <3>1. j \in 1 .. n /\ Parallel(ops[j]) /\ ops[j].op \notin since
        BY <1>1, <2>2
      <3>2. PICK m \in 1 .. n : j < m /\ ops[m] = CountLQP
        BY <1>1, <3>1 DEF Prefix
      <3> QED
        BY <1>1, <2>2, <3>2 DEF CountedBetween
    <2> QED
      BY <1>1, <2>1, <2>2
  <1>3. Opened(new)
    <2> SUFFICES ASSUME NEW j \in 1 .. n + 1, Parallel(new[j]), new[j].op \notin Opening
                 PROVE  \E m \in 1 .. n + 1 : m < j /\ new[m] = CountLQP
      BY <1>1 DEF Opened
    <2>1. CASE j \in 1 .. n
      <3>1. PICK m \in 1 .. n : m < j /\ ops[m] = CountLQP
        BY <1>1, <2>1 DEF Prefix, Opened
      <3> QED
        BY <1>1, <3>1
    <2>2. CASE j = n + 1
      <3>1. PICK m \in 1 .. n : ops[m] = CountLQP
        BY <1>1, <2>2 DEF Prefix
      <3> QED
        BY <1>1, <2>2, <3>1
    <2> QED
      BY <1>1, <2>1, <2>2
  <1>4. ASSUME NEW j \in 1 .. n + 1, Parallel(new[j]), new[j].op \notin since \cup {e.op}
        PROVE  \E m \in 1 .. n + 1 : j < m /\ new[m] = CountLQP
    <2>1. j \in 1 .. n
      BY <1>1, <1>4
    <2>2. PICK m \in 1 .. n : j < m /\ ops[m] = CountLQP
      BY <1>1, <1>4, <2>1 DEF Prefix
    <2> QED
      BY <1>1, <2>2
  <1>5. counted => \E m \in 1 .. n + 1 : new[m] = CountLQP
    BY <1>1 DEF Prefix
  <1> QED
    BY <1>1, <1>2, <1>3, <1>4, <1>5 DEF Prefix, new

\* So may a counter; after lqpCounter_++ all tasks may follow.
LEMMA PrefixQuiet ==
    ASSUME NEW ops, NEW since, NEW counted \in BOOLEAN, Prefix(ops, since, counted),
           NEW e \in {CountLQP, Iterate}
    PROVE  Prefix(ops \o <<e>>, since, counted)
  <1> DEFINE new == ops \o <<e>>
             n   == Len(ops)
  <1>0. e \in Operations /\ ~Parallel(e)
    BY OperationTypes DEF Parallel
  <1>1. /\ new \in Seq(Operations) /\ DOMAIN new = 1 .. n + 1 /\ DOMAIN ops = 1 .. n /\ n \in Nat
        /\ \A j \in 1 .. n : new[j] = ops[j]
        /\ new[n + 1] = e
    BY <1>0, OneMore DEF Prefix
  <1> HIDE DEF new, n
  <1>2. ASSUME NEW j \in 1 .. n + 1, Parallel(new[j]) PROVE j \in 1 .. n /\ Parallel(ops[j])
    BY <1>0, <1>1, <1>2
  <1>3. Separated(new)
    <2> SUFFICES ASSUME NEW j \in 1 .. n + 1, NEW k \in 1 .. n + 1, j < k,
                        Parallel(new[j]), Parallel(new[k]), new[j].op = new[k].op
                 PROVE  CountedBetween(new, j, k)
      BY <1>1 DEF Separated
    <2>1. CountedBetween(ops, j, k)
      BY <1>1, <1>2 DEF Prefix, Separated
    <2> QED
      BY <1>1, <2>1 DEF CountedBetween
  <1>4. Opened(new)
    <2> SUFFICES ASSUME NEW j \in 1 .. n + 1, Parallel(new[j]), new[j].op \notin Opening
                 PROVE  \E m \in 1 .. n + 1 : m < j /\ new[m] = CountLQP
      BY <1>1 DEF Opened
    <2>1. PICK m \in 1 .. n : m < j /\ ops[m] = CountLQP
      BY <1>1, <1>2 DEF Prefix, Opened
    <2> QED
      BY <1>1, <2>1
  <1>5. ASSUME NEW j \in 1 .. n + 1, Parallel(new[j]), new[j].op \notin since
        PROVE  \E m \in 1 .. n + 1 : j < m /\ new[m] = CountLQP
    <2>1. PICK m \in 1 .. n : j < m /\ ops[m] = CountLQP
      BY <1>1, <1>2, <1>5 DEF Prefix
    <2> QED
      BY <1>1, <2>1
  <1>6. counted => \E m \in 1 .. n + 1 : new[m] = CountLQP
    BY <1>1 DEF Prefix
  <1> QED
    BY <1>1, <1>3, <1>4, <1>5, <1>6 DEF Prefix, new

LEMMA PrefixCount ==
    ASSUME NEW ops, NEW since, NEW counted \in BOOLEAN, Prefix(ops, since, counted)
    PROVE  Prefix(ops \o <<CountLQP>>, {}, TRUE)
  <1> DEFINE new == ops \o <<CountLQP>>
             n   == Len(ops)
  <1>1. /\ new \in Seq(Operations) /\ DOMAIN new = 1 .. n + 1 /\ DOMAIN ops = 1 .. n /\ n \in Nat
        /\ \A j \in 1 .. n : new[j] = ops[j]
        /\ new[n + 1] = CountLQP
    BY OperationTypes, OneMore DEF Prefix
  <1>2. Prefix(new, since, counted)
    BY PrefixQuiet
  <1> HIDE DEF new, n
  <1>3. ASSUME NEW j \in 1 .. n + 1, Parallel(new[j])
        PROVE  \E m \in 1 .. n + 1 : j < m /\ new[m] = CountLQP
    <2>1. j # n + 1
      BY <1>1, <1>3, OperationTypes DEF Parallel
    <2> QED
      BY <1>1, <2>1
  <1>4. \E m \in 1 .. n + 1 : new[m] = CountLQP
    BY <1>1
  <1> QED
    BY <1>1, <1>2, <1>3, <1>4 DEF Prefix, new

LEMMA PrefixProper ==
    ASSUME NEW ops, NEW since, NEW counted, Prefix(ops, since, counted), since \cap Opening = {}
    PROVE  Proper(ops)
  BY DEF Prefix, Proper, Closed

--------------------------------------------------------------------------------
(***************************************************************************)
(* The calls                                                               *)
(***************************************************************************)

\* One proper sequence after another is proper: what is offered in both has
\* a count after it in the first, or before it in the second.
LEMMA ProperConcat ==
    ASSUME NEW a, NEW b, Proper(a), Proper(b)
    PROVE  Proper(a \o b)
  <1> DEFINE c == a \o b
             m == Len(a)
             n == Len(b)
  <1>1. a \in Seq(Operations) /\ b \in Seq(Operations)
    BY DEF Proper
  <1>2. /\ m \in Nat /\ n \in Nat /\ DOMAIN a = 1 .. m /\ DOMAIN b = 1 .. n
        /\ c \in Seq(Operations) /\ DOMAIN c = 1 .. m + n
        /\ \A i \in 1 .. m + n : c[i] = IF i <= m THEN a[i] ELSE b[i - m]
    BY <1>1, LenProperties, ConcatProperties
  <1> HIDE DEF c, m, n
  <1>3. ASSUME NEW i \in 1 .. m PROVE i \in 1 .. m + n /\ c[i] = a[i]
    BY <1>2
  <1>4. ASSUME NEW i \in 1 .. n PROVE m + i \in 1 .. m + n /\ c[m + i] = b[i]
    BY <1>2
  <1>5. ASSUME NEW i \in 1 .. m + n, i \notin 1 .. m PROVE i - m \in 1 .. n /\ c[i] = b[i - m]
    BY <1>2, <1>5
  <1>6. Separated(c)
    <2> SUFFICES ASSUME NEW j \in 1 .. m + n, NEW k \in 1 .. m + n, j < k,
                        Parallel(c[j]), Parallel(c[k]), c[j].op = c[k].op
                 PROVE  \E p \in 1 .. m + n : j < p /\ p < k /\ c[p] = CountLQP
      BY <1>2 DEF Separated, CountedBetween
    <2>1. CASE k \in 1 .. m
      <3>1. j \in 1 .. m
        BY <1>2, <2>1
      <3>2. PICK p \in 1 .. m : j < p /\ p < k /\ a[p] = CountLQP
        <4>1. Parallel(a[j]) /\ Parallel(a[k]) /\ a[j].op = a[k].op
          BY <1>3, <2>1, <3>1
        <4>2. CountedBetween(a, j, k)
          BY <1>2, <2>1, <3>1, <4>1 DEF Proper, Separated
        <4> QED
          BY <1>2, <4>2 DEF CountedBetween
      <3> QED
        BY <1>3, <3>2
    <2>2. CASE j \notin 1 .. m
      <3>1. k \notin 1 .. m
        BY <1>2, <2>2
      <3>2. j - m \in 1 .. n /\ k - m \in 1 .. n /\ j - m < k - m
        BY <1>2, <1>5, <2>2, <3>1
      <3>3. PICK p \in 1 .. n : j - m < p /\ p < k - m /\ b[p] = CountLQP
        <4>1. Parallel(b[j - m]) /\ Parallel(b[k - m]) /\ b[j - m].op = b[k - m].op
          BY <1>5, <2>2, <3>1
        <4>2. CountedBetween(b, j - m, k - m)
          BY <1>2, <3>2, <4>1 DEF Proper, Separated
        <4> QED
          BY <1>2, <4>2 DEF CountedBetween
      <3> QED
        BY <1>2, <1>4, <3>3
    <2>3. CASE j \in 1 .. m /\ k \notin 1 .. m /\ c[j].op \in Opening
      <3>1. PICK p \in 1 .. m : j < p /\ a[p] = CountLQP
        BY <1>2, <1>3, <2>3 DEF Proper, Closed
      <3> QED
        BY <1>2, <1>3, <2>3, <3>1
    <2>4. CASE j \in 1 .. m /\ k \notin 1 .. m /\ c[k].op \notin Opening
      <3>1. PICK p \in 1 .. n : p < k - m /\ b[p] = CountLQP
        BY <1>2, <1>5, <2>4 DEF Proper, Opened
      <3>2. j < m + p /\ m + p < k
        BY <1>2, <2>4, <3>1
      <3> QED
        BY <1>4, <3>1, <3>2
    <2> QED
      BY <2>1, <2>2, <2>3, <2>4
  <1>7. Closed(c)
    <2> SUFFICES ASSUME NEW j \in 1 .. m + n, Parallel(c[j]), c[j].op \in Opening
                 PROVE  \E p \in 1 .. m + n : j < p /\ c[p] = CountLQP
      BY <1>2 DEF Closed
    <2>1. CASE j \in 1 .. m
      <3>1. PICK p \in 1 .. m : j < p /\ a[p] = CountLQP
        BY <1>2, <1>3, <2>1 DEF Proper, Closed
      <3> QED
        BY <1>3, <3>1
    <2>2. CASE j \notin 1 .. m
      <3>1. PICK p \in 1 .. n : j - m < p /\ b[p] = CountLQP
        BY <1>2, <1>5, <2>2 DEF Proper, Closed
      <3> QED
        BY <1>2, <1>4, <3>1
    <2> QED
      BY <2>1, <2>2
  <1>8. Opened(c)
    <2> SUFFICES ASSUME NEW j \in 1 .. m + n, Parallel(c[j]), c[j].op \notin Opening
                 PROVE  \E p \in 1 .. m + n : p < j /\ c[p] = CountLQP
      BY <1>2 DEF Opened
    <2>1. CASE j \in 1 .. m
      <3>1. PICK p \in 1 .. m : p < j /\ a[p] = CountLQP
        BY <1>2, <1>3, <2>1 DEF Proper, Opened
      <3> QED
        BY <1>3, <3>1
    <2>2. CASE j \notin 1 .. m
      <3>1. PICK p \in 1 .. n : p < j - m /\ b[p] = CountLQP
        BY <1>2, <1>5, <2>2 DEF Proper, Opened
      <3> QED
        BY <1>2, <1>4, <3>1
    <2> QED
      BY <2>1, <2>2
  <1> QED
    BY <1>2, <1>6, <1>7, <1>8 DEF Proper, c

\* The hypothesis of the theorem.  Without line search GNMS rolls out the
\* full step in its place, and the next call may begin with a rollout under
\* the same count.
Distinguishing == LineSearchActive \/ Algorithm = "ILQR"

LEMMA StageTypes ==
    {0, K - 1, KShot, KShot - 1} \subseteq Int /\ Algorithm \in {"ILQR", "GNMS"}
  BY SettingsAssumption

LEMMA ProperEmpty == Proper(<<>>)
  <1>1. {} \cap Opening = {}
    OBVIOUS
  <1> QED
    BY <1>1, PrefixEmpty, PrefixProper

\* What finishSolveLQProblem does to a beginning
LEMMA PrefixFinishSolve ==
    ASSUME NEW ops, NEW since, Prefix(ops, since, FALSE)
    PROVE  Prefix(ops \o FinishSolveLQProblem, {}, TRUE)
  <1> DEFINE one == <<CountLQP>>
  <1>1. Prefix(ops \o one, {}, TRUE)
    BY PrefixCount
  <1>2. Prefix((ops \o one) \o one, {}, TRUE)
    BY <1>1, PrefixCount
  <1>3. ops \in Seq(Operations) /\ one \in Seq(Operations) /\ <<>> \in Seq(Operations)
        /\ ops \o one \in Seq(Operations)
    BY <1>1, OperationTypes DEF Prefix
  <1>4. /\ (ops \o one) \o one = ops \o (one \o one)
        /\ (ops \o one) \o <<>> = ops \o (one \o <<>>)
    BY <1>3, ConcatAssociative
  <1>5. (ops \o one) \o <<>> = ops \o one
    BY <1>3, ConcatEmptySeq
  <1>6. FinishSolveLQProblem = one \o one \/ FinishSolveLQProblem = one \o <<>>
    BY DEF FinishSolveLQProblem, SolveFullLQProblem
  <1> HIDE DEF one
  <1> QED
    BY <1>1, <1>2, <1>4, <1>5, <1>6

\* The line search, or the rollout in its place, and the next iteration
LEMMA FinishedProper ==
    ASSUME Distinguishing, NEW ops, Prefix(ops, {}, TRUE)
    PROVE  Proper((ops \o LineSearch) \o <<Iterate>>)
  <1> DEFINE s == IF LineSearchActive THEN Search ELSE Rollout(0, K - 1)
  <1>1. LineSearch = <<s>>
    BY DEF LineSearch
  <1>2. s \in Operations /\ s.op \in Tasks /\ s.op \notin Opening
    BY StageTypes, OperationTypes DEF Tasks, Opening, Distinguishing
  <1> HIDE DEF s
  <1>3. Prefix(ops \o <<s>>, {s.op}, TRUE)
    <2>1. Prefix(ops \o <<s>>, {} \cup {s.op}, TRUE)
      BY <1>2, PrefixOffer
    <2> QED
      BY <2>1
  <1>4. Prefix((ops \o <<s>>) \o <<Iterate>>, {s.op}, TRUE)
    BY <1>3, PrefixQuiet
  <1>5. {s.op} \cap Opening = {}
    BY <1>2
  <1> QED
    BY <1>1, <1>4, <1>5, PrefixProper

\* The rollout and the LQ approximation with which the calls of GNMS begin
LEMMA GnmsBegins ==
    ASSUME Algorithm = "GNMS", NEW first \in Int, NEW last \in Int, NEW condition \in BOOLEAN
    PROVE  /\ Prefix(If(condition, <<Rollout(first, last)>>) \o <<Approximate(first, last)>>,
                     {"ROLLOUT_SHOTS", "COMPUTE_LQ_PROBLEM"}, FALSE)
           /\ Prefix(<<Rollout(first, last), Approximate(first, last)>>,
                     {"ROLLOUT_SHOTS", "COMPUTE_LQ_PROBLEM"}, FALSE)
  <1> DEFINE r == Rollout(first, last)
             a == Approximate(first, last)
  <1>1. /\ r \in Operations /\ a \in Operations
        /\ r.op = "ROLLOUT_SHOTS" /\ a.op = "COMPUTE_LQ_PROBLEM"
        /\ {"ROLLOUT_SHOTS", "COMPUTE_LQ_PROBLEM"} = Opening /\ Opening \subseteq Tasks
    BY OperationTypes DEF Opening, Tasks
  <1> HIDE DEF r, a
  <1>2. Prefix(<<>>, {"ROLLOUT_SHOTS"}, FALSE)
    BY PrefixEmpty DEF Prefix
  <1>3. Prefix(<<r>>, {"ROLLOUT_SHOTS"}, FALSE)
    <2>1. Prefix(<<>> \o <<r>>, {} \cup {"ROLLOUT_SHOTS"}, FALSE)
      BY <1>1, PrefixEmpty, PrefixOffer
    <2>2. <<>> \o <<r>> = <<r>>
      BY <1>1, ConcatEmptySeq
    <2> QED
      BY <2>1, <2>2
  <1>4. ASSUME NEW ops, Prefix(ops, {"ROLLOUT_SHOTS"}, FALSE)
        PROVE  Prefix(ops \o <<a>>, {"ROLLOUT_SHOTS", "COMPUTE_LQ_PROBLEM"}, FALSE)
    <2>1. Prefix(ops \o <<a>>, {"ROLLOUT_SHOTS"} \cup {a.op}, FALSE)
      BY <1>1, <1>4, PrefixOffer
    <2> QED
      BY <1>1, <2>1
  <1>5. <<r>> \o <<a>> = <<r, a>>
    <2> DEFINE c == <<r>> \o <<a>>
               d == <<r, a>>
    <2>1. <<r>> \in Seq(Operations) /\ Len(<<r>>) = 1 /\ <<r>>[1] = r /\ DOMAIN <<r>> = 1 .. 1
      BY <1>1
    <2>2. /\ c \in Seq(Operations) /\ DOMAIN c = 1 .. Len(<<r>>) + 1
          /\ \A j \in DOMAIN <<r>> : c[j] = <<r>>[j]
          /\ c[Len(<<r>>) + 1] = a
      BY <1>1, <2>1, OneMore
    <2>3. d \in Seq(Operations) /\ Len(d) = 2 /\ d[1] = r /\ d[2] = a
      BY <1>1
    <2> HIDE DEF c, d
    <2>4. Len(c) = 2 /\ c[1] = r /\ c[2] = a
      BY <2>1, <2>2, LenProperties
    <2>5. \A j \in 1 .. Len(c) : c[j] = d[j]
      BY <2>3, <2>4
    <2> QED
      BY <2>2, <2>3, <2>4, <2>5, SeqEqual DEF c, d
  <1>6. If(condition, <<r>>) \in {<<r>>, <<>>}
    BY DEF If
  <1> QED
    BY <1>2, <1>3, <1>4, <1>5, <1>6 DEF r, a

LEMMA GnmsProper ==
    ASSUME Distinguishing, Algorithm = "GNMS", NEW i \in Nat
    PROVE  Proper(Prepare(i)) /\ Proper(Finish(i)) /\ Proper(PrepareMPC(i)) /\ Proper(FinishMPC(i))
  <1> DEFINE both == {"ROLLOUT_SHOTS", "COMPUTE_LQ_PROBLEM"}
             First(c)  == If(c, <<Rollout(KShot, K - 1)>>) \o <<Approximate(KShot, K - 1)>>
             Second(c) == If(c, <<Rollout(0, KShot - 1)>>) \o <<Approximate(0, KShot - 1)>>
             first  == <<Rollout(KShot, K - 1), Approximate(KShot, K - 1)>>
             second == <<Rollout(0, KShot - 1), Approximate(0, KShot - 1)>>
  <1>1. /\ Prefix(First(i = 0), both, FALSE) /\ Prefix(first, both, FALSE)
        /\ Prefix(Second(i = 0), both, FALSE) /\ Prefix(second, both, FALSE)
    <2>1. (i = 0) \in BOOLEAN
      OBVIOUS
    <2> QED
      BY <2>1, StageTypes, GnmsBegins
  <1>2. /\ Prepare(i) = First(i = 0) \o <<CountLQP>>
        /\ PrepareMPC(i) = first \o <<CountLQP>>
        /\ Finish(i) = ((Second(i = 0) \o FinishSolveLQProblem) \o LineSearch) \o <<Iterate>>
        /\ FinishMPC(i) = (second \o FinishSolveLQProblem) \o <<Iterate>>
    BY DEF Prepare, PrepareMPC, Finish, FinishMPC, PrepareSolveLQProblem
  <1> DEFINE f == First(i = 0)
             s == Second(i = 0)
  <1> HIDE DEF First, Second, first, second, both
  <1>3. ASSUME NEW ops, Prefix(ops, both, FALSE)
        PROVE  /\ Proper(ops \o <<CountLQP>>)
               /\ Proper(((ops \o FinishSolveLQProblem) \o LineSearch) \o <<Iterate>>)
               /\ Proper((ops \o FinishSolveLQProblem) \o <<Iterate>>)
    <2>1. Prefix(ops \o <<CountLQP>>, {}, TRUE) /\ Prefix(ops \o FinishSolveLQProblem, {}, TRUE)
      BY <1>3, PrefixCount, PrefixFinishSolve
    <2>2. Prefix((ops \o FinishSolveLQProblem) \o <<Iterate>>, {}, TRUE)
      BY <2>1, PrefixQuiet
    <2>3. {} \cap Opening = {}
      OBVIOUS
    <2> QED
      BY <2>1, <2>2, <2>3, PrefixProper, FinishedProper
  <1> QED
    BY <1>1, <1>2, <1>3

LEMMA IlqrProper ==
    ASSUME Algorithm = "ILQR", NEW i \in Nat
    PROVE  /\ Proper(Prepare(i)) /\ Proper(Finish(i)) /\ Proper(PrepareMPC(i)) /\ Proper(FinishMPC(i))
  <1> DEFINE a == Approximate(0, K - 1)
  <1>1. Prepare(i) = <<>> /\ PrepareMPC(i) = <<>> /\ FinishMPC(i) = Finish(i)
    BY DEF Prepare, PrepareMPC, FinishMPC
  <1>2. Finish(i) = ((<<a>> \o <<CountLQP>>) \o LineSearch) \o <<Iterate>>
    BY DEF Finish, SolveFullLQProblem
  <1>3. a \in Operations /\ a.op = "COMPUTE_LQ_PROBLEM" /\ a.op \in Tasks /\ a.op \in Opening
    BY StageTypes, OperationTypes DEF Tasks, Opening
  <1> HIDE DEF a
  <1>4. Prefix(<<a>>, {a.op}, FALSE)
    <2>1. Prefix(<<>> \o <<a>>, {} \cup {a.op}, FALSE)
      BY <1>3, PrefixEmpty, PrefixOffer
    <2>2. <<>> \o <<a>> = <<a>>
      BY <1>3, ConcatEmptySeq
    <2> QED
      BY <2>1, <2>2
  <1>5. Prefix(<<a>> \o <<CountLQP>>, {}, TRUE)
    BY <1>4, PrefixCount
  <1> QED
    BY <1>1, <1>2, <1>5, ProperEmpty, FinishedProper DEF Distinguishing

LEMMA CallsProper ==
    ASSUME Distinguishing, NEW i \in Nat
    PROVE  /\ Proper(Iteration(i)) /\ Proper(Prepare(i)) /\ Proper(Finish(i))
           /\ Proper(PrepareMPC(i)) /\ Proper(FinishMPC(i))
  BY StageTypes, GnmsProper, IlqrProper, ProperConcat DEF Iteration

--------------------------------------------------------------------------------
(***************************************************************************)
(* The life of a solver                                                    *)
(***************************************************************************)

ProcessIds == Int \X OpNames \X Int

\* No work of this task was offered under the present count.
Unused(task) == \A p \in offered : p[2] = task => p[3] < lqpCounter

\* Only what has a count before it in the rest of the call may have been
\* offered under the present one; and by the end of the call there was a
\* count since every task that opens calls.
FreshInv ==
    /\ iteration \in Nat /\ lqpCounter \in Nat
    /\ offered \subseteq ProcessIds /\ \A p \in offered : p[3] <= lqpCounter
    /\ todo \in Seq(Operations) /\ Separated(todo) /\ Closed(todo)
    /\ \A j \in DOMAIN todo : Parallel(todo[j]) =>
          Unused(todo[j].op) \/ \E m \in DOMAIN todo : m < j /\ todo[m] = CountLQP
    /\ \A task \in Opening :
          Unused(task) \/ \E m \in DOMAIN todo : todo[m] = CountLQP

\* A new call
LEMMA CallFresh ==
    ASSUME FreshInv, todo = <<>>, Proper(todo'), UNCHANGED <<iteration, lqpCounter, offered>>
    PROVE  FreshInv'
  <1>1. \A task \in Opening : Unused(task)
    BY DEF FreshInv
  <1>2. \A task : Unused(task)' <=> Unused(task)
    BY DEF Unused
  <1>3. ASSUME NEW j \in DOMAIN todo', Parallel(todo'[j])
        PROVE  Unused(todo[j].op)' \/ \E m \in DOMAIN todo' : m < j /\ todo'[m] = CountLQP
    <2>1. CASE todo'[j].op \in Opening
      <3>1. \A p \in offered : p[2] = todo'[j].op => p[3] < lqpCounter
        BY <1>1, <2>1 DEF Unused
      <3> QED
        BY <3>1 DEF Unused
    <2>2. CASE todo'[j].op \notin Opening
      BY <1>3, <2>2 DEF Proper, Opened
    <2> QED
      BY <2>1, <2>2
  <1>4. todo' \in Seq(Operations) /\ Separated(todo') /\ Closed(todo')
    BY DEF Proper
  <1>5. Separated(todo)' /\ Closed(todo)'
    BY <1>4 DEF Separated, Closed, CountedBetween
  <1>6. /\ (iteration \in Nat /\ lqpCounter \in Nat)' /\ (offered \subseteq ProcessIds)'
        /\ (\A p \in offered : p[3] <= lqpCounter)'
    BY DEF FreshInv
  <1>7. \A task \in Opening : Unused(task)'
    BY <1>1, <1>2
  <1> QED
    BY <1>3, <1>4, <1>5, <1>6, <1>7 DEF FreshInv

\* What is left of a call after its first operation
LEMMA Rest ==
    ASSUME todo \in Seq(Operations), todo # <<>>, Separated(todo), Closed(todo)
    PROVE  /\ Tail(todo) \in Seq(Operations)
           /\ Len(todo) \in Nat \ {0} /\ DOMAIN todo = 1 .. Len(todo)
           /\ DOMAIN Tail(todo) = 1 .. Len(todo) - 1
           /\ \A j \in 1 .. Len(todo) - 1 : Tail(todo)[j] = todo[j + 1]
           /\ Head(todo) = todo[1] /\ Head(todo) \in Operations
           /\ Separated(Tail(todo)) /\ Closed(Tail(todo))
  <1> DEFINE rest == Tail(todo)
             n    == Len(todo)
  <1>1. /\ rest \in Seq(Operations) /\ n \in Nat \ {0} /\ Len(rest) = n - 1
        /\ \A j \in 1 .. Len(rest) : rest[j] = todo[j + 1]
        /\ Head(todo) \in Operations
    BY HeadTailProperties, EmptySeq
  <1>2. DOMAIN todo = 1 .. n /\ DOMAIN rest = 1 .. n - 1
    BY <1>1, LenProperties
  <1>3. Head(todo) = todo[1]
    OBVIOUS
  <1> HIDE DEF rest, n
  <1>4. Separated(rest)
    <2> SUFFICES ASSUME NEW j \in 1 .. n - 1, NEW k \in 1 .. n - 1, j < k,
                        Parallel(rest[j]), Parallel(rest[k]), rest[j].op = rest[k].op
                 PROVE  \E m \in 1 .. n - 1 : j < m /\ m < k /\ rest[m] = CountLQP
      BY <1>2 DEF Separated, CountedBetween
    <2>1. /\ j + 1 \in 1 .. n /\ k + 1 \in 1 .. n /\ j + 1 < k + 1
          /\ rest[j] = todo[j + 1] /\ rest[k] = todo[k + 1]
      BY <1>1
    <2>2. CountedBetween(todo, j + 1, k + 1)
      BY <1>2, <2>1 DEF Separated
    <2>3. PICK m \in 1 .. n : j + 1 < m /\ m < k + 1 /\ todo[m] = CountLQP
      BY <1>2, <2>2 DEF CountedBetween
    <2>4. m - 1 \in 1 .. n - 1 /\ (m - 1) + 1 = m
      <3>1. j \in Nat /\ j >= 1 /\ m \in 1 .. n /\ n \in Nat /\ j + 1 < m
        BY <1>1, <2>3
      <3> QED
        BY ONLY <3>1
    <2>5. rest[m - 1] = todo[m]
      BY ONLY <1>1, <2>4
    <2>6. j < m - 1 /\ m - 1 < k
      BY <2>3
    <2> QED
      BY <2>3, <2>4, <2>5, <2>6
  <1>5. Closed(rest)
    <2> SUFFICES ASSUME NEW j \in 1 .. n - 1, Parallel(rest[j]), rest[j].op \in Opening
                 PROVE  \E m \in 1 .. n - 1 : j < m /\ rest[m] = CountLQP
      BY <1>2 DEF Closed
    <2>1. j + 1 \in 1 .. n /\ rest[j] = todo[j + 1]
      BY <1>1
    <2>2. PICK m \in 1 .. n : j + 1 < m /\ todo[m] = CountLQP
      BY <1>2, <2>1 DEF Closed
    <2>3. m - 1 \in 1 .. n - 1 /\ rest[m - 1] = todo[m]
      BY <1>1, <2>2
    <2> QED
      BY <2>2, <2>3
  <1> QED
    BY <1>1, <1>2, <1>3, <1>4, <1>5 DEF rest, n

\* A count in a call that is not its first operation is in the rest.
LEMMA CountsRemain ==
    ASSUME todo \in Seq(Operations), todo # <<>>, Separated(todo), Closed(todo),
           NEW m \in DOMAIN todo, todo[m] = CountLQP, m # 1
    PROVE  m - 1 \in DOMAIN Tail(todo) /\ Tail(todo)[m - 1] = CountLQP
  BY Rest

LEMMA FreshInit == ASSUME Init PROVE FreshInv
  <1>1. Proper(<<>>)
    BY ProperEmpty
  <1> QED
    BY <1>1 DEF Init, FreshInv, Proper, Unused

\* lqpCounter_++: every task is unused under the new count.
LEMMA CountFresh == ASSUME FreshInv, Count PROVE FreshInv'
  <1>1. \A task : Unused(task)'
    BY DEF FreshInv, Count, Unused, ProcessIds
  <1>2. /\ todo' \in Seq(Operations) /\ Separated(todo)' /\ Closed(todo)'
    <2>1. todo' = Tail(todo) /\ todo # <<>>
      BY DEF Count
    <2>2. Tail(todo) \in Seq(Operations) /\ Separated(Tail(todo)) /\ Closed(Tail(todo))
      BY <2>1, Rest DEF FreshInv
    <2> QED
      BY <2>1, <2>2 DEF Separated, Closed, CountedBetween
  <1>3. /\ iteration' \in Nat /\ lqpCounter' \in Nat /\ offered' \subseteq ProcessIds
        /\ \A p \in offered' : p[3] <= lqpCounter'
    BY DEF FreshInv, Count, ProcessIds
  <1> QED
    BY <1>1, <1>2, <1>3 DEF FreshInv

\* The work of Offer is that of the head of the call; there is no count
\* before it.
LEMMA OfferUnused == ASSUME FreshInv, Offer PROVE Unused(Head(todo).op)
  <1>1. 1 \in DOMAIN todo /\ Head(todo) = todo[1] /\ Parallel(todo[1])
    BY Rest DEF FreshInv, Offer
  <1>2. \A m \in DOMAIN todo : ~(m < 1)
    BY Rest DEF FreshInv, Offer
  <1> QED
    BY <1>1, <1>2 DEF FreshInv

\* A step that takes the head of the call and counts nothing: only the task
\* of a head that is offered is used by it.
LEMMA HeadFresh ==
    ASSUME FreshInv, todo # <<>>, Head(todo) # CountLQP, todo' = Tail(todo),
           lqpCounter' = lqpCounter, iteration' \in Nat, offered' \subseteq ProcessIds,
           \A p \in offered' : p[3] <= lqpCounter,
           \A task : Unused(task) =>
              Unused(task)' \/ (Parallel(Head(todo)) /\ task = Head(todo).op)
    PROVE  FreshInv'
  <1> DEFINE Still(task) == \A p \in offered' : p[2] = task => p[3] < lqpCounter'
  <1>0. \A task : Unused(task) =>
              Still(task) \/ (Parallel(Head(todo)) /\ task = Head(todo).op)
    BY DEF Unused
  <1> HIDE DEF Still
  <1>1. /\ Tail(todo) \in Seq(Operations) /\ Separated(Tail(todo)) /\ Closed(Tail(todo))
        /\ Len(todo) \in Nat \ {0} /\ DOMAIN todo = 1 .. Len(todo)
        /\ DOMAIN Tail(todo) = 1 .. Len(todo) - 1
        /\ \A j \in 1 .. Len(todo) - 1 : Tail(todo)[j] = todo[j + 1]
        /\ Head(todo) = todo[1]
    BY Rest DEF FreshInv
  <1>2. ASSUME NEW m \in DOMAIN todo, todo[m] = CountLQP
        PROVE  m - 1 \in DOMAIN Tail(todo) /\ Tail(todo)[m - 1] = CountLQP
    BY <1>1, <1>2, CountsRemain DEF FreshInv
  <1>3. ASSUME NEW j \in DOMAIN Tail(todo), Parallel(Tail(todo)[j])
        PROVE  \/ Still(Tail(todo)[j].op)
               \/ \E m \in DOMAIN Tail(todo) : m < j /\ Tail(todo)[m] = CountLQP
    <2>1. /\ j + 1 \in DOMAIN todo /\ 1 \in DOMAIN todo /\ 1 < j + 1 /\ j \in Int
          /\ DOMAIN todo \subseteq Int /\ Tail(todo)[j] = todo[j + 1]
      BY <1>1
    <2>2. CASE \E m \in DOMAIN todo : m < j + 1 /\ todo[m] = CountLQP
      <3>1. PICK m \in DOMAIN todo : m < j + 1 /\ todo[m] = CountLQP
        BY <2>2
      <3>2. m - 1 < j
        BY <2>1, <3>1
      <3> QED
        BY <1>2, <3>1, <3>2
    <2>3. CASE Unused(todo[j + 1].op) /\ Parallel(todo[1]) /\ todo[1].op = todo[j + 1].op
      <3>1. CountedBetween(todo, 1, j + 1)
        BY <1>3, <2>1, <2>3 DEF FreshInv, Separated
      <3>2. PICK m \in DOMAIN todo : m < j + 1 /\ todo[m] = CountLQP
        BY <3>1 DEF CountedBetween
      <3>3. m - 1 < j
        BY <2>1, <3>2
      <3> QED
        BY <1>2, <3>2, <3>3
    <2>4. CASE Unused(todo[j + 1].op) /\ ~(Parallel(todo[1]) /\ todo[1].op = todo[j + 1].op)
      <3>1. Still(todo[j + 1].op)
        BY <1>0, <1>1, <2>4
      <3> QED
        BY <2>1, <3>1
    <2>5. Unused(todo[j + 1].op) \/ \E m \in DOMAIN todo : m < j + 1 /\ todo[m] = CountLQP
      BY <1>3, <2>1 DEF FreshInv
    <2> QED
      BY <2>2, <2>3, <2>4, <2>5
  <1>4. ASSUME NEW task \in Opening
        PROVE  Still(task) \/ \E m \in DOMAIN Tail(todo) : Tail(todo)[m] = CountLQP
    <2>1. CASE \E m \in DOMAIN todo : todo[m] = CountLQP
      BY <1>2, <2>1
    <2>2. CASE Unused(task) /\ Parallel(todo[1]) /\ task = todo[1].op
      <3>1. \E m \in DOMAIN todo : todo[m] = CountLQP
        BY <1>1, <2>2 DEF FreshInv, Closed
      <3> QED
        BY <1>2, <3>1
    <2>3. CASE Unused(task) /\ ~(Parallel(todo[1]) /\ task = todo[1].op)
      BY <1>0, <1>1, <2>3
    <2>4. Unused(task) \/ \E m \in DOMAIN todo : todo[m] = CountLQP
      BY DEF FreshInv
    <2> QED
      BY <2>1, <2>2, <2>3, <2>4
  <1>5. /\ \A j \in DOMAIN todo' : Parallel(todo'[j]) =>
              Still(todo'[j].op) \/ \E m \in DOMAIN todo' : m < j /\ todo'[m] = CountLQP
        /\ \A task \in Opening : Still(task) \/ \E m \in DOMAIN todo' : todo'[m] = CountLQP
    BY <1>3, <1>4
  <1>6. todo' \in Seq(Operations) /\ Separated(todo)' /\ Closed(todo)'
    BY <1>1 DEF Separated, Closed, CountedBetween
  <1>7. lqpCounter' \in Nat
    BY DEF FreshInv
  <1> QED
    BY <1>5, <1>6, <1>7 DEF FreshInv, Unused, Still

LEMMA OfferFresh == ASSUME FreshInv, Offer PROVE FreshInv'
  <1>1. todo # <<>> /\ Parallel(Head(todo)) /\ todo' = Tail(todo)
        /\ lqpCounter' = lqpCounter /\ iteration' = iteration
        /\ offered' = offered \cup {<<iteration, Head(todo).op, lqpCounter>>}
    BY DEF Offer, ProcessIdParts
  <1>2. Head(todo) # CountLQP
    BY <1>1, OperationTypes DEF Parallel
  <1>3. Head(todo) \in Operations
    BY <1>1, Rest DEF FreshInv
  <1>4. <<iteration, Head(todo).op, lqpCounter>> \in ProcessIds /\ lqpCounter \in Nat
    BY <1>3 DEF FreshInv, ProcessIds, Operations
  <1>5. iteration' \in Nat /\ offered' \subseteq ProcessIds /\ \A p \in offered' : p[3] <= lqpCounter
    BY <1>1, <1>4 DEF FreshInv
  <1>6. ASSUME NEW task, Unused(task)
        PROVE  Unused(task)' \/ task = Head(todo).op
    BY <1>1, <1>6 DEF Unused
  <1> QED
    BY <1>1, <1>2, <1>5, <1>6, HeadFresh

LEMMA NextFresh ==
    ASSUME Distinguishing, FreshInv, [Next]_vars
    PROVE  FreshInv'
  <1>1. iteration \in Nat
    BY DEF FreshInv
  <1>2. CASE RunIteration
    <2>1. Proper(todo')
      BY <1>1, <1>2, CallsProper DEF RunIteration
    <2> QED
      BY <1>2, <2>1, CallFresh DEF RunIteration, Idle
  <1>3. CASE PrepareIteration \/ PrepareMPCIteration
    <2>1. Proper(todo')
      BY <1>1, <1>3, CallsProper DEF PrepareIteration, PrepareMPCIteration
    <2> QED
      BY <1>3, <2>1, CallFresh DEF PrepareIteration, PrepareMPCIteration, Idle
  <1>4. CASE FinishIteration \/ FinishMPCIteration
    <2>1. Proper(todo')
      BY <1>1, <1>4, CallsProper DEF FinishIteration, FinishMPCIteration
    <2> QED
      BY <1>4, <2>1, CallFresh DEF FinishIteration, FinishMPCIteration, Idle
  <1>5. CASE Reset
    BY <1>5 DEF Reset, FreshInv, Unused, Separated, Closed, CountedBetween
  <1>6. CASE Offer
    BY <1>6, OfferFresh
  <1>7. CASE DoAlone
    <2>1. Head(todo) # CountLQP
      BY <1>7, OperationTypes DEF DoAlone
    <2>2. \A task : Unused(task) => Unused(task)'
      BY <1>7 DEF DoAlone, Unused
    <2>3. iteration' \in Nat /\ offered' \subseteq ProcessIds /\ \A p \in offered' : p[3] <= lqpCounter
      BY <1>7 DEF DoAlone, FreshInv
    <2> QED
      BY <1>7, <2>1, <2>2, <2>3, HeadFresh DEF DoAlone
  <1>8. CASE Count
    BY <1>8, CountFresh
  <1>9. CASE NextIteration
    <2>1. Head(todo) # CountLQP
      BY <1>9, OperationTypes DEF NextIteration
    <2>2. \A task : Unused(task) => Unused(task)'
      BY <1>9 DEF NextIteration, Unused
    <2>3. iteration' \in Nat /\ offered' \subseteq ProcessIds /\ \A p \in offered' : p[3] <= lqpCounter
      BY <1>9 DEF NextIteration, FreshInv
    <2> QED
      BY <1>9, <2>1, <2>2, <2>3, HeadFresh DEF NextIteration
  <1>10. CASE UNCHANGED vars
    BY <1>10 DEF vars, FreshInv, Unused, Separated, Closed, CountedBetween
  <1> QED
    BY <1>2, <1>3, <1>4, <1>5, <1>6, <1>7, <1>8, <1>9, <1>10 DEF Next

\* Between two calls, and at every offer, the operations still to be done say
\* which tasks may have been offered under the present lqpCounter_.
THEOREM FreshInvariant == ASSUME Distinguishing PROVE Spec => []FreshInv
  <1>1. Init => FreshInv
    BY FreshInit
  <1>2. FreshInv /\ [Next]_vars => FreshInv'
    BY NextFresh
  <1> QED
    BY <1>1, <1>2, PTL DEF Spec

\* generateUniqueProcessID: for any horizon, shot length, settings and order
\* of calls, no work is offered under a process ID that was used before.
THEOREM FreshIds == ASSUME Distinguishing PROVE Spec => FreshProcessId
  <1>1. FreshInv /\ [Next]_vars => [Offer => ProcessIdParts \notin offered]_vars
    <2> SUFFICES ASSUME FreshInv, Offer, ProcessIdParts \in offered PROVE FALSE
      OBVIOUS
    <2>1. Unused(Head(todo).op) /\ lqpCounter \in Nat
      BY OfferUnused DEF FreshInv
    <2>2. lqpCounter < lqpCounter
      BY <2>1 DEF Unused, ProcessIdParts
    <2> QED
      BY <2>1, <2>2
  <1> QED
    BY <1>1, FreshInvariant, PTL DEF Spec, FreshProcessId

================================================================================
