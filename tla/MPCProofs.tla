------------------------------- MODULE MPCProofs -------------------------------
(****************************************************************************)
(* In every order of calls, and whatever time passes and whichever solves   *)
(* fail: the warm start fits the solver, the interval of the state          *)
(* prediction is in order, a first iteration plans over the horizon that    *)
(* was asked for, and a policy that goes out is stamped with the time it is *)
(* for and not late by more than a stage.  First, what the operators on     *)
(* policies do for any policy: what the index search finds, and that        *)
(* shifting, cutting and resizing never breaks a policy's shape.            *)
(****************************************************************************)
EXTENDS MPC, SequenceTheorems, WellFoundedInduction, TLAPS

(***************************************************************************)
(* The index search                                                        *)
(***************************************************************************)

\* A set of natural numbers has a least element.
LEMMA LeastExists ==
    ASSUME NEW S, S \subseteq Nat, S # {}
    PROVE  LeastIn(S) \in S /\ \A j \in S : LeastIn(S) <= j
  <1> DEFINE Less == OpToRel(<, Nat)
  <1>1. PICK i \in S : \A j \in S : <<j, i>> \notin Less
    <2> HIDE DEF Less
    <2>1. IsWellFoundedOn(Less, Nat)
      BY NatLessThanWellFounded DEF Less
    <2> QED
      BY <2>1, WFMin
  <1>2. ASSUME NEW j \in S PROVE i <= j
    <2>1. Less = {p \in Nat \X Nat : p[1] < p[2]}
      BY Zenon DEF OpToRel
    <2> HIDE DEF Less
    <2>2. j < i => <<j, i>> \in Less
      BY <2>1
    <2> QED BY <1>1, <2>2
  <1>3. \E k \in S : \A j \in S : k <= j
    BY <1>2
  <1> QED
    BY <1>3, Zenon DEF LeastIn

\* A set of natural numbers with a bound has a greatest element.
LEMMA GreatestExists ==
    ASSUME NEW n \in Nat, NEW S, S \subseteq 0 .. n, S # {}
    PROVE  GreatestIn(S) \in S /\ \A j \in S : j <= GreatestIn(S)
  <1> DEFINE M == {n - j : j \in S}
  <1>1. M \subseteq Nat /\ M # {}
    <2>1. ASSUME NEW j \in S PROVE n - j \in Nat
      OBVIOUS
    <2>2. PICK j \in S : TRUE
      OBVIOUS
    <2>3. n - j \in M
      OBVIOUS
    <2> QED BY <2>1, <2>3
  <1>2. PICK m \in M : \A j \in M : m <= j
    <2> HIDE DEF M
    <2>1. LeastIn(M) \in M /\ \A j \in M : LeastIn(M) <= j
      BY <1>1, LeastExists
    <2> QED BY <2>1
  <1>3. PICK i \in S : m = n - i
    BY <1>2
  <1>4. \A j \in S : j <= i
    BY <1>2, <1>3
  <1>5. \E k \in S : \A j \in S : j <= k
    BY <1>4
  <1> QED
    BY <1>5, Zenon DEF GreatestIn

Found(tr) == tr \in Trajectory(Nat) /\ Size(tr) >= 1

LEMMA StartIndexBound ==
    ASSUME NEW tr, Found(tr)
    PROVE  Size(tr) \in Nat \ {0} /\ StartIndex(tr) \in 0 .. Size(tr) - 1
  BY DEF Found, Trajectory, Size, StartIndex

\* Whatever the stamps are, the search ends at a position of the trajectory.
LEMMA FindIndexBound ==
    ASSUME NEW tr, Found(tr), NEW t \in Int
    PROVE  FindIndex(tr, t) \in 0 .. Size(tr) - 1
  <1> DEFINE s    == StartIndex(tr)
             n    == Size(tr)
             Down == {0} \cup {i \in 0 .. s : tr.time[i + 1] <= t}
             Up   == {n} \cup {i \in s .. n - 1 : tr.time[i + 1] > t}
  <1>1. n \in Nat \ {0} /\ s \in 0 .. n - 1
    BY StartIndexBound
  <1>2. \A i \in 0 .. n - 1 : tr.time[i + 1] \in Int
    BY DEF Found, Trajectory, Size
  <1> HIDE DEF s, n
  <1>3. SearchBackward(tr, t) \in 0 .. n - 1
    <2>1. Down \subseteq 0 .. s /\ Down # {}
      BY <1>1
    <2>2. GreatestIn(Down) \in Down
      <3>1. s \in Nat
        BY <1>1
      <3> HIDE DEF Down
      <3> QED BY <2>1, <3>1, GreatestExists
    <2> QED
      BY <1>1, <2>1, <2>2 DEF SearchBackward, s
  <1>4. CASE tr.time[s + 1] > t
    BY <1>3, <1>4 DEF FindIndex, s, n
  <1>5. CASE ~(tr.time[s + 1] > t)
    <2>1. Up \subseteq Nat /\ Up # {}
      BY <1>1
    <2>2. LeastIn(Up) \in Up
      <3> HIDE DEF Up
      <3> QED BY <2>1, LeastExists
    <2>3. \A i \in Up : i >= 1 /\ i <= n
      BY <1>1, <1>5
    <2>4. LeastIn(Up) - 1 \in 0 .. n - 1
      <3> DEFINE l == LeastIn(Up)
      <3>1. l \in Nat /\ l >= 1 /\ l <= n
        BY <2>1, <2>2, <2>3
      <3> HIDE DEF l
      <3>2. l - 1 \in 0 .. n - 1
        BY <1>1, <3>1
      <3> QED BY <3>2 DEF l
    <2> QED
      BY <1>5, <2>4 DEF FindIndex, SearchForward, s, n
  <1> QED
    BY <1>4, <1>5

\* With stamps that increase, the search finds the last stamp that is not
\* later than the inquiry, wherever the previous search left index_.
THEOREM FindIndexIsIndexOf ==
    ASSUME NEW tr, Found(tr), Sorted(tr.time), NEW t \in Int
    PROVE  FindIndex(tr, t) = IndexOf(tr.time, t)
  <1> DEFINE s    == StartIndex(tr)
             n    == Size(tr)
             time == tr.time
             All  == {0} \cup {i \in 0 .. n - 1 : time[i + 1] <= t}
             Down == {0} \cup {i \in 0 .. s : time[i + 1] <= t}
             Up   == {n} \cup {i \in s .. n - 1 : time[i + 1] > t}
  <1>1. n \in Nat \ {0} /\ s \in 0 .. n - 1
    BY StartIndexBound
  <1>2. /\ \A i \in 0 .. n - 1 : time[i + 1] \in Int
        /\ \A i, j \in 0 .. n - 1 : i < j => time[i + 1] < time[j + 1]
        /\ n = Len(time)
    <2>1. time \in Seq(Int) /\ n = Len(time) /\ Sorted(time)
      BY DEF Found, Trajectory, Size
    <2> HIDE DEF s, n, time
    <2>2. ASSUME NEW i \in 0 .. n - 1 PROVE i + 1 \in 1 .. Len(time) /\ time[i + 1] \in Int
      BY ONLY <1>1, <2>1, i \in 0 .. n - 1
    <2>3. ASSUME NEW i \in 0 .. n - 1, NEW j \in 0 .. n - 1, i < j PROVE time[i + 1] < time[j + 1]
      <3>1. i + 1 \in DOMAIN time /\ j + 1 \in DOMAIN time /\ i + 1 < j + 1
        BY <2>1, <2>2, <2>3
      <3> QED
        BY ONLY <2>1, <3>1 DEF Sorted
    <2> QED
      BY <2>1, <2>2, <2>3
  <1> HIDE DEF s, n, time
  <1>3. GreatestIn(All) \in All /\ \A j \in All : j <= GreatestIn(All)
    <2>1. All \subseteq 0 .. n - 1 /\ All # {} /\ n - 1 \in Nat
      BY <1>1
    <2> HIDE DEF All
    <2> QED BY <2>1, GreatestExists
  <1>4. IndexOf(tr.time, t) = GreatestIn(All)
    BY <1>2 DEF IndexOf, time
  <1>5. CASE time[s + 1] > t
    <2>1. Down = All
      BY <1>1, <1>2, <1>5
    <2> QED
      BY <1>4, <1>5, <2>1 DEF FindIndex, SearchBackward, s, time
  <1>6. CASE ~(time[s + 1] > t)
    <2>1. LeastIn(Up) \in Up /\ \A j \in Up : LeastIn(Up) <= j
      <3>1. Up \subseteq Nat /\ Up # {}
        BY <1>1
      <3> HIDE DEF Up
      <3> QED BY <3>1, LeastExists
    <2> DEFINE l == LeastIn(Up)
    <2>2. l \in s + 1 .. n /\ (l < n => time[l + 1] > t)
          /\ \A i \in s .. l - 1 : ~(time[i + 1] > t)
      <3> HIDE DEF l
      <3>1. l \in Up /\ \A j \in Up : l <= j
        BY <2>1 DEF l
      <3> QED BY <1>1, <1>2, <1>6, <3>1
    <2> HIDE DEF l
    <2>3. l - 1 \in All /\ \A j \in All : j <= l - 1
      <3>1. l - 1 \in 0 .. n - 1 /\ time[l - 1 + 1] <= t
        <4>1. PICK k : k = l - 1 /\ k \in s .. l - 1 /\ k \in 0 .. n - 1
          BY <1>1, <2>2
        <4>2. time[k + 1] \in Int /\ ~(time[k + 1] > t)
          BY <1>2, <2>2, <4>1
        <4> QED
          BY <4>1, <4>2
      <3>2. ASSUME NEW j \in All, j > l - 1 PROVE FALSE
        BY <1>1, <1>2, <2>2, <3>2
      <3> QED
        BY <1>1, <2>2, <3>1, <3>2
    <2>4. l - 1 = GreatestIn(All)
      <3>1. GreatestIn(All) <= l - 1 /\ l - 1 <= GreatestIn(All)
        BY <1>3, <2>3
      <3>2. GreatestIn(All) \in Int /\ l \in Int
        BY <1>1, <1>3, <2>2
      <3> QED
        BY <3>1, <3>2
    <2> QED
      BY <1>4, <1>6, <2>4 DEF FindIndex, SearchForward, s, n, time, l
  <1> QED
    BY <1>5, <1>6

--------------------------------------------------------------------------------
(***************************************************************************)
(* The shape of policies                                                   *)
(***************************************************************************)

\* A horizon has at least one stage.
LEMMA StagesOfPositive ==
    ASSUME NEW T \in Int
    PROVE  StagesOf(T) \in Nat \ {0}
  <1>1. CASE 2 * T < Dt
    BY <1>1 DEF StagesOf
  <1>2. CASE ~(2 * T < Dt)
    <2> DEFINE a == 2 * T + Dt
               b == 2 * Dt
    <2>1. a \in Int /\ b \in Nat \ {0} /\ a >= b
      BY <1>2, DtAssumption
    <2>2. a \div b \in Int /\ a \div b >= 1
      <3> HIDE DEF a, b
      <3> QED BY <2>1
    <2> QED
      BY <1>2, <2>2 DEF StagesOf
  <1> QED
    BY <1>1, <1>2, DtAssumption

\* What the three modifications do to the length of a trajectory
OfSize(tr, n) == tr \in Trajectory(Nat) /\ Size(tr) = n /\ Consistent(tr)

LEMMA OfSizeIs ==
    ASSUME NEW m \in Nat, NEW tr
    PROVE  OfSize(tr, m) <=>
             /\ tr = [time |-> tr.time, data |-> tr.data, index |-> tr.index]
             /\ tr.time \in Seq(Int) /\ tr.data \in Seq(Nat) /\ tr.index \in Nat
             /\ Len(tr.time) = m /\ Len(tr.data) = m
  BY DEF OfSize, Trajectory, Size, Consistent

LEMMA ArrivesAtSize ==
    ASSUME NEW m \in Nat, NEW time \in Seq(Int), NEW data \in Seq(Nat), NEW index \in Nat,
           Len(time) = m, Len(data) = m
    PROVE  OfSize([time |-> time, data |-> data, index |-> index], m)
  BY DEF OfSize, Trajectory, Size, Consistent

LEMMA EraseFrontSize ==
    ASSUME NEW m \in Nat, NEW tr, OfSize(tr, m), NEW n \in 0 .. m - 1, NEW dt \in Int
    PROVE  OfSize(EraseFront(tr, n, dt), m - n)
  <1> DEFINE time == [i \in 1 .. m - n |-> tr.time[i + n] - dt]
             data == SubSeq(tr.data, n + 1, m)
  <1>1. /\ tr = [time |-> tr.time, data |-> tr.data, index |-> tr.index]
        /\ tr.time \in Seq(Int) /\ tr.data \in Seq(Nat) /\ tr.index \in Nat
        /\ Len(tr.time) = m /\ Len(tr.data) = m
    BY OfSizeIs
  <1>2. m - n \in Nat
    OBVIOUS
  <1>3. time \in Seq(Int) /\ Len(time) = m - n
    <2>1. ASSUME NEW i \in 1 .. m - n PROVE tr.time[i + n] - dt \in Int
      <3>1. i + n \in 1 .. Len(tr.time)
        <4>1. Len(tr.time) = m
          BY <1>1
        <4> QED
          BY ONLY <4>1, m \in Nat, n \in 0 .. m - 1, i \in 1 .. m - n
      <3>2. tr.time[i + n] \in Int
        BY ONLY <1>1, <3>1, ElementOfSeq
      <3> QED
        BY ONLY <3>2, dt \in Int
    <2> QED BY <1>2, <2>1
  <1>4. data \in Seq(Nat) /\ Len(data) = m - n
    <2>1. ASSUME NEW i \in n + 1 .. m PROVE tr.data[i] \in Nat
      <3>1. i \in 1 .. Len(tr.data)
        BY <1>1
      <3> QED
        BY <1>1, <3>1, ElementOfSeq
    <2>2. n + 1 \in Int /\ m \in Int /\ n + 1 <= m /\ m - (n + 1) + 1 = m - n
      OBVIOUS
    <2> QED
      BY <2>1, <2>2, SubSeqProperties
  <1>5. EraseFront(tr, n, dt) = [tr EXCEPT !.time = time, !.data = data]
    BY <1>1 DEF EraseFront, Size
  <1> HIDE DEF time, data
  <1>6. EraseFront(tr, n, dt) = [time |-> time, data |-> data, index |-> tr.index]
    BY <1>1, <1>5
  <1> QED
    BY <1>1, <1>2, <1>3, <1>4, <1>6, ArrivesAtSize

LEMMA PopBackSize ==
    ASSUME NEW m \in Nat, NEW tr, OfSize(tr, m), NEW n \in 0 .. m - 1
    PROVE  OfSize(PopBack(tr, n), m - n)
  <1> DEFINE time == SubSeq(tr.time, 1, m - n)
             data == SubSeq(tr.data, 1, m - n)
  <1>1. /\ tr = [time |-> tr.time, data |-> tr.data, index |-> tr.index]
        /\ tr.time \in Seq(Int) /\ tr.data \in Seq(Nat) /\ tr.index \in Nat
        /\ Len(tr.time) = m /\ Len(tr.data) = m
    BY OfSizeIs
  <1>2. m - n \in Nat
    OBVIOUS
  <1>3. ASSUME NEW i \in 1 .. m - n PROVE tr.time[i] \in Int /\ tr.data[i] \in Nat
    <2>1. i \in 1 .. m
      OBVIOUS
    <2>2. i \in 1 .. Len(tr.time) /\ i \in 1 .. Len(tr.data)
      BY ONLY <1>1, <2>1
    <2> QED
      BY ONLY <1>1, <2>2, ElementOfSeq
  <1>4. /\ time \in Seq(Int) /\ Len(time) = m - n
        /\ data \in Seq(Nat) /\ Len(data) = m - n
    <2>1. 1 \in Int /\ m - n \in Int /\ 1 <= m - n /\ m - n - 1 + 1 = m - n
      OBVIOUS
    <2>2. time \in Seq(Int) /\ Len(time) = m - n
      BY <1>3, <2>1, SubSeqProperties
    <2>3. data \in Seq(Nat) /\ Len(data) = m - n
      BY <1>3, <2>1, SubSeqProperties
    <2> QED
      BY <2>2, <2>3
  <1>5. PopBack(tr, n) = [tr EXCEPT !.time = time, !.data = data]
    BY <1>1 DEF PopBack, Size
  <1> HIDE DEF time, data
  <1>6. PopBack(tr, n) = [time |-> time, data |-> data, index |-> tr.index]
    BY <1>1, <1>5
  <1> QED
    BY <1>1, <1>2, <1>3, <1>4, <1>6, ArrivesAtSize

LEMMA PushBackSize ==
    ASSUME NEW m \in Nat \ {0}, NEW tr, OfSize(tr, m), NEW n \in Nat
    PROVE  OfSize(PushBack(tr, n, Dt, TRUE), m + n)
  <1> DEFINE late == [i \in 1 .. n |-> Dt]
             more == [i \in 1 .. n |-> tr.data[Len(tr.data)]]
             time == tr.time \o late
             data == tr.data \o more
  <1>1. /\ tr = [time |-> tr.time, data |-> tr.data, index |-> tr.index]
        /\ tr.time \in Seq(Int) /\ tr.data \in Seq(Nat) /\ tr.index \in Nat
        /\ Len(tr.time) = m /\ Len(tr.data) = m
    BY OfSizeIs
  <1>2. late \in Seq(Int) /\ Len(late) = n
    BY DtAssumption
  <1>3. more \in Seq(Nat) /\ Len(more) = n
    <2>1. tr.data[Len(tr.data)] \in Nat
      BY <1>1
    <2> DEFINE last == tr.data[Len(tr.data)]
    <2> HIDE DEF last
    <2>2. [i \in 1 .. n |-> last] \in Seq(Nat) /\ Len([i \in 1 .. n |-> last]) = n
      BY <2>1 DEF last
    <2> QED
      BY <2>2 DEF last
  <1>4. PushBack(tr, n, Dt, TRUE) = [tr EXCEPT !.time = time, !.data = data]
    BY DEF PushBack
  <1> HIDE DEF late, more
  <1>5. time \in Seq(Int) /\ Len(time) = m + n
    BY <1>1, <1>2, ConcatProperties
  <1>6. data \in Seq(Nat) /\ Len(data) = m + n
    <2> DEFINE old == tr.data
    <2>1. old \in Seq(Nat) /\ more \in Seq(Nat) /\ Len(old) = m /\ Len(more) = n
      BY <1>1, <1>3
    <2> HIDE DEF old
    <2>2. old \o more \in Seq(Nat) /\ Len(old \o more) = m + n
      BY ONLY <2>1, ConcatProperties
    <2> QED
      BY <2>2 DEF old
  <1> HIDE DEF time, data
  <1>7. PushBack(tr, n, Dt, TRUE) = [time |-> time, data |-> data, index |-> tr.index]
    BY <1>1, <1>4
  <1>8. m + n \in Nat
    OBVIOUS
  <1> QED
    BY <1>1, <1>8, <1>5, <1>6, <1>7, ArrivesAtSize

\* A policy with n stages
Shaped(p, n) == p \in Policy /\ Shape(p, n)

LEMMA ShapedParts ==
    ASSUME NEW n \in Nat, NEW p
    PROVE  Shaped(p, n) <=>
             /\ p = [uff |-> p.uff, K |-> p.K, x_ref |-> p.x_ref]
             /\ OfSize(p.uff, n) /\ OfSize(p.K, n) /\ OfSize(p.x_ref, n + 1)
  BY DEF Shaped, Shape, Policy, OfSize

\* What the solver returns has the shape of its number of stages.
LEMMA SolutionShaped ==
    ASSUME NEW n \in Nat
    PROVE  Shaped(Solution(n), n)
  <1>1. ASSUME NEW m \in Nat PROVE OfSize(Uniform(Stages(m), Dt), m)
    BY DtAssumption DEF OfSize, Uniform, Stages, Trajectory, Size, Consistent
  <1>2. n + 1 \in Nat
    OBVIOUS
  <1> QED
    BY <1>1, <1>2, ShapedParts DEF Solution

LEMMA LookUpKeepsShape ==
    ASSUME NEW n \in Nat \ {0}, NEW p, Shaped(p, n), NEW delay \in Int
    PROVE  Shaped(AfterLookUp(p, delay), n) /\ ShiftOf(p, delay) \in 0 .. n - 1
  <1>1. OfSize(p.uff, n) /\ Found(p.uff)
    BY ShapedParts DEF OfSize, Found
  <1>2. FindIndex(p.uff, delay) \in 0 .. n - 1
    BY <1>1, FindIndexBound DEF OfSize
  <1>3. OfSize(LookedUp(p.uff, delay), n)
    <2> DEFINE tr == p.uff
               index == FindIndex(tr, delay)
    <2>1. /\ tr = [time |-> tr.time, data |-> tr.data, index |-> tr.index]
          /\ tr.time \in Seq(Int) /\ tr.data \in Seq(Nat)
          /\ Len(tr.time) = n /\ Len(tr.data) = n
      BY <1>1, OfSizeIs
    <2>2. LookedUp(tr, delay) = [tr EXCEPT !.index = index]
      BY DEF LookedUp
    <2>3. index \in Nat
      BY <1>2
    <2> HIDE DEF tr, index
    <2>4. LookedUp(tr, delay) = [time |-> tr.time, data |-> tr.data, index |-> index]
      BY <2>1, <2>2
    <2>5. OfSize(LookedUp(tr, delay), n)
      BY <2>1, <2>3, <2>4, ArrivesAtSize
    <2> QED
      BY <2>5 DEF tr
  <1>4. Shaped(AfterLookUp(p, delay), n)
    BY <1>3 DEF AfterLookUp, Shaped, Shape, Policy, OfSize
  <1>5. ShiftOf(p, delay) \in 0 .. n - 1
    BY <1>1, <1>2 DEF ShiftOf, OfSize
  <1> QED
    BY <1>4, <1>5

LEMMA ShiftKeepsShape ==
    ASSUME NEW n \in Nat \ {0}, NEW p, Shaped(p, n), NEW shift \in 0 .. n - 1
    PROVE  Shaped(Shifted(p, shift), n - shift)
  <1>1. CASE shift = 0
    BY <1>1 DEF Shifted
  <1>2. CASE shift # 0
    <2> DEFINE E(tr) == EraseFront(tr, shift, shift * Dt)
    <2>1. Shifted(p, shift)
            = [uff |-> E(p.uff), K |-> E(p.K), x_ref |-> E(p.x_ref)]
      BY <1>2 DEF Shifted, EachOf
    <2>2. OfSize(p.uff, n) /\ OfSize(p.K, n) /\ OfSize(p.x_ref, n + 1)
      BY ShapedParts
    <2>3. shift * Dt \in Int /\ n + 1 \in Nat /\ shift \in 0 .. n + 1 - 1
          /\ n + 1 - shift = n - shift + 1 /\ n - shift \in Nat
      BY DtAssumption
    <2>4. OfSize(E(p.uff), n - shift) /\ OfSize(E(p.K), n - shift)
      BY <2>2, <2>3, EraseFrontSize
    <2>5. OfSize(E(p.x_ref), n - shift + 1)
      BY <2>2, <2>3, EraseFrontSize
    <2> HIDE DEF E
    <2> QED
      BY <2>1, <2>3, <2>4, <2>5, ShapedParts
  <1> QED
    BY <1>1, <1>2

LEMMA ResizeGivesShape ==
    ASSUME NEW m \in Nat \ {0}, NEW p, Shaped(p, m), NEW n \in Nat \ {0}
    PROVE  Shaped(Resized(p, n), n)
  <1>1. OfSize(p.uff, m) /\ OfSize(p.K, m) /\ OfSize(p.x_ref, m + 1)
    BY ShapedParts
  <1>2. Size(p.uff) = m
    BY <1>1 DEF OfSize
  <1>3. CASE n > m
    <2> DEFINE E(tr) == PushBack(tr, n - m, Dt, TRUE)
    <2>1. Resized(p, n)
            = [uff |-> E(p.uff), K |-> E(p.K), x_ref |-> E(p.x_ref)]
      BY <1>2, <1>3 DEF Resized, EachOf
    <2>2. n - m \in Nat /\ m + (n - m) = n /\ m + 1 + (n - m) = n + 1 /\ m + 1 \in Nat \ {0}
      BY <1>3
    <2>3. OfSize(E(p.uff), n) /\ OfSize(E(p.K), n) /\ OfSize(E(p.x_ref), n + 1)
      BY <1>1, <2>2, PushBackSize
    <2> HIDE DEF E
    <2> QED
      BY <2>1, <2>3, ShapedParts
  <1>4. CASE n < m
    <2> DEFINE E(tr) == PopBack(tr, m - n)
    <2>1. Resized(p, n)
            = [uff |-> E(p.uff), K |-> E(p.K), x_ref |-> E(p.x_ref)]
      BY <1>2, <1>4 DEF Resized, EachOf
    <2>2. /\ m - n \in 0 .. m - 1 /\ m - n \in 0 .. m + 1 - 1
          /\ m - (m - n) = n /\ m + 1 - (m - n) = n + 1
      BY <1>4
    <2>3. OfSize(E(p.uff), m - (m - n)) /\ OfSize(E(p.K), m - (m - n))
      BY <1>1, <2>2, PopBackSize
    <2>4. OfSize(E(p.x_ref), m + 1 - (m - n))
      BY <1>1, <2>2, PopBackSize
    <2> HIDE DEF E
    <2> QED
      BY <2>1, <2>2, <2>3, <2>4, ShapedParts
  <1>5. CASE n = m
    BY <1>2, <1>5 DEF Resized
  <1> QED
    BY <1>3, <1>4, <1>5

\* A warm start has exactly the stages of the new horizon, whatever the
\* policy, the delay and the stamps were: the solver accepts it.
THEOREM WarmStartShaped ==
    ASSUME NEW n \in Nat \ {0}, NEW p, Shaped(p, n), NEW delay \in Int, NEW T \in Int
    PROVE  Shaped(DesignWarmStart(p, delay, T), StagesOf(T))
  <1> DEFINE shift   == ShiftOf(p, delay)
             shifted == Shifted(AfterLookUp(p, delay), shift)
  <1>1. Shaped(AfterLookUp(p, delay), n) /\ shift \in 0 .. n - 1
    BY LookUpKeepsShape
  <1>2. Shaped(shifted, n - shift) /\ n - shift \in Nat \ {0}
    BY <1>1, ShiftKeepsShape
  <1>3. StagesOf(T) \in Nat \ {0}
    BY StagesOfPositive
  <1> HIDE DEF shift, shifted
  <1>4. Shaped(Resized(shifted, StagesOf(T)), StagesOf(T))
    BY <1>2, <1>3, ResizeGivesShape
  <1> QED
    BY <1>4 DEF DesignWarmStart, shift, shifted

\* A policy that is cut keeps its shape and at least one stage.
THEOREM TruncationShaped ==
    ASSUME NEW n \in Nat \ {0}, NEW p, Shaped(p, n), NEW delay \in Int
    PROVE  \E m \in Nat \ {0} : Shaped(TruncateFront(p, delay), m)
  <1> DEFINE shift == ShiftOf(p, delay)
  <1>1. Shaped(AfterLookUp(p, delay), n) /\ shift \in 0 .. n - 1
    BY LookUpKeepsShape
  <1>2. Shaped(TruncateFront(p, delay), n - shift) /\ n - shift \in Nat \ {0}
    BY <1>1, ShiftKeepsShape DEF TruncateFront
  <1> QED
    BY <1>2

--------------------------------------------------------------------------------
(***************************************************************************)
(* What the calls keep                                                     *)
(***************************************************************************)

Strategy == [settings : SettingsChoices, initialT : InitialHorizons]
Watches  == [Clocks -> [Timers -> Ticks]]

\* The variables the three properties depend on have their types.
Typed ==
    /\ pc \in {"idle", "prepared", "solving"}
    /\ settings \in SettingsChoices
    /\ strategies \in [Strategies -> Strategy]
    /\ strategy \in Strategies
    /\ firstRun \in BOOLEAN
    /\ keeper \in Keeper
    /\ elapsed \in Watches
    /\ forward \in [start : Nat, stop : Nat]
    /\ K \in Nat \ {0}
    /\ solve \in [age : 0 .. MaxSolve, external : [Timers -> Ticks]]
    /\ asked \in InitialHorizons

\* There is always a policy to start from, and between prepareIteration and
\* the end of finishIteration it is the solver's length.
PolicyShaped ==
    /\ \E n \in Nat \ {0} : Shaped(policy, n)
    /\ pc # "idle" => Shaped(policy, K)

\* The two first-run flags agree; the strategy of the time keeper is up to
\* date until MPC gets another one.
Mirrored ==
    /\ keeper.firstRun = firstRun
    /\ strategy = "constructed" =>
         strategies["constructed"] = [settings |-> settings, initialT |-> asked]

\* The prediction does not end before it starts.
InOrder == pc # "idle" => forward.start <= forward.stop

IInv == Typed /\ PolicyShaped /\ Mirrored /\ InOrder /\ HorizonAsAsked

--------------------------------------------------------------------------------
(***************************************************************************)
(* The time keeper                                                         *)
(***************************************************************************)
LEMMA ChoiceIsSettings ==
    ASSUME NEW s \in SettingsChoices
    PROVE  s \in Settings
  BY ChoicesAssumption

LEMMA WholeStagesPositive ==
    ASSUME NEW T \in Nat
    PROVE  WholeStages(T) \in Nat \ {0}
  <1> DEFINE n == StagesOf(T)
  <1>1. n \in Nat \ {0}
    BY StagesOfPositive
  <1> HIDE DEF n
  <1>2. n * Dt \in Nat \ {0}
    BY <1>1, DtAssumption
  <1> QED
    BY <1>2 DEF WholeStages, n

LEMMA HorizonIsTick ==
    ASSUME NEW T \in InitialHorizons
    PROVE  T \in Nat \ {0} /\ MaxSolve \in Nat /\ MaxSolve <= MaxElapsed
  <1>1. PICK H \in Horizons : T \in {H, WholeStages(H)}
    BY DEF InitialHorizons
  <1>2. H \in Nat \ {0} /\ MaxSolve \in Nat /\ MaxSolve <= MaxElapsed
    BY <1>1, ChoicesAssumption, MaxElapsedAssumption
  <1> QED
    BY <1>1, <1>2, WholeStagesPositive

LEMMA ResetTimersType ==
    ASSUME NEW t \in Ticks
    PROVE  ResetTimers(t) \in Watches
  BY MaxElapsedAssumption DEF ResetTimers, Watches, Clocks, Timers, Ticks

\* A new horizon is a number of ticks.
LEMMA NewTimeHorizonType ==
    ASSUME NEW st \in Strategy, NEW since \in Nat, NEW stop \in Nat
    PROVE  NewTimeHorizon(st, since, stop) \in Nat
  <1>1. st.settings \in Settings /\ st.initialT \in Nat
    BY ChoiceIsSettings, HorizonIsTick DEF Strategy
  <1>2. st.settings.minimumTimeHorizonMpc \in Nat /\ st.settings.mpc_mode \in Modes
    BY <1>1 DEF Settings
  <1>3. TimeLeft(st, since, stop) \in Nat
    BY <1>1 DEF TimeLeft, Higher
  <1> QED
    BY <1>1, <1>2, <1>3 DEF NewTimeHorizon, Modes, Higher, Lower

LEMMA TimeSinceType ==
    ASSUME NEW k \in Keeper, NEW e \in Watches, NEW c \in Clocks, NEW timer \in Timers
    PROVE  TimeSince(timer, k, e[c]) \in Nat
  BY MaxElapsedAssumption DEF TimeSince, Watches, Ticks

LEMMA DelayType ==
    ASSUME NEW s \in Settings, NEW k \in Keeper
    PROVE  computeDelayToApply(s, k) \in Nat
  BY MaxElapsedAssumption DEF computeDelayToApply, Settings, Keeper, Ticks

\* The prediction interval is in order and within the horizon.
LEMMA NewTimingsType ==
    ASSUME NEW s \in Settings, NEW st \in Strategy, NEW k \in Keeper, NEW e \in Watches,
           NEW T \in Nat
    PROVE  LET timings == NewTimings(s, st, k, e, T)
           IN  /\ timings.start \in Nat /\ timings.stop \in Nat /\ timings.newT \in Nat
               /\ timings.start <= timings.stop
  <1> DEFINE w     == e[ClockOf(s)]
             start == TimeSince("lastSolveTimer", k, w)
             since == TimeSince("firstSolveTimer", k, w)
             delay == IF k.firstRun THEN 0 ELSE computeDelayToApply(s, k)
             stop  == Lower(start + delay, T)
  <1>1. start \in Nat /\ since \in Nat
    <2>1. ClockOf(s) \in Clocks /\ {"lastSolveTimer", "firstSolveTimer"} \subseteq Timers
      BY DEF ClockOf, Clocks, Timers
    <2> QED
      BY <2>1, TimeSinceType
  <1>2. delay \in Nat
    BY DelayType
  <1> HIDE DEF start, since, delay
  <1>3. stop \in Nat /\ Lower(start, T) \in Nat /\ Lower(start, T) <= stop
    BY <1>1, <1>2 DEF Lower
  <1> HIDE DEF stop
  <1>4. NewTimeHorizon(st, since, stop) \in Nat
    BY <1>1, <1>3, NewTimeHorizonType
  <1> QED
    BY <1>3, <1>4 DEF NewTimings, start, since, delay, stop, w

\* In a first run nothing has been measured: the horizon is the strategy's own.
Granted(s, T) ==
    CASE s.mpc_mode = "FIXED_FINAL_TIME_WITH_MIN_TIME_HORIZON" ->
            Higher(s.minimumTimeHorizonMpc, T)
      [] s.mpc_mode = "RECEDING_HORIZON_WITH_FIXED_FINAL_TIME" ->
            Lower(s.minimumTimeHorizonMpc, T)
      [] OTHER -> T

LEMMA FirstHorizon ==
    ASSUME NEW s \in Settings, NEW st \in Strategy, NEW k \in Keeper, NEW e \in Watches,
           NEW T \in Nat,
           k.firstRun \/ st.settings.mpc_mode = "CONSTANT_RECEDING_HORIZON"
    PROVE  NewTimings(s, st, k, e, T).newT = Granted(st.settings, st.initialT)
  <1>1. st.settings \in Settings /\ st.initialT \in Nat
    BY ChoiceIsSettings, HorizonIsTick DEF Strategy
  <1>2. st.settings.mpc_mode \in Modes
    BY <1>1 DEF Settings
  <1>3. CASE st.settings.mpc_mode = "CONSTANT_RECEDING_HORIZON"
    BY <1>3 DEF NewTimings, NewTimeHorizon, Granted
  <1>4. CASE k.firstRun
    <2>1. NewTimings(s, st, k, e, T).newT = NewTimeHorizon(st, 0, 0)
      BY <1>4 DEF NewTimings, TimeSince, Lower
    <2>2. TimeLeft(st, 0, 0) = st.initialT
      BY <1>1 DEF TimeLeft, Higher
    <2> QED
      BY <1>2, <2>1, <2>2 DEF NewTimeHorizon, Granted, Modes
  <1> QED
    BY <1>3, <1>4

\* What HorizonAsAsked says, in terms of Granted
LEMMA AsAsked ==
    HorizonAsAsked <=>
      (/\ pc # "idle" /\ strategy = "constructed"
       /\ keeper.firstRun \/ settings.mpc_mode = "CONSTANT_RECEDING_HORIZON"
       => K = StagesOf(Granted(settings, asked)))
  BY DEF HorizonAsAsked, Granted

LEMMA InitializedType ==
    InitializedKeeper \in Keeper /\ InitializedKeeper.firstRun = TRUE
  <1>1. 0 \in Ticks
    BY MaxElapsedAssumption DEF Ticks
  <1> QED
    BY <1>1, Zenon DEF InitializedKeeper, Keeper

\* Restarting stop watches
LEMMA OneRestarted ==
    ASSUME NEW e \in Watches, NEW c \in Clocks, NEW timer \in Timers, NEW t \in Ticks
    PROVE  [e EXCEPT ![c][timer] = t] \in Watches
  <1>1. e[c] \in [Timers -> Ticks]
    BY DEF Watches
  <1>2. [e[c] EXCEPT ![timer] = t] \in [Timers -> Ticks]
    BY <1>1
  <1> DEFINE restarted == [e[c] EXCEPT ![timer] = t]
  <1>3. [e EXCEPT ![c][timer] = t] = [e EXCEPT ![c] = restarted]
    OBVIOUS
  <1> HIDE DEF restarted
  <1> QED
    BY <1>2, <1>3 DEF Watches, restarted

LEMMA StoppedType ==
    ASSUME elapsed \in Watches, NEW t \in Ticks
    PROVE  StoppedWatches(t) \in Watches
  <1> DEFINE c   == ClockOf(settings)
             new == StoppedWatches(t)[c]
  <1>1. c \in Clocks /\ elapsed[c] \in [Timers -> Ticks]
    BY DEF ClockOf, Clocks, Watches
  <1>2. new \in [Timers -> Ticks] /\ StoppedWatches(t) = [elapsed EXCEPT ![c] = new]
    BY <1>1 DEF StoppedWatches, Watches
  <1> HIDE DEF c, new
  <1> QED
    BY <1>1, <1>2 DEF Watches

--------------------------------------------------------------------------------
(***************************************************************************)
(* Policies                                                                *)
(***************************************************************************)
LEMMA AssignedSize ==
    ASSUME NEW m \in Nat, NEW tr, OfSize(tr, m), NEW n \in Nat, NEW other, OfSize(other, n)
    PROVE  OfSize(Assigned(tr, other), n)
  <1>1. /\ tr = [time |-> tr.time, data |-> tr.data, index |-> tr.index] /\ tr.index \in Nat
        /\ other.time \in Seq(Int) /\ other.data \in Seq(Nat)
        /\ Len(other.time) = n /\ Len(other.data) = n
    BY OfSizeIs
  <1>2. Assigned(tr, other) = [time |-> other.time, data |-> other.data, index |-> tr.index]
    <2> DEFINE time == other.time
               data == other.data
    <2>1. Assigned(tr, other) = [tr EXCEPT !.time = time, !.data = data]
      BY DEF Assigned
    <2> HIDE DEF time, data
    <2>2. Assigned(tr, other) = [time |-> time, data |-> data, index |-> tr.index]
      BY <1>1, <2>1
    <2> QED
      BY <2>2 DEF time, data
  <1> QED
    BY <1>1, <1>2, ArrivesAtSize

LEMMA AssignedShaped ==
    ASSUME NEW m \in Nat \ {0}, Shaped(policy, m), NEW n \in Nat \ {0}
    PROVE  Shaped(PolicyOf(n), n)
  <1> DEFINE new == Solution(n)
  <1>1. Shaped(new, n)
    BY SolutionShaped
  <1> HIDE DEF new
  <1>2. /\ OfSize(policy.uff, m) /\ OfSize(policy.K, m) /\ OfSize(policy.x_ref, m + 1)
        /\ OfSize(new.uff, n) /\ OfSize(new.K, n) /\ OfSize(new.x_ref, n + 1)
    BY <1>1, ShapedParts
  <1>3. m + 1 \in Nat /\ n + 1 \in Nat
    OBVIOUS
  <1>4. OfSize(Assigned(policy.uff, new.uff), n)
    BY <1>2, AssignedSize
  <1>5. OfSize(Assigned(policy.K, new.K), n)
    BY <1>2, AssignedSize
  <1>6. OfSize(Assigned(policy.x_ref, new.x_ref), n + 1)
    BY <1>2, <1>3, AssignedSize
  <1> QED
    BY <1>4, <1>5, <1>6, ShapedParts DEF PolicyOf, new

LEMMA SolvedShaped ==
    ASSUME NEW m \in Nat \ {0}, Shaped(policy, m), K \in Nat \ {0}
    PROVE  Shaped(SolvedPolicy, K)
  BY AssignedShaped DEF SolvedPolicy

--------------------------------------------------------------------------------
(***************************************************************************)
(* The steps                                                               *)
(***************************************************************************)
LEMMA InitIInv == Init => IInv
  <1> SUFFICES ASSUME Init PROVE IInv
    OBVIOUS
  <1>1. /\ asked \in InitialHorizons /\ settings \in SettingsChoices
        /\ K = StagesOf(asked) /\ policy = Solution(K)
    BY DEF Init, InitialHorizons
  <1>2. K \in Nat \ {0}
    BY <1>1, HorizonIsTick, StagesOfPositive
  <1>3. Shaped(policy, K)
    BY <1>1, <1>2, SolutionShaped
  <1>4. keeper \in Keeper /\ keeper.firstRun = TRUE
    <2>1. keeper = [InitializedKeeper EXCEPT !.initialized = FALSE]
      BY DEF Init
    <2> QED
      BY <2>1, InitializedType DEF Keeper
  <1>5. elapsed \in Watches
    BY ResetTimersType, MaxElapsedAssumption DEF Init, Ticks
  <1>6. Typed
    <2>1. solve \in [age : 0 .. MaxSolve, external : [Timers -> Ticks]]
      BY <1>1, HorizonIsTick, MaxElapsedAssumption DEF Init, NoSolve, Ticks
    <2> QED
      BY <1>1, <1>2, <1>4, <1>5, <2>1 DEF Init, Typed, Strategies, Strategy, NoForward
  <1> QED
    BY <1>2, <1>3, <1>4, <1>6
    DEF Init, IInv, PolicyShaped, Mirrored, InOrder, HorizonAsAsked, Strategies

LEMMA PrepareStep ==
    ASSUME IInv, prepareIteration
    PROVE  IInv'
  <1> DEFINE k0      == IF firstRun THEN InitializedKeeper ELSE keeper
             watches == IF firstRun THEN ResetTimers(elapsed.external["timer"]) ELSE elapsed
             mine    == strategies["constructed"]
             timings == NewTimings(settings, mine, k0, watches, K * Dt)
  <1>1. /\ pc' = "prepared" /\ elapsed' = watches
        /\ keeper' = [k0 EXCEPT !.finalPointReached = FinalTimeReached(mine, timings.newT)]
        /\ forward' = [start |-> timings.start, stop |-> timings.stop]
        /\ K' = StagesOf(timings.newT)
        /\ policy' = DesignWarmStart(policy, timings.stop, timings.newT)
        /\ UNCHANGED <<settings, strategies, strategy, firstRun, solve, asked>>
    BY DEF prepareIteration
  <1>2. Typed /\ Mirrored
    BY DEF IInv
  <1>3. /\ mine \in Strategy /\ settings \in Settings /\ asked \in Nat
        /\ K * Dt \in Nat
    BY <1>2, ChoiceIsSettings, HorizonIsTick, DtAssumption DEF Typed, Strategies
  <1>4. k0 \in Keeper /\ k0.firstRun = firstRun
    BY <1>2, InitializedType DEF Typed, Mirrored
  <1>5. watches \in Watches
    <2>1. elapsed.external["timer"] \in Ticks
      BY <1>2 DEF Typed, Watches, Clocks, Timers
    <2> QED
      BY <1>2, <2>1, ResetTimersType DEF Typed
  <1> HIDE DEF k0, watches
  <1>6. /\ timings.start \in Nat /\ timings.stop \in Nat /\ timings.newT \in Nat
        /\ timings.start <= timings.stop
    BY <1>3, <1>4, <1>5, NewTimingsType
  <1>7. FinalTimeReached(mine, timings.newT) \in BOOLEAN
    BY <1>3, ChoiceIsSettings DEF FinalTimeReached, Strategy, Settings, Modes
  <1>8. k0.firstRun \/ mine.settings.mpc_mode = "CONSTANT_RECEDING_HORIZON"
        => timings.newT = Granted(mine.settings, mine.initialT)
    BY <1>3, <1>4, <1>5, FirstHorizon
  <1> HIDE DEF timings
  <1>9. K' \in Nat \ {0} /\ Shaped(policy', K')
    <2>1. PICK n \in Nat \ {0} : Shaped(policy, n)
      BY DEF IInv, PolicyShaped
    <2> QED
      BY <1>1, <1>6, <2>1, StagesOfPositive, WarmStartShaped
  <1>10. keeper' \in Keeper /\ keeper'.firstRun = firstRun
    BY <1>1, <1>4, <1>7 DEF Keeper
  <1>11. Typed'
    BY <1>1, <1>2, <1>5, <1>6, <1>9, <1>10 DEF Typed
  <1>12. PolicyShaped' /\ InOrder'
    BY <1>1, <1>6, <1>9 DEF PolicyShaped, InOrder
  <1>13. Mirrored'
    BY <1>1, <1>2, <1>10 DEF Mirrored
  <1>14. HorizonAsAsked'
    <2>1. ASSUME strategy = "constructed",
                 keeper'.firstRun \/ settings.mpc_mode = "CONSTANT_RECEDING_HORIZON"
          PROVE  K' = StagesOf(Granted(settings, asked))
      <3>1. mine.settings = settings /\ mine.initialT = asked
        BY <1>2, <2>1 DEF Mirrored
      <3> QED
        BY <1>1, <1>4, <1>8, <1>10, <2>1, <3>1
    <2> HIDE DEF mine
    <2> QED
      BY <1>1, <2>1 DEF HorizonAsAsked, Granted
  <1> QED
    BY <1>11, <1>12, <1>13, <1>14 DEF IInv

LEMMA BeginStep ==
    ASSUME IInv, beginFinishIteration
    PROVE  IInv'
  <1>1. /\ pc = "prepared" /\ pc' = "solving"
        /\ elapsed' = IF settings.measureDelay
                        THEN [elapsed EXCEPT ![ClockOf(settings)]["timer"] = 0] ELSE elapsed
        /\ UNCHANGED <<settings, strategies, strategy, keeper, firstRun, forward, K, policy,
                       asked>>
    BY DEF beginFinishIteration
  <1>2. Typed
    BY DEF IInv
  <1>3. elapsed' \in Watches
    <2>1. ClockOf(settings) \in Clocks /\ "timer" \in Timers /\ 0 \in Ticks
      BY MaxElapsedAssumption DEF ClockOf, Clocks, Timers, Ticks
    <2>2. elapsed \in Watches
      BY <1>2 DEF Typed
    <2>3. [elapsed EXCEPT ![ClockOf(settings)]["timer"] = 0] \in Watches
      BY <2>1, <2>2, OneRestarted
    <2> QED
      BY <1>1, <2>2, <2>3
  <1>4. solve' \in [age : 0 .. MaxSolve, external : [Timers -> Ticks]]
    BY <1>2, HorizonIsTick, MaxElapsedAssumption
    DEF beginFinishIteration, Typed, NoSolve, Watches, Clocks, Ticks
  <1> QED
    BY <1>1, <1>2, <1>3, <1>4
    DEF IInv, Typed, PolicyShaped, Mirrored, InOrder, HorizonAsAsked

LEMMA FinishStep ==
    ASSUME IInv, finishIteration
    PROVE  IInv'
  <1> DEFINE late  == settings.postTruncation /\ ~firstRun
                        /\ TimeSince("lastSolveTimer", keeper, WatchesAfterSolve) > forward.stop
             over  == TimeSince("lastSolveTimer", keeper, WatchesAfterSolve) - forward.stop
             delay == WatchesAfterSolve["timer"]
             now   == IF settings.useExternalTiming THEN solve.age ELSE 0
  <1>1. /\ pc = "solving" /\ pc' = "idle"
        /\ policy' = IF late THEN TruncateFront(SolvedPolicy, over) ELSE SolvedPolicy
        /\ elapsed' = StoppedWatches(now)
        /\ keeper' = [keeper EXCEPT !.firstRun = FALSE, !.lastMeasuredDelay = delay]
        /\ firstRun' = FALSE /\ forward' = NoForward /\ solve' = NoSolve
        /\ UNCHANGED <<settings, strategies, strategy, K, asked>>
    BY DEF finishIteration, IterationOver
  <1>2. Typed
    BY DEF IInv
  <1>3. WatchesAfterSolve \in [Timers -> Ticks]
    BY <1>2 DEF WatchesAfterSolve, Typed, Watches, Clocks
  <1>4. delay \in Ticks /\ now \in Ticks
    <2>1. delay \in Ticks
      BY <1>3 DEF Timers
    <2>2. now \in Ticks
      BY <1>2, HorizonIsTick, MaxElapsedAssumption DEF Typed, Ticks
    <2> QED
      BY <2>1, <2>2
  <1>5. over \in Int
    BY <1>2, <1>3, MaxElapsedAssumption DEF TimeSince, Typed, Timers, Ticks
  <1> HIDE DEF late, over, delay, now
  <1>6. keeper' \in Keeper /\ keeper'.firstRun = FALSE
    BY <1>1, <1>2, <1>4 DEF Typed, Keeper
  <1>7. elapsed' \in Watches
    BY <1>1, <1>2, <1>4, StoppedType DEF Typed
  <1>8. \E n \in Nat \ {0} : Shaped(policy', n)
    <2>1. K \in Nat \ {0} /\ Shaped(SolvedPolicy, K)
      BY <1>1, <1>2, SolvedShaped DEF IInv, PolicyShaped, Typed
    <2>2. CASE late
      BY <1>1, <1>5, <2>1, <2>2, TruncationShaped
    <2>3. CASE ~late
      BY <1>1, <2>1, <2>3
    <2> QED
      BY <2>2, <2>3
  <1>9. solve' \in [age : 0 .. MaxSolve, external : [Timers -> Ticks]] /\ forward' \in [start : Nat, stop : Nat]
    BY <1>1, <1>2, HorizonIsTick, MaxElapsedAssumption DEF NoSolve, NoForward, Typed, Ticks
  <1> QED
    BY <1>1, <1>2, <1>6, <1>7, <1>8, <1>9
    DEF IInv, Typed, PolicyShaped, Mirrored, InOrder, HorizonAsAsked

LEMMA FailStep ==
    ASSUME IInv, failIteration
    PROVE  IInv'
  <1>1. /\ pc' = "idle" /\ forward' = NoForward /\ solve' = NoSolve
        /\ UNCHANGED <<settings, strategies, strategy, keeper, elapsed, firstRun, K, policy, asked>>
    BY DEF failIteration, IterationOver, timing
  <1>2. Typed
    BY DEF IInv
  <1>3. solve' \in [age : 0 .. MaxSolve, external : [Timers -> Ticks]]
        /\ forward' \in [start : Nat, stop : Nat]
    BY <1>1, <1>2, HorizonIsTick, MaxElapsedAssumption DEF NoSolve, NoForward, Typed, Ticks
  <1> QED
    BY <1>1, <1>2, <1>3
    DEF IInv, Typed, PolicyShaped, Mirrored, InOrder, HorizonAsAsked

LEMMA ResetStep ==
    ASSUME IInv, NEW T \in Horizons, resetMpc(T)
    PROVE  IInv'
  <1>1. /\ pc' = "idle" /\ firstRun' = TRUE /\ K' = StagesOf(T) /\ asked' = T
        /\ strategies' = [strategies EXCEPT ![strategy].initialT = T]
        /\ keeper' = InitializedKeeper
        /\ elapsed' = ResetTimers(elapsed.external["timer"])
        /\ forward' = NoForward /\ solve' = NoSolve
        /\ UNCHANGED <<settings, strategy, policy>>
    BY DEF resetMpc, IterationOver
  <1>2. Typed /\ T \in InitialHorizons
    BY DEF IInv, InitialHorizons
  <1>3. elapsed' \in Watches
    <2>1. elapsed.external["timer"] \in Ticks
      BY <1>2 DEF Typed, Watches, Clocks, Timers
    <2> QED
      BY <1>1, <2>1, ResetTimersType
  <1>4. K' \in Nat \ {0}
    BY <1>1, <1>2, HorizonIsTick, StagesOfPositive
  <1>5. solve' \in [age : 0 .. MaxSolve, external : [Timers -> Ticks]]
        /\ forward' \in [start : Nat, stop : Nat]
    BY <1>1, <1>2, HorizonIsTick, MaxElapsedAssumption DEF NoSolve, NoForward, Typed, Ticks
  <1> DEFINE mine == [strategies[strategy] EXCEPT !.initialT = T]
  <1>6. strategies' = [strategies EXCEPT ![strategy] = mine]
    BY <1>1
  <1>7. mine \in Strategy /\ mine.settings = strategies[strategy].settings /\ mine.initialT = T
    BY <1>2 DEF Typed, Strategy
  <1>8. strategy = "constructed" => mine = [settings |-> settings, initialT |-> T]
    BY <1>2 DEF IInv, Mirrored
  <1> HIDE DEF mine
  <1>9. strategies' \in [Strategies -> Strategy] /\ strategies'[strategy] = mine
    BY <1>2, <1>6, <1>7 DEF Typed
  <1>10. Typed'
    BY <1>1, <1>2, <1>3, <1>4, <1>5, <1>9, InitializedType DEF Typed
  <1>11. Mirrored'
    BY <1>1, <1>8, <1>9, InitializedType DEF Mirrored
  <1> QED
    BY <1>1, <1>10, <1>11 DEF IInv, PolicyShaped, InOrder, HorizonAsAsked

LEMMA SettingsStep ==
    ASSUME IInv, NEW s \in SettingsChoices, updateSettings(s)
    PROVE  IInv'
  <1>1. /\ pc = "idle" /\ settings' = s
        /\ strategies' = [strategies EXCEPT ![strategy].settings = s]
        /\ UNCHANGED <<pc, strategy, keeper, elapsed, firstRun, forward, K, policy, solve, asked>>
    BY DEF updateSettings
  <1>2. Typed
    BY DEF IInv
  <1> DEFINE mine == [strategies[strategy] EXCEPT !.settings = s]
  <1>3. strategies' = [strategies EXCEPT ![strategy] = mine]
    BY <1>1
  <1>4. mine \in Strategy
    BY <1>2 DEF Typed, Strategy
  <1>5. strategy = "constructed" => mine = [settings |-> s, initialT |-> asked]
    BY <1>2 DEF IInv, Mirrored
  <1> HIDE DEF mine
  <1>6. strategies' \in [Strategies -> Strategy] /\ strategies'[strategy] = mine
    BY <1>2, <1>3, <1>4 DEF Typed
  <1> QED
    BY <1>1, <1>2, <1>5, <1>6
    DEF IInv, Typed, PolicyShaped, Mirrored, InOrder, HorizonAsAsked

LEMMA StrategyStep ==
    ASSUME IInv, NEW T \in Horizons, setTimeHorizonStrategy(T)
    PROVE  IInv'
  <1>1. /\ pc = "idle" /\ strategy' = "replacement"
        /\ strategies' = [strategies EXCEPT
                            !["replacement"] = [settings |-> settings, initialT |-> T]]
        /\ UNCHANGED <<pc, settings, keeper, elapsed, firstRun, forward, K, policy, solve, asked>>
    BY DEF setTimeHorizonStrategy
  <1>2. Typed /\ T \in InitialHorizons
    BY DEF IInv, InitialHorizons
  <1>3. [settings |-> settings, initialT |-> T] \in Strategy
    BY <1>2 DEF Typed, Strategy
  <1>4. strategies' \in [Strategies -> Strategy] /\ strategy' \in Strategies
    BY <1>1, <1>2, <1>3 DEF Typed, Strategies
  <1> QED
    BY <1>1, <1>2, <1>4
    DEF IInv, Typed, PolicyShaped, Mirrored, InOrder, HorizonAsAsked

LEMMA GuessStep ==
    ASSUME IInv, NEW n \in {K, K + 1}, setInitialGuess(n)
    PROVE  IInv'
  <1>1. /\ pc = "idle" /\ policy' = PolicyOf(n)
        /\ UNCHANGED <<pc, settings, strategies, strategy, keeper, elapsed, firstRun, forward, K,
                       solve, asked>>
    BY DEF setInitialGuess, timing
  <1>2. Typed
    BY DEF IInv
  <1>3. n \in Nat \ {0}
    BY <1>2 DEF Typed
  <1>4. \E m \in Nat \ {0} : Shaped(policy', m)
    BY <1>1, <1>3, AssignedShaped DEF IInv, PolicyShaped
  <1> QED
    BY <1>1, <1>2, <1>4
    DEF IInv, Typed, PolicyShaped, Mirrored, InOrder, HorizonAsAsked

LEMMA TickStep ==
    ASSUME IInv, Tick
    PROVE  IInv'
  <1>1. /\ pc = "solving" => solve.age < MaxSolve
        /\ elapsed' = OneTickOn(elapsed)
        /\ solve' = IF pc = "solving" THEN [solve EXCEPT !.age = @ + 1] ELSE solve
        /\ UNCHANGED <<pc, settings, strategies, strategy, keeper, firstRun, forward, K, policy,
                       asked>>
    BY DEF Tick
  <1>2. Typed
    BY DEF IInv
  <1>3. elapsed' \in Watches
    <2>1. \A c \in Clocks, t \in Timers : Lower(elapsed[c][t] + 1, MaxElapsed) \in Ticks
      BY <1>2, MaxElapsedAssumption DEF Typed, Watches, Ticks, Lower
    <2> QED
      BY <1>1, <2>1 DEF OneTickOn, Watches
  <1>4. solve' \in [age : 0 .. MaxSolve, external : [Timers -> Ticks]]
    <2>1. MaxSolve \in Nat
      BY <1>2, HorizonIsTick DEF Typed
    <2> QED
      BY <1>1, <1>2, <2>1 DEF Typed
  <1> QED
    BY <1>1, <1>2, <1>3, <1>4
    DEF IInv, Typed, PolicyShaped, Mirrored, InOrder, HorizonAsAsked

LEMMA StepIInv ==
    ASSUME IInv, [Next]_vars
    PROVE  IInv'
  <1>1. CASE prepareIteration
    BY <1>1, PrepareStep
  <1>2. CASE beginFinishIteration
    BY <1>2, BeginStep
  <1>3. CASE finishIteration
    BY <1>3, FinishStep
  <1>4. CASE failIteration
    BY <1>4, FailStep
  <1>5. CASE \E T \in Horizons : resetMpc(T)
    BY <1>5, ResetStep
  <1>6. CASE \E s \in SettingsChoices : updateSettings(s)
    BY <1>6, SettingsStep
  <1>7. CASE \E T \in Horizons : setTimeHorizonStrategy(T)
    BY <1>7, StrategyStep
  <1>8. CASE \E n \in {K, K + 1} : setInitialGuess(n)
    BY <1>8, GuessStep
  <1>9. CASE Tick
    BY <1>9, TickStep
  <1>10. CASE UNCHANGED vars
    <2>1. UNCHANGED <<pc, settings, strategies, strategy, keeper, elapsed, firstRun, forward, K,
                      policy, solve, asked>>
      BY <1>10 DEF vars, timing, history
    <2>2. Typed' /\ PolicyShaped'
      BY <2>1 DEF IInv, Typed, PolicyShaped
    <2>3. Mirrored' /\ InOrder' /\ HorizonAsAsked'
      BY <2>1 DEF IInv, Mirrored, InOrder, HorizonAsAsked
    <2> QED
      BY <2>2, <2>3 DEF IInv
  <1> QED
    BY <1>1, <1>2, <1>3, <1>4, <1>5, <1>6, <1>7, <1>8, <1>9, <1>10 DEF Next

--------------------------------------------------------------------------------
(***************************************************************************)
(* The theorems                                                            *)
(***************************************************************************)

\* Whatever is called in whatever order, every state has the invariant.
THEOREM Invariant == Spec => []IInv
  <1>1. Init => IInv
    BY InitIInv
  <1>2. IInv /\ [Next]_vars => IInv'
    BY StepIInv
  <1> QED
    BY <1>1, <1>2, PTL DEF Spec

\* The solver is never given a guess that is too short: the warm start of
\* designWarmStartingPolicy has the number of stages changeTimeHorizon set.
THEOREM WarmStartFits == Spec => []GuessAccepted
  <1>1. IInv => GuessAccepted
    BY DEF IInv, PolicyShaped, GuessAccepted, Shaped
  <1> QED
    BY <1>1, Invariant, PTL

\* A first iteration, or any with a constant receding horizon, plans over
\* the horizon asked for: the two first-run flags never part.
THEOREM HorizonGranted == Spec => []HorizonAsAsked
  <1>1. IInv => HorizonAsAsked
    BY DEF IInv
  <1> QED
    BY <1>1, Invariant, PTL
--------------------------------------------------------------------------------
(***************************************************************************)
(* Time stamps of outgoing policies                                        *)
(***************************************************************************)

\* What a solver with n stages returns in a trajectory
Planned(tr, n) == /\ OfSize(tr, n)
                  /\ tr.time = [i \in 1 .. n |-> (i - 1) * Dt]
                  /\ tr.data = [i \in 1 .. n |-> i - 1]

\* Each element falls on the time of its stage when ts is added to its stamp.
OnTimeFrom(tr, ts) == \A i \in DOMAIN tr.time : ts + tr.time[i] = tr.data[i] * Dt

PlannedPolicy(p, n) ==
    Shaped(p, n) /\ Planned(p.uff, n) /\ Planned(p.K, n) /\ Planned(p.x_ref, n + 1)

LEMMA AssignedPlanned ==
    ASSUME NEW m \in Nat, NEW tr, OfSize(tr, m), NEW n \in Nat
    PROVE  Planned(Assigned(tr, Uniform(Stages(n), Dt)), n)
  <1> DEFINE time == [i \in 1 .. n |-> (i - 1) * Dt]
             data == [i \in 1 .. n |-> i - 1]
             other == Uniform(Stages(n), Dt)
  <1>1. other.time = time /\ other.data = data /\ OfSize(other, n)
    <2>1. Stages(n) = data /\ Len(data) = n
      BY DEF Stages
    <2>2. other = [time |-> time, data |-> data, index |-> 0]
      BY <2>1 DEF Uniform
    <2>3. time \in Seq(Int) /\ data \in Seq(Nat) /\ Len(time) = n
      BY DtAssumption
    <2> HIDE DEF other, time, data
    <2> QED
      BY <2>1, <2>2, <2>3, ArrivesAtSize
  <1>2. OfSize(Assigned(tr, other), n)
    BY <1>1, AssignedSize
  <1>3. Assigned(tr, other).time = other.time /\ Assigned(tr, other).data = other.data
    <2>1. tr = [time |-> tr.time, data |-> tr.data, index |-> tr.index]
      BY OfSizeIs
    <2> HIDE DEF other
    <2> DEFINE a == other.time
               b == other.data
    <2>2. Assigned(tr, other) = [tr EXCEPT !.time = a, !.data = b]
      BY DEF Assigned
    <2> HIDE DEF a, b
    <2>3. Assigned(tr, other) = [time |-> a, data |-> b, index |-> tr.index]
      BY <2>1, <2>2
    <2> QED
      BY <2>3 DEF a, b
  <1> QED
    BY <1>1, <1>2, <1>3 DEF Planned

LEMMA PolicyPlanned ==
    ASSUME NEW m \in Nat \ {0}, Shaped(policy, m), NEW n \in Nat \ {0}
    PROVE  PlannedPolicy(PolicyOf(n), n)
  <1>1. /\ OfSize(policy.uff, m) /\ OfSize(policy.K, m) /\ OfSize(policy.x_ref, m + 1)
        /\ m + 1 \in Nat /\ n + 1 \in Nat
    BY ShapedParts
  <1>2. Planned(PolicyOf(n).uff, n) /\ Planned(PolicyOf(n).K, n)
    BY <1>1, AssignedPlanned DEF PolicyOf, Solution
  <1>3. Planned(PolicyOf(n).x_ref, n + 1)
    BY <1>1, AssignedPlanned DEF PolicyOf, Solution
  <1> QED
    BY <1>2, <1>3, AssignedShaped DEF PlannedPolicy

LEMMA SolvedPlanned ==
    ASSUME NEW m \in Nat \ {0}, Shaped(policy, m), K \in Nat \ {0}
    PROVE  PlannedPolicy(SolvedPolicy, K)
  BY PolicyPlanned DEF SolvedPolicy

LEMMA PlannedOnTime ==
    ASSUME NEW n \in Nat, NEW tr, Planned(tr, n)
    PROVE  OnTimeFrom(tr, 0)
  BY DtAssumption DEF Planned, OnTimeFrom

\* Erasing the front moves the stamps by the time of the stages erased.
LEMMA ErasedOnTime ==
    ASSUME NEW n \in Nat, NEW tr, Planned(tr, n), NEW shift \in 0 .. n - 1
    PROVE  OnTimeFrom(EraseFront(tr, shift, shift * Dt), shift * Dt)
  <1> DEFINE e == EraseFront(tr, shift, shift * Dt)
             s == shift * Dt
  <1>0. s \in Int
    BY DtAssumption
  <1>1. /\ e.time = [i \in 1 .. n - shift |-> tr.time[i + shift] - s]
        /\ e.data = SubSeq(tr.data, shift + 1, n)
    <2>1. /\ tr = [time |-> tr.time, data |-> tr.data, index |-> tr.index]
          /\ Len(tr.time) = n /\ Len(tr.data) = n
      BY OfSizeIs DEF Planned
    <2> DEFINE time == [i \in 1 .. n - shift |-> tr.time[i + shift] - s]
               data == SubSeq(tr.data, shift + 1, n)
    <2>2. e = [tr EXCEPT !.time = time, !.data = data]
      BY <2>1 DEF EraseFront, Size
    <2> HIDE DEF e, time, data
    <2>3. e = [time |-> time, data |-> data, index |-> tr.index]
      BY <2>1, <2>2
    <2> QED
      BY <2>3 DEF time, data
  <1>2. ASSUME NEW i \in 1 .. n - shift
        PROVE  e.time[i] = (i + shift - 1) * Dt - s /\ e.data[i] = i + shift - 1
    <2>1. i + shift \in 1 .. n /\ tr.data \in Seq(Nat) /\ Len(tr.data) = n
      BY OfSizeIs DEF Planned
    <2>2. tr.time[i + shift] = (i + shift - 1) * Dt /\ tr.data[i + shift] = i + shift - 1
      BY <2>1 DEF Planned
    <2>3. e.time[i] = tr.time[i + shift] - s
      BY <1>1
    <2>4. SubSeq(tr.data, shift + 1, n)[i] = tr.data[i + shift]
      <3>1. /\ tr.data \in Seq(Nat) /\ shift + 1 \in 1 .. Len(tr.data) + 1 /\ n \in shift .. Len(tr.data)
            /\ i \in 1 .. n - (shift + 1) + 1 /\ shift + 1 + i - 1 = i + shift
        BY <2>1
      <3> QED
        BY <3>1, SubSeqProperties
    <2> QED
      BY <1>1, <2>2, <2>3, <2>4
  <1> HIDE DEF e, s
  <1>3. ASSUME NEW i \in 1 .. n - shift PROVE s + e.time[i] = e.data[i] * Dt
    <2> DEFINE p == (i + shift - 1) * Dt
    <2>1. p \in Int
      BY DtAssumption
    <2>2. e.time[i] = p - s /\ e.data[i] * Dt = p
      BY <1>2
    <2> HIDE DEF p
    <2> QED
      BY <1>0, <2>1, <2>2
  <1>4. DOMAIN e.time = 1 .. n - shift
    BY <1>1
  <1> QED
    BY <1>3, <1>4 DEF OnTimeFrom, e, s

\* The policy that truncateSolutionFront leaves, and the number of stages it
\* has cut: the caller adds their time to the stamp.
LEMMA TruncatedOnTime ==
    ASSUME NEW n \in Nat \ {0}, NEW p, PlannedPolicy(p, n), NEW delay \in Int
    PROVE  /\ EffectivelyTruncated(p, delay) \in Nat
           /\ OnTimeFrom(TruncateFront(p, delay).uff, EffectivelyTruncated(p, delay))
           /\ OnTimeFrom(TruncateFront(p, delay).K, EffectivelyTruncated(p, delay))
           /\ OnTimeFrom(TruncateFront(p, delay).x_ref, EffectivelyTruncated(p, delay))
           /\ Size(TruncateFront(p, delay).uff) = n - ShiftOf(p, delay)
  <1> DEFINE s == ShiftOf(p, delay)
             q == AfterLookUp(p, delay)
  <1>1. s \in 0 .. n - 1 /\ Shaped(q, n)
    BY LookUpKeepsShape DEF PlannedPolicy
  <1>2. q.K = p.K /\ q.x_ref = p.x_ref /\ q.uff.time = p.uff.time /\ q.uff.data = p.uff.data
    <2>1. /\ p = [uff |-> p.uff, K |-> p.K, x_ref |-> p.x_ref]
          /\ p.uff = [time |-> p.uff.time, data |-> p.uff.data, index |-> p.uff.index]
      BY ShapedParts, OfSizeIs DEF PlannedPolicy
    <2> DEFINE u == LookedUp(p.uff, delay)
    <2>2. u.time = p.uff.time /\ u.data = p.uff.data
      BY <2>1 DEF LookedUp
    <2>3. q = [p EXCEPT !.uff = u]
      BY DEF AfterLookUp
    <2> HIDE DEF q, u
    <2> QED
      BY <2>1, <2>2, <2>3
  <1>3. Planned(q.uff, n) /\ Planned(q.K, n) /\ Planned(q.x_ref, n + 1)
    BY <1>1, <1>2, ShapedParts DEF Planned, PlannedPolicy
  <1>4. /\ s * Dt \in Nat /\ EffectivelyTruncated(p, delay) = s * Dt
        /\ TruncateFront(p, delay) = Shifted(q, s)
    BY <1>1, DtAssumption DEF EffectivelyTruncated, TruncateFront
  <1>5. Size(Shifted(q, s).uff) = n - s
    <2>1. Shaped(Shifted(q, s), n - s)
      BY <1>1, ShiftKeepsShape
    <2> QED
      BY <2>1 DEF Shaped, Shape
  <1> HIDE DEF s, q
  <1>6. CASE s = 0
    <2>1. Shifted(q, s) = q /\ s * Dt = 0
      BY <1>6, DtAssumption DEF Shifted
    <2> QED
      BY <1>3, <1>4, <1>5, <2>1, PlannedOnTime DEF s
  <1>7. CASE s # 0
    <2> DEFINE E(tr) == EraseFront(tr, s, s * Dt)
    <2>1. Shifted(q, s) = [uff |-> E(q.uff), K |-> E(q.K), x_ref |-> E(q.x_ref)]
      BY <1>7 DEF Shifted, EachOf
    <2>2. OnTimeFrom(E(q.uff), s * Dt) /\ OnTimeFrom(E(q.K), s * Dt)
      BY <1>1, <1>3, ErasedOnTime
    <2>3. OnTimeFrom(E(q.x_ref), s * Dt)
      <3>1. n + 1 \in Nat /\ s \in 0 .. n + 1 - 1
        BY <1>1
      <3> QED
        BY <1>3, <3>1, ErasedOnTime
    <2> HIDE DEF E
    <2> QED
      BY <1>4, <1>5, <2>1, <2>2, <2>3 DEF s
  <1> QED
    BY <1>6, <1>7

\* How far a policy reaches on the time axis of the solve that it comes from:
\* the stages it has and those that were cut off at its front.
Reach(tr) == Len(tr.data) + tr.data[1]

LEMMA ReachIsNat ==
    ASSUME NEW n \in Nat \ {0}, NEW tr, OfSize(tr, n)
    PROVE  Reach(tr) \in Nat /\ Reach(tr) >= n
  <1>1. tr.data \in Seq(Nat) /\ Len(tr.data) = n
    BY OfSizeIs
  <1>2. tr.data[1] \in Nat
    BY <1>1, ElementOfSeq
  <1> QED
    BY <1>1, <1>2 DEF Reach

LEMMA PlannedReach ==
    ASSUME NEW n \in Nat \ {0}, NEW tr, Planned(tr, n)
    PROVE  Reach(tr) = n
  BY DEF Planned, Reach

\* Erasing the front does not move the end.
LEMMA ErasedReach ==
    ASSUME NEW n \in Nat \ {0}, NEW tr, Planned(tr, n), NEW shift \in 0 .. n - 1, NEW dt \in Int
    PROVE  Reach(EraseFront(tr, shift, dt)) = n
  <1> DEFINE time == [i \in 1 .. Size(tr) - shift |-> tr.time[i + shift] - dt]
             data == SubSeq(tr.data, shift + 1, n)
             e    == EraseFront(tr, shift, dt)
  <1>1. /\ tr = [time |-> tr.time, data |-> tr.data, index |-> tr.index]
        /\ tr.data \in Seq(Nat) /\ Len(tr.data) = n
    BY OfSizeIs DEF Planned
  <1>2. e.data = data
    <2>1. e = [tr EXCEPT !.time = time, !.data = data]
      BY <1>1 DEF EraseFront
    <2> HIDE DEF e, time, data
    <2>2. e = [time |-> time, data |-> data, index |-> tr.index]
      BY <1>1, <2>1
    <2> QED
      BY <2>2
  <1>3. Len(data) = n - shift
    <2>1. shift + 1 \in Int /\ n \in Int /\ shift + 1 <= n /\ n - (shift + 1) + 1 = n - shift
      OBVIOUS
    <2>2. ASSUME NEW i \in shift + 1 .. n PROVE tr.data[i] \in Nat
      <3>1. i \in 1 .. Len(tr.data)
        BY <1>1
      <3> QED
        BY <1>1, <3>1, ElementOfSeq
    <2> QED
      BY <2>1, <2>2, SubSeqProperties
  <1>4. data[1] = shift
    <2>1. /\ shift + 1 \in 1 .. Len(tr.data) + 1 /\ n \in shift .. Len(tr.data)
          /\ 1 \in 1 .. n - (shift + 1) + 1 /\ shift + 1 + 1 - 1 = shift + 1
      BY <1>1
    <2>2. data[1] = tr.data[shift + 1]
      BY <1>1, <2>1, SubSeqProperties
    <2>3. shift + 1 \in 1 .. n
      OBVIOUS
    <2> QED
      BY <2>2, <2>3 DEF Planned
  <1> HIDE DEF e, data
  <1> QED
    BY <1>2, <1>3, <1>4 DEF Reach, e

LEMMA TruncatedReach ==
    ASSUME NEW n \in Nat \ {0}, NEW p, PlannedPolicy(p, n), NEW delay \in Int
    PROVE  Reach(TruncateFront(p, delay).uff) = n
  <1> DEFINE s == ShiftOf(p, delay)
             q == AfterLookUp(p, delay)
  <1>1. s \in 0 .. n - 1 /\ Shaped(q, n)
    BY LookUpKeepsShape DEF PlannedPolicy
  <1>2. q.uff.time = p.uff.time /\ q.uff.data = p.uff.data
    <2>1. /\ p = [uff |-> p.uff, K |-> p.K, x_ref |-> p.x_ref]
          /\ p.uff = [time |-> p.uff.time, data |-> p.uff.data, index |-> p.uff.index]
      BY ShapedParts, OfSizeIs DEF PlannedPolicy
    <2> DEFINE u == LookedUp(p.uff, delay)
    <2>2. u.time = p.uff.time /\ u.data = p.uff.data
      BY <2>1 DEF LookedUp
    <2>3. q = [p EXCEPT !.uff = u]
      BY DEF AfterLookUp
    <2> HIDE DEF q, u
    <2> QED
      BY <2>1, <2>2, <2>3
  <1>3. Planned(q.uff, n)
    BY <1>1, <1>2, ShapedParts DEF Planned, PlannedPolicy
  <1>4. TruncateFront(p, delay) = Shifted(q, s) /\ s * Dt \in Int
    BY <1>1, DtAssumption DEF TruncateFront
  <1> HIDE DEF s, q
  <1>5. CASE s = 0
    BY <1>3, <1>4, <1>5, PlannedReach DEF Shifted
  <1>6. CASE s # 0
    <2>1. Shifted(q, s).uff = EraseFront(q.uff, s, s * Dt)
      BY <1>6 DEF Shifted, EachOf
    <2> QED
      BY <1>1, <1>3, <1>4, <2>1, ErasedReach
  <1> QED
    BY <1>5, <1>6

\* The stages of a fresh policy that are cut reach to within one stage of the
\* delay, unless only the last one is left.
LEMMA ShiftReaches ==
    ASSUME NEW n \in Nat \ {0}, NEW p, PlannedPolicy(p, n), NEW delay \in Int
    PROVE  \/ EffectivelyTruncated(p, delay) + Dt > delay
           \/ ShiftOf(p, delay) = n - 1
  <1> DEFINE tr == p.uff
             All == {0} \cup {i \in 0 .. n - 1 : tr.time[i + 1] <= delay}
             s == ShiftOf(p, delay)
  <1>1. OfSize(tr, n) /\ Found(tr) /\ tr.time = [i \in 1 .. n |-> (i - 1) * Dt] /\ Len(tr.time) = n
    BY OfSizeIs DEF PlannedPolicy, Planned, Found, OfSize, Size
  <1>2. Sorted(tr.time)
    <2>1. ASSUME NEW i \in 1 .. n, NEW j \in 1 .. n, i < j PROVE (i - 1) * Dt < (j - 1) * Dt
      BY <2>1, DtAssumption
    <2> QED
      BY <1>1, <2>1 DEF Sorted
  <1>3. FindIndex(tr, delay) = GreatestIn(All)
    <2>1. FindIndex(tr, delay) = IndexOf(tr.time, delay)
      BY <1>1, <1>2, FindIndexIsIndexOf
    <2> QED
      BY <1>1, <2>1 DEF IndexOf
  <1>4. GreatestIn(All) \in All /\ \A j \in All : j <= GreatestIn(All)
    <2>1. All \subseteq 0 .. n - 1 /\ All # {} /\ n - 1 \in Nat
      OBVIOUS
    <2> HIDE DEF All
    <2> QED
      BY <2>1, GreatestExists
  <1>5. s \in 0 .. n - 1 /\ s = GreatestIn(All)
    <2>1. FindIndex(tr, delay) \in 0 .. n - 1
      BY <1>1, FindIndexBound DEF OfSize
    <2>2. Size(p.uff) = n
      BY <1>1 DEF OfSize
    <2> HIDE DEF All
    <2> QED
      BY <1>3, <2>1, <2>2 DEF ShiftOf
  <1> HIDE DEF s
  <1>6. ASSUME s # n - 1 PROVE s * Dt + Dt > delay
    <2>1. s + 1 \in 0 .. n - 1 /\ s + 1 \notin All
      <3>1. \A j \in All : j <= s
        BY <1>4, <1>5
      <3> HIDE DEF All
      <3> QED
        BY <1>5, <1>6, <3>1
    <2>2. ~(tr.time[s + 1 + 1] <= delay) /\ tr.time[s + 1 + 1] = (s + 1) * Dt
      BY <1>1, <2>1
    <2>3. (s + 1) * Dt = s * Dt + Dt /\ s * Dt \in Int
      BY <1>5, DtAssumption
    <2> QED
      BY <2>2, <2>3, DtAssumption
  <1> QED
    BY <1>6 DEF s, EffectivelyTruncated

--------------------------------------------------------------------------------
(***************************************************************************)
(* The state prediction                                                    *)
(***************************************************************************)

\* index_ of a copy of the trajectory after one evaluation
IndexAfter(tr, index, t) == Evaluated([tr EXCEPT !.index = index], t).index

LEMMA CopyFound ==
    ASSUME NEW tr, Found(tr), NEW index \in Nat
    PROVE  Found([tr EXCEPT !.index = index])
  BY DEF Found, Trajectory, Size

LEMMA IndexAfterType ==
    ASSUME NEW tr, Found(tr), NEW index \in Nat, NEW t \in Int
    PROVE  IndexAfter(tr, index, t) \in Nat
  <1> DEFINE copy == [tr EXCEPT !.index = index]
  <1>1. Found(copy)
    BY CopyFound
  <1> HIDE DEF copy
  <1>2. Size(copy) \in Nat /\ FindIndex(copy, t) \in 0 .. Size(copy) - 1
    BY <1>1, FindIndexBound, StartIndexBound
  <1>3. copy.index \in Nat /\ LookedUp(copy, t).index = FindIndex(copy, t)
    BY <1>1 DEF Found, Trajectory, LookedUp
  <1> QED
    BY <1>2, <1>3 DEF IndexAfter, Evaluated, copy

LEMMA EvalType ==
    ASSUME NEW tr, Found(tr), Consistent(tr), NEW index \in Nat, NEW t \in Int
    PROVE  Eval([tr EXCEPT !.index = index], t) \in Nat
  <1> DEFINE copy == [tr EXCEPT !.index = index]
  <1>1. Found(copy) /\ Consistent(copy)
    BY CopyFound DEF Consistent, Found, Trajectory
  <1> HIDE DEF copy
  <1>2. /\ Size(copy) \in Nat \ {0} /\ FindIndex(copy, t) \in 0 .. Size(copy) - 1
        /\ copy.data \in Seq(Nat) /\ Len(copy.data) = Size(copy)
    BY <1>1, FindIndexBound, StartIndexBound DEF Consistent, Size, Found, Trajectory
  <1>3. \A i \in 1 .. Size(copy) : copy.data[i] \in Nat
    BY <1>2, ElementOfSeq
  <1>4. 1 \in 1 .. Size(copy) /\ FindIndex(copy, t) + 1 \in 1 .. Size(copy)
    BY <1>2
  <1> QED
    BY <1>3, <1>4 DEF Eval, copy

\* The indices of the copy, one evaluation after the other
Following(tr, start, f, n) ==
    f = [k \in 0 .. n |-> IF k = 0 THEN 0 ELSE IndexAfter(tr, f[k - 1], start + k - 1)]

LEMMA FollowingExists ==
    ASSUME NEW tr, NEW start \in Int, NEW n \in Nat
    PROVE  \E f : Following(tr, start, f, n)
  <1> DEFINE Missing == {m \in Nat : ~\E f : Following(tr, start, f, m)}
  <1> SUFFICES ASSUME Missing # {} PROVE FALSE
    OBVIOUS
  <1>1. PICK m \in Missing : \A j \in Missing : m <= j
    <2>1. Missing \subseteq Nat
      OBVIOUS
    <2> HIDE DEF Missing
    <2> QED
      BY <2>1, LeastExists
  <1>2. m # 0
    <2>1. Following(tr, start, [k \in 0 .. 0 |-> 0], 0)
      BY DEF Following
    <2> QED
      BY <2>1
  <1>3. PICK f : Following(tr, start, f, m - 1)
    <2>1. m - 1 \in Nat /\ m - 1 \notin Missing
      BY <1>1, <1>2
    <2> QED
      BY <2>1
  <1> DEFINE g == [k \in 0 .. m |-> IF k = m THEN IndexAfter(tr, f[m - 1], start + m - 1)
                                             ELSE f[k]]
  <1>4. ASSUME NEW k \in 0 .. m
        PROVE  g[k] = IF k = 0 THEN 0 ELSE IndexAfter(tr, g[k - 1], start + k - 1)
    <2>1. CASE k = m
      <3>1. m - 1 \in 0 .. m /\ m - 1 # m
        BY <1>1, <1>2
      <3> QED
        BY <1>2, <2>1, <3>1
    <2>2. CASE k # m
      <3>1. k \in 0 .. m - 1 /\ (k # 0 => k - 1 \in 0 .. m /\ k - 1 # m)
        BY <1>1, <2>2
      <3>2. f[k] = IF k = 0 THEN 0 ELSE IndexAfter(tr, f[k - 1], start + k - 1)
        BY <1>3, <3>1 DEF Following
      <3> QED
        BY <2>2, <3>1, <3>2
    <2> QED
      BY <2>1, <2>2
  <1>5. Following(tr, start, g, m)
    <2> DEFINE h == [k \in 0 .. m |-> IF k = 0 THEN 0 ELSE IndexAfter(tr, g[k - 1], start + k - 1)]
    <2>1. g = [k \in 0 .. m |-> g[k]]
      OBVIOUS
    <2> HIDE DEF g
    <2>2. g = h
      BY <1>4, <2>1
    <2> QED
      BY <2>2 DEF Following
  <1> QED
    BY <1>1, <1>5

LEMMA FollowingType ==
    ASSUME NEW tr, Found(tr), NEW start \in Int, NEW n \in Nat, NEW f, Following(tr, start, f, n),
           NEW i \in 0 .. n
    PROVE  f[i] \in Nat
  <1> DEFINE Wrong == {m \in 0 .. n : f[m] \notin Nat}
  <1> SUFFICES ASSUME Wrong # {} PROVE FALSE
    OBVIOUS
  <1>1. PICK m \in Wrong : \A j \in Wrong : m <= j
    <2>1. Wrong \subseteq Nat
      OBVIOUS
    <2> HIDE DEF Wrong
    <2> QED
      BY <2>1, LeastExists
  <1>2. f[m] = IF m = 0 THEN 0 ELSE IndexAfter(tr, f[m - 1], start + m - 1)
    BY DEF Following
  <1>3. m # 0
    BY <1>2
  <1>4. m - 1 \in 0 .. n /\ m - 1 \notin Wrong /\ start + m - 1 \in Int
    BY <1>1, <1>3
  <1>5. f[m - 1] \in Nat
    BY <1>4
  <1> QED
    BY <1>2, <1>3, <1>4, <1>5, IndexAfterType

\* The prediction applies one stage per tick.
LEMMA PredictionIs ==
    ASSUME NEW tr, Found(tr), Consistent(tr), NEW start \in Nat, NEW stop \in Nat, start <= stop
    PROVE  Prediction(tr, start, stop) \in Seq(Nat) /\ Len(Prediction(tr, start, stop)) = stop - start
  <1> DEFINE n == stop - start
             indices == CHOOSE f : Following(tr, start, f, n)
  <1>1. n \in Nat
    OBVIOUS
  <1>2. Following(tr, start, indices, n)
    <2> HIDE DEF n
    <2>1. \E f : Following(tr, start, f, n)
      BY <1>1, FollowingExists
    <2> QED
      BY <2>1
  <1>3. Prediction(tr, start, stop)
          = [k \in 1 .. n |-> Eval([tr EXCEPT !.index = indices[k - 1]], start + k - 1)]
    BY DEF Prediction, Following, IndexAfter
  <1> HIDE DEF n, indices
  <1>4. ASSUME NEW k \in 1 .. n
        PROVE  Eval([tr EXCEPT !.index = indices[k - 1]], start + k - 1) \in Nat
    <2>1. k - 1 \in 0 .. n /\ start + k - 1 \in Int
      BY <1>1
    <2>2. indices[k - 1] \in Nat
      BY <1>1, <1>2, <2>1, FollowingType
    <2> QED
      BY <2>1, <2>2, EvalType
  <1>5. Prediction(tr, start, stop) \in [1 .. n -> Nat]
    BY <1>3, <1>4
  <1> QED
    BY <1>1, <1>5 DEF n

--------------------------------------------------------------------------------
(***************************************************************************)
(* Watches that keep up with the solver                                    *)
(***************************************************************************)

LEMMA ProductMonotone ==
    ASSUME NEW m \in Nat, NEW n \in Nat, m <= n
    PROVE  m * Dt <= n * Dt /\ m * Dt \in Nat /\ n * Dt \in Nat
  <1>1. PICK d \in Nat : n = m + d
    <2>1. n - m \in Nat /\ n = m + (n - m)
      OBVIOUS
    <2> QED
      BY <2>1
  <1>2. d * Dt \in Nat /\ m * Dt \in Nat /\ (m + d) * Dt = m * Dt + d * Dt
    BY DtAssumption
  <1> QED
    BY <1>1, <1>2

\* A longer horizon has no fewer stages.
LEMMA StagesMonotone ==
    ASSUME NEW S \in Nat, NEW T \in Nat, S <= T
    PROVE  StagesOf(S) <= StagesOf(T)
  <1> DEFINE a == 2 * S + Dt
             b == 2 * T + Dt
             c == 2 * Dt
  <1>1. a \in Nat /\ b \in Nat /\ c \in Nat \ {0} /\ a <= b
    BY DtAssumption
  <1>2. a \div c \in Int /\ b \div c \in Int /\ a \div c <= b \div c
    <2> HIDE DEF a, b, c
    <2> QED
      BY <1>1
  <1>3. CASE 2 * S < Dt
    <2>1. StagesOf(S) = 1 /\ StagesOf(T) \in Nat \ {0}
      BY <1>3, StagesOfPositive DEF StagesOf
    <2> QED
      BY <2>1
  <1>4. CASE ~(2 * S < Dt)
    <2>1. StagesOf(S) = a \div c /\ StagesOf(T) = b \div c
      BY <1>4, DtAssumption DEF StagesOf
    <2> QED
      BY <1>2, <2>1
  <1> QED
    BY <1>3, <1>4

\* The horizon of a whole number of stages has that many stages.
LEMMA WholeStagesKept ==
    ASSUME NEW T \in Nat
    PROVE  StagesOf(WholeStages(T)) = StagesOf(T)
  <1> DEFINE n == StagesOf(T)
             b == 2 * Dt
             a == n * b + Dt
             q == a \div b
  <1>1. n \in Nat \ {0} /\ Dt \in Nat \ {0}
    BY StagesOfPositive, DtAssumption
  <1> HIDE DEF n
  <1>2. n * Dt \in Nat /\ n * Dt >= Dt /\ 2 * (n * Dt) = n * b /\ b \in Nat \ {0} /\ Dt < b
    BY <1>1
  <1>3. StagesOf(n * Dt) = q
    BY <1>1, <1>2 DEF StagesOf
  <1>4. q = n
    <2>1. n * b \in Nat /\ (n + 1) * b = n * b + b
      BY <1>1, <1>2
    <2> HIDE DEF b
    <2>2. a \in Nat /\ n * b <= a /\ a < (n + 1) * b
      BY <1>1, <1>2, <2>1
    <2> HIDE DEF a
    <2>3. q \in Int /\ q * b <= a /\ a < (q + 1) * b
      BY <1>2, <2>2
    <2> HIDE DEF q
    <2>4. ~(q < n) /\ ~(n < q)
      <3>1. ASSUME NEW x \in Int, NEW y \in Int, x < y PROVE (x + 1) * b <= y * b
        BY <1>2, <3>1
      <3>2. q * b \in Int /\ (q + 1) * b \in Int /\ n * b \in Int /\ (n + 1) * b \in Int
        BY <1>1, <1>2, <2>3
      <3> QED
        BY <1>1, <2>2, <2>3, <3>1, <3>2
    <2> QED
      BY <1>1, <2>3, <2>4
  <1> QED
    BY <1>3, <1>4 DEF WholeStages, n

AskedHorizons == InitialHorizons \cup {s.minimumTimeHorizonMpc : s \in SettingsChoices}

\* The new horizon is not longer than one somebody asked for.
LEMMA HorizonBounded ==
    ASSUME NEW st \in Strategy, NEW since \in Nat, NEW stop \in Nat
    PROVE  \E T \in AskedHorizons : T \in Nat /\ NewTimeHorizon(st, since, stop) <= T
  <1> DEFINE init == st.initialT
             min  == st.settings.minimumTimeHorizonMpc
             left == TimeLeft(st, since, stop)
  <1>1. /\ st.settings \in SettingsChoices /\ st.settings \in Settings
        /\ init \in InitialHorizons /\ init \in Nat
    BY ChoiceIsSettings, HorizonIsTick DEF Strategy
  <1>2. min \in Nat /\ st.settings.mpc_mode \in Modes
    BY <1>1 DEF Settings
  <1>3. min \in AskedHorizons /\ init \in AskedHorizons
    BY <1>1 DEF AskedHorizons
  <1>4. left \in Nat /\ left <= init
    BY <1>1 DEF TimeLeft, Higher
  <1> HIDE DEF init, min, left
  <1>5. NewTimeHorizon(st, since, stop) <= init \/ NewTimeHorizon(st, since, stop) <= min
    <2>1. NewTimeHorizon(st, since, stop) \in {init, left, Higher(min, left), Lower(min, left)}
      BY <1>2 DEF NewTimeHorizon, Modes, init, min, left
    <2> QED
      BY <1>1, <1>2, <1>4, <2>1 DEF Higher, Lower
  <1> QED
    BY <1>1, <1>2, <1>3, <1>5

LEMMA HorizonFits ==
    ASSUME NEW T \in InitialHorizons
    PROVE  StagesOf(T) * Dt + MaxSolve <= MaxElapsed
  <1>1. PICK H \in Horizons : T \in {H, WholeStages(H)}
    BY DEF InitialHorizons
  <1>2. H \in Nat
    BY <1>1, ChoicesAssumption
  <1>3. StagesOf(T) = StagesOf(H)
    BY <1>1, <1>2, WholeStagesKept
  <1> QED
    BY <1>3, WatchesAssumption

\* Every number of stages the solver gets fits the watches.
LEMMA StagesFit ==
    ASSUME NEW S \in Nat, NEW T \in AskedHorizons, T \in Nat, S <= T
    PROVE  StagesOf(S) * Dt + MaxSolve <= MaxElapsed
  <1>1. StagesOf(S) \in Nat /\ StagesOf(T) \in Nat /\ StagesOf(S) <= StagesOf(T)
    BY StagesMonotone, StagesOfPositive
  <1>2. StagesOf(S) * Dt <= StagesOf(T) * Dt /\ StagesOf(S) * Dt \in Nat /\ StagesOf(T) * Dt \in Nat
    BY <1>1, ProductMonotone
  <1>3. StagesOf(T) * Dt + MaxSolve <= MaxElapsed
    BY HorizonFits, WatchesAssumption DEF AskedHorizons
  <1> QED
    BY <1>2, <1>3, ChoicesAssumption, MaxElapsedAssumption

\* Where the prediction starts, and how long the new horizon can be
LEMMA NewTimingsBounds ==
    ASSUME NEW s \in Settings, NEW st \in Strategy, NEW k \in Keeper, NEW e \in Watches,
           NEW T \in Nat
    PROVE  LET timings == NewTimings(s, st, k, e, T)
           IN  /\ timings.start <= T
               /\ k.firstRun => timings.start = timings.stop
               /\ ~k.firstRun /\ ~s.useExternalTiming =>
                     timings.start <= e["internal"]["lastSolveTimer"]
               /\ \E H \in AskedHorizons : H \in Nat /\ timings.newT <= H
  <1> DEFINE w     == e[ClockOf(s)]
             start == TimeSince("lastSolveTimer", k, w)
             since == TimeSince("firstSolveTimer", k, w)
             delay == IF k.firstRun THEN 0 ELSE computeDelayToApply(s, k)
             stop  == Lower(start + delay, T)
             timings == NewTimings(s, st, k, e, T)
  <1>1. start \in Nat /\ since \in Nat
    <2>1. ClockOf(s) \in Clocks /\ {"lastSolveTimer", "firstSolveTimer"} \subseteq Timers
      BY DEF ClockOf, Clocks, Timers
    <2> QED
      BY <2>1, TimeSinceType
  <1>2. delay \in Nat
    BY DelayType
  <1>3. timings = [start |-> Lower(start, T), stop |-> stop,
                   newT |-> NewTimeHorizon(st, since, stop)]
    BY DEF NewTimings
  <1>4. k.firstRun => start = 0 /\ delay = 0
    BY DEF TimeSince
  <1>5. ~k.firstRun /\ ~s.useExternalTiming => start = e["internal"]["lastSolveTimer"]
    BY DEF TimeSince, ClockOf
  <1> HIDE DEF start, since, delay, timings
  <1>6. stop \in Nat /\ Lower(start, T) <= T /\ Lower(start, T) <= start
        /\ (start = 0 /\ delay = 0 => Lower(start, T) = stop)
    BY <1>1, <1>2 DEF Lower
  <1> HIDE DEF stop
  <1>7. \E H \in AskedHorizons : H \in Nat /\ NewTimeHorizon(st, since, stop) <= H
    BY <1>1, <1>6, HorizonBounded
  <1>8. timings.start = Lower(start, T) /\ timings.stop = stop
        /\ timings.newT = NewTimeHorizon(st, since, stop)
    BY <1>3
  <1>9. timings.start <= T /\ \E H \in AskedHorizons : H \in Nat /\ timings.newT <= H
    BY <1>6, <1>7, <1>8
  <1>10. k.firstRun => timings.start = timings.stop
    BY <1>4, <1>6, <1>8
  <1>11. ~k.firstRun /\ ~s.useExternalTiming => timings.start <= e["internal"]["lastSolveTimer"]
    BY <1>5, <1>6, <1>8
  <1> QED
    BY <1>9, <1>10, <1>11 DEF timings

--------------------------------------------------------------------------------
(***************************************************************************)
(* The history of an iteration                                             *)
(***************************************************************************)

HandOuts == [kind : {"none", "policy", "exception"}, first : BOOLEAN, ts : Nat,
             predicted : Nat, took : Ticks]

Recorded == /\ handOut \in HandOuts
            /\ plan \in Trajectory(Nat)
            /\ used \in Seq(Nat)
            /\ disturbances \in 0 .. MaxDisturbances

\* What an iteration knows of its prediction: a first one makes none, the
\* others one of a stage per tick.
Predicted ==
    /\ pc # "idle" => handOut.kind # "policy"
    /\ pc # "idle" /\ firstRun => forward.start = forward.stop
    /\ pc = "solving" /\ ~firstRun /\ settings.stateForwardIntegration =>
         Len(used) = forward.stop - forward.start

\* The watches run on for as long as an iteration does, and the one since
\* the last solve shows at least the start of the prediction and the time
\* the solver has taken.
Paced ==
    /\ K * Dt + MaxSolve <= MaxElapsed
    /\ forward.start + MaxSolve <= MaxElapsed
    /\ pc # "solving" => solve.age = 0
    /\ pc # "idle" /\ ~firstRun /\ ~settings.useExternalTiming =>
         elapsed["internal"]["lastSolveTimer"] >= forward.start + solve.age

StampInv == Recorded /\ Predicted /\ Paced /\ HandOutAligned /\ TruncationKeepsUp

LEMMA BoundsTypes ==
    ASSUME IInv
    PROVE  MaxSolve \in Nat /\ MaxSolve <= MaxElapsed /\ MaxElapsed \in Nat /\ 0 \in Ticks
  BY HorizonIsTick, MaxElapsedAssumption DEF IInv, Typed, Ticks

LEMMA NoHandOutType ==
    /\ NoHandOut \in HandOuts /\ NoHandOut.kind = "none"
    /\ [NoHandOut EXCEPT !.kind = "exception"] \in HandOuts
    /\ [NoHandOut EXCEPT !.kind = "exception"].kind = "exception"
  <1>1. 0 \in Ticks
    BY MaxElapsedAssumption DEF Ticks
  <1>2. NoHandOut \in HandOuts
    BY <1>1, Zenon DEF NoHandOut, HandOuts
  <1>3. ASSUME NEW h \in HandOuts
        PROVE  [h EXCEPT !.kind = "exception"] \in HandOuts
               /\ [h EXCEPT !.kind = "exception"].kind = "exception"
    BY DEF HandOuts
  <1>4. NoHandOut.kind = "none"
    BY Zenon DEF NoHandOut
  <1> QED
    BY <1>2, <1>3, <1>4

LEMMA NothingPlanned == NoPlan \in Trajectory(Nat)
  <1>1. << >> \in Seq(Nat) /\ Len(<< >>) = 0
    OBVIOUS
  <1>2. [i \in 1 .. Len(<< >>) |-> (i - 1) * Dt] \in Seq(Int)
    BY <1>1, DtAssumption
  <1> QED
    BY <1>1, <1>2 DEF NoPlan, Uniform, Trajectory

\* Without a policy handed out, nothing is to be said of its stamps.
LEMMA NothingHandedOut ==
    ASSUME handOut.kind # "policy"
    PROVE  HandOutAligned /\ TruncationKeepsUp
  BY DEF HandOutAligned, TruncationKeepsUp

LEMMA StampInit == ASSUME Init, IInv PROVE StampInv
  <1>1. /\ pc = "idle" /\ forward = NoForward /\ K = StagesOf(asked) /\ asked \in InitialHorizons
        /\ solve = NoSolve /\ handOut = NoHandOut /\ plan = NoPlan /\ used = << >>
        /\ disturbances = 0
    BY DEF Init, InitialHorizons
  <1>2. Recorded
    BY <1>1, NoHandOutType, NothingPlanned, ChoicesAssumption DEF Recorded
  <1>3. Paced
    <2>1. K * Dt + MaxSolve <= MaxElapsed
      BY <1>1, HorizonFits
    <2>2. forward.start + MaxSolve <= MaxElapsed /\ solve.age = 0
      BY <1>1, BoundsTypes DEF NoForward, NoSolve
    <2> QED
      BY <1>1, <2>1, <2>2 DEF Paced
  <1> QED
    BY <1>1, <1>2, <1>3, NoHandOutType, NothingHandedOut DEF StampInv, Predicted

LEMMA PrepareStamps ==
    ASSUME IInv, StampInv, prepareIteration
    PROVE  StampInv'
  <1> DEFINE k0      == IF firstRun THEN InitializedKeeper ELSE keeper
             watches == IF firstRun THEN ResetTimers(elapsed.external["timer"]) ELSE elapsed
             mine    == strategies["constructed"]
             timings == NewTimings(settings, mine, k0, watches, K * Dt)
  <1>1. /\ pc = "idle" /\ pc' = "prepared" /\ elapsed' = watches
        /\ forward' = [start |-> timings.start, stop |-> timings.stop]
        /\ K' = StagesOf(timings.newT)
        /\ plan' = [policy.uff EXCEPT !.index = 0]
        /\ handOut' = NoHandOut /\ used' = << >>
        /\ UNCHANGED <<settings, firstRun, solve, disturbances>>
    BY DEF prepareIteration
  <1>2. Typed /\ Mirrored
    BY DEF IInv
  <1>3. /\ mine \in Strategy /\ settings \in Settings /\ K * Dt \in Nat
    BY <1>2, ChoiceIsSettings, DtAssumption DEF Typed, Strategies
  <1>4. k0 \in Keeper /\ k0.firstRun = firstRun
    BY <1>2, InitializedType DEF Typed, Mirrored
  <1>5. watches \in Watches /\ (~firstRun => watches = elapsed)
    <2>1. elapsed.external["timer"] \in Ticks
      BY <1>2 DEF Typed, Watches, Clocks, Timers
    <2> QED
      BY <1>2, <2>1, ResetTimersType DEF Typed
  <1> HIDE DEF k0, watches
  <1>6. timings.start \in Nat /\ timings.stop \in Nat /\ timings.newT \in Nat
    BY <1>3, <1>4, <1>5, NewTimingsType
  <1>7. /\ timings.start <= K * Dt
        /\ k0.firstRun => timings.start = timings.stop
        /\ ~k0.firstRun /\ ~settings.useExternalTiming =>
              timings.start <= watches["internal"]["lastSolveTimer"]
        /\ \E H \in AskedHorizons : H \in Nat /\ timings.newT <= H
    BY <1>3, <1>4, <1>5, NewTimingsBounds
  <1> HIDE DEF timings
  <1>8. Recorded'
    <2>1. plan' \in Trajectory(Nat)
      <3>1. policy.uff \in Trajectory(Nat)
        BY DEF IInv, PolicyShaped, Shaped, Policy
      <3> QED
        BY <1>1, <3>1 DEF Trajectory
    <2> QED
      BY <1>1, <2>1, NoHandOutType DEF StampInv, Recorded
  <1>9. Predicted'
    BY <1>1, <1>4, <1>7, NoHandOutType DEF Predicted
  <1>10. Paced'
    <2>1. K' * Dt + MaxSolve <= MaxElapsed
      BY <1>1, <1>6, <1>7, StagesFit
    <2>2. forward'.start + MaxSolve <= MaxElapsed
      BY <1>1, <1>3, <1>6, <1>7, BoundsTypes DEF StampInv, Paced
    <2>3. solve'.age = 0
      BY <1>1 DEF StampInv, Paced
    <2>4. ~firstRun /\ ~settings.useExternalTiming =>
             elapsed'["internal"]["lastSolveTimer"] >= forward'.start + solve'.age
      <3>1. watches["internal"]["lastSolveTimer"] \in Int
        BY <1>5, MaxElapsedAssumption DEF Watches, Clocks, Timers, Ticks
      <3> QED
        BY <1>1, <1>4, <1>6, <1>7, <2>3, <3>1
    <2> QED
      BY <1>1, <2>1, <2>2, <2>3, <2>4 DEF Paced
  <1>11. HandOutAligned' /\ TruncationKeepsUp'
    BY <1>1, NoHandOutType DEF HandOutAligned, TruncationKeepsUp
  <1> QED
    BY <1>8, <1>9, <1>10, <1>11 DEF StampInv

LEMMA BeginStamps ==
    ASSUME IInv, StampInv, beginFinishIteration
    PROVE  StampInv'
  <1>1. /\ pc = "prepared" /\ pc' = "solving"
        /\ elapsed' = IF settings.measureDelay
                        THEN [elapsed EXCEPT ![ClockOf(settings)]["timer"] = 0] ELSE elapsed
        /\ used' = IF ~firstRun /\ settings.stateForwardIntegration
                     THEN Prediction(policy.uff, forward.start, forward.stop) ELSE << >>
        /\ solve'.age = 0
        /\ UNCHANGED <<settings, firstRun, forward, K, handOut, plan, disturbances>>
    BY DEF beginFinishIteration, NoSolve
  <1>2. Typed /\ Recorded /\ Predicted /\ Paced
    BY DEF IInv, StampInv
  <1>3. /\ used' \in Seq(Nat)
        /\ ~firstRun /\ settings.stateForwardIntegration => Len(used') = forward.stop - forward.start
    <2>1. Found(policy.uff) /\ Consistent(policy.uff)
      BY <1>1, <1>2 DEF IInv, PolicyShaped, Shaped, Shape, Policy, Found, Typed
    <2>2. forward.start \in Nat /\ forward.stop \in Nat /\ forward.start <= forward.stop
      BY <1>1, <1>2 DEF IInv, InOrder, Typed
    <2>3. /\ Prediction(policy.uff, forward.start, forward.stop) \in Seq(Nat)
          /\ Len(Prediction(policy.uff, forward.start, forward.stop)) = forward.stop - forward.start
      BY <2>1, <2>2, PredictionIs
    <2> QED
      BY <1>1, <2>3
  <1>4. elapsed'["internal"]["lastSolveTimer"] = elapsed["internal"]["lastSolveTimer"]
    BY <1>1, <1>2 DEF Typed, Watches, Clocks, Timers, ClockOf
  <1>5. Recorded'
    BY <1>1, <1>2, <1>3 DEF Recorded
  <1>6. Predicted'
    BY <1>1, <1>2, <1>3 DEF Predicted
  <1>7. Paced'
    BY <1>1, <1>2, <1>4 DEF Paced
  <1>8. handOut'.kind # "policy"
    BY <1>1, <1>2 DEF Predicted
  <1>9. HandOutAligned' /\ TruncationKeepsUp'
    BY <1>8 DEF HandOutAligned, TruncationKeepsUp
  <1> QED
    BY <1>5, <1>6, <1>7, <1>9 DEF StampInv

\* The rest of finishIteration: the policy leaves with its stamp.
LEMMA FinishStamps ==
    ASSUME IInv, StampInv, finishIteration
    PROVE  StampInv'
  <1> DEFINE dtp   == TimeSince("lastSolveTimer", keeper, WatchesAfterSolve)
             over  == dtp - forward.stop
             late  == settings.postTruncation /\ ~firstRun /\ dtp > forward.stop
             truncated == IF late THEN EffectivelyTruncated(SolvedPolicy, over) ELSE 0
             delay == WatchesAfterSolve["timer"]
             ts    == forward.stop - forward.start + truncated + IF firstRun THEN delay ELSE 0
  <1>1. /\ pc = "solving" /\ pc' = "idle"
        /\ policy' = IF late THEN TruncateFront(SolvedPolicy, over) ELSE SolvedPolicy
        /\ keeper' = [keeper EXCEPT !.firstRun = FALSE, !.lastMeasuredDelay = delay]
        /\ handOut' = [kind |-> "policy", first |-> firstRun, took |-> solve.age,
                       predicted |-> Len(used), ts |-> ts]
        /\ forward' = NoForward /\ solve' = NoSolve /\ plan' = NoPlan /\ used' = << >>
        /\ UNCHANGED <<settings, K, disturbances>>
    BY DEF finishIteration, IterationOver
  <1>2. Typed /\ Mirrored /\ Recorded /\ Predicted /\ Paced
    BY DEF IInv, StampInv
  <1>3. /\ K \in Nat \ {0} /\ PlannedPolicy(SolvedPolicy, K)
        /\ forward.start \in Nat /\ forward.stop \in Nat /\ forward.start <= forward.stop
    BY <1>1, <1>2, SolvedPlanned DEF IInv, PolicyShaped, Typed, InOrder
  <1>4. delay \in Ticks /\ dtp \in Nat
    <2>1. WatchesAfterSolve \in [Timers -> Ticks]
      BY <1>2 DEF WatchesAfterSolve, Typed, Watches, Clocks
    <2>2. {"timer", "lastSolveTimer"} \subseteq Timers /\ Ticks \subseteq Nat
      BY MaxElapsedAssumption DEF Timers, Ticks
    <2> QED
      BY <2>1, <2>2 DEF TimeSince
  <1>5. late \in BOOLEAN
    OBVIOUS
  <1>6. over \in Int /\ forward.stop - forward.start \in Nat
    BY <1>3, <1>4
  <1>7. (~firstRun /\ ~settings.useExternalTiming) => dtp >= forward.start + solve.age
    BY <1>1, <1>2 DEF Paced, Mirrored, TimeSince, WatchesAfterSolve
  <1> HIDE DEF delay, dtp
  <1>8. /\ truncated \in Nat
        /\ OnTimeFrom(policy'.uff, truncated) /\ OnTimeFrom(policy'.K, truncated)
        /\ OnTimeFrom(policy'.x_ref, truncated)
    <2>1. CASE late
      BY <1>1, <1>3, <1>6, <2>1, TruncatedOnTime
    <2>2. CASE ~late
      <3>1. /\ Planned(SolvedPolicy.uff, K) /\ Planned(SolvedPolicy.K, K)
            /\ Planned(SolvedPolicy.x_ref, K + 1) /\ K + 1 \in Nat
        BY <1>3 DEF PlannedPolicy
      <3>2. OnTimeFrom(SolvedPolicy.uff, 0) /\ OnTimeFrom(SolvedPolicy.K, 0)
        BY <1>3, <3>1, PlannedOnTime
      <3>3. OnTimeFrom(SolvedPolicy.x_ref, 0)
        BY <3>1, PlannedOnTime
      <3> QED
        BY <1>1, <2>2, <3>2, <3>3
    <2> QED
      BY <2>1, <2>2
  <1>9. late => \/ truncated + Dt > over
                \/ Size(policy'.uff) = 1
    <2> SUFFICES ASSUME late, ~(truncated + Dt > over) PROVE Size(policy'.uff) = 1
      OBVIOUS
    <2>1. ShiftOf(SolvedPolicy, over) = K - 1
      BY <1>3, <1>6, ShiftReaches
    <2>2. Size(policy'.uff) = K - ShiftOf(SolvedPolicy, over)
      BY <1>1, <1>3, <1>6, TruncatedOnTime
    <2> QED
      BY <1>3, <2>1, <2>2
  <1>10. firstRun => truncated = 0 /\ forward.start = forward.stop
    BY <1>1, <1>2 DEF Predicted
  <1>11. ~late /\ settings.postTruncation /\ ~firstRun => dtp <= forward.stop
    BY <1>3, <1>4
  <1> HIDE DEF truncated, late
  <1>12. ts \in Nat
    <2>1. delay \in Nat
      BY <1>4, MaxElapsedAssumption DEF Ticks
    <2> QED
      BY <1>6, <1>8, <2>1
  <1>13. Recorded'
    <2>1. solve.age \in Ticks /\ Len(used) \in Nat /\ firstRun \in BOOLEAN
      BY <1>2, BoundsTypes DEF Typed, Recorded, Ticks
    <2> HIDE DEF ts
    <2>2. handOut' \in HandOuts
      BY <1>1, <1>12, <2>1 DEF HandOuts
    <2>3. plan' \in Trajectory(Nat) /\ used' \in Seq(Nat)
      BY <1>1, NothingPlanned
    <2> QED
      BY <1>1, <1>2, <2>2, <2>3 DEF Recorded
  <1>14. Predicted'
    BY <1>1 DEF Predicted
  <1>15. Paced'
    BY <1>1, <1>2, BoundsTypes DEF Paced, NoForward, NoSolve
  <1>16. HandOutAligned'
    <2> DEFINE zero == IF firstRun THEN delay ELSE Len(used)
    <2>1. keeper'.lastMeasuredDelay = delay
      BY <1>1, <1>2 DEF Typed, Keeper
    <2>2. handOut'.first = firstRun /\ handOut'.ts = ts /\ handOut'.predicted = Len(used)
      BY <1>1
    <2>3. ASSUME settings.stateForwardIntegration \/ firstRun
          PROVE  ts = zero + truncated /\ zero \in Int
      <3>1. CASE firstRun
        BY <1>3, <1>4, <1>8, <1>10, <3>1, MaxElapsedAssumption DEF Ticks
      <3>2. CASE ~firstRun
        <4>1. Len(used) = forward.stop - forward.start
          BY <1>1, <1>2, <2>3, <3>2 DEF Predicted
        <4> QED
          BY <1>6, <1>8, <3>2, <4>1
      <3> QED
        BY <3>1, <3>2
    <2> HIDE DEF zero, ts
    <2> DEFINE Aligned(tr) == \A i \in DOMAIN tr.time : ts + tr.time[i] = zero + tr.data[i] * Dt
    <2>4. ASSUME settings.stateForwardIntegration \/ firstRun,
                 NEW tr, OnTimeFrom(tr, truncated), tr \in Trajectory(Nat)
          PROVE  Aligned(tr)
      <3> SUFFICES ASSUME NEW i \in DOMAIN tr.time
                   PROVE  ts + tr.time[i] = zero + tr.data[i] * Dt
        OBVIOUS
      <3>1. tr.time[i] \in Int /\ truncated + tr.time[i] = tr.data[i] * Dt
        BY <2>4 DEF OnTimeFrom, Trajectory
      <3> QED
        BY <1>8, <2>3, <2>4, <3>1
    <2>5. /\ policy'.uff \in Trajectory(Nat) /\ policy'.K \in Trajectory(Nat)
          /\ policy'.x_ref \in Trajectory(Nat)
      <3>1. PICK n : Shaped(policy', n)
        BY FinishStep DEF IInv, PolicyShaped
      <3> QED
        BY <3>1 DEF Shaped, Policy
    <2>6. zero = IF handOut'.first THEN keeper'.lastMeasuredDelay ELSE handOut'.predicted
      BY <2>1, <2>2 DEF zero
    <2>7. settings' = settings /\ handOut'.first = firstRun /\ handOut'.ts = ts
      BY <1>1, <2>2
    <2> HIDE DEF Aligned
    <2>8. ASSUME settings.stateForwardIntegration \/ firstRun
          PROVE  Aligned(policy'.uff) /\ Aligned(policy'.K) /\ Aligned(policy'.x_ref)
      <3>1. Aligned(policy'.uff)
        BY <1>8, <2>4, <2>5, <2>8
      <3>2. Aligned(policy'.K)
        BY <1>8, <2>4, <2>5, <2>8
      <3>3. Aligned(policy'.x_ref)
        BY <1>8, <2>4, <2>5, <2>8
      <3> QED
        BY <3>1, <3>2, <3>3
    <2> QED
      BY <2>6, <2>7, <2>8 DEF HandOutAligned, Aligned
  <1>17. TruncationKeepsUp'
    <2> SUFFICES ASSUME ~firstRun, settings.postTruncation, ~settings.useExternalTiming
                 PROVE  ts + Dt > solve.age \/ Size(policy'.uff) = 1
      BY <1>1 DEF TruncationKeepsUp
    <2>1. ts = forward.stop - forward.start + truncated /\ solve.age \in Nat
      BY <1>2, <1>6, <1>8, BoundsTypes DEF Typed
    <2>2. dtp >= forward.start + solve.age
      BY <1>7
    <2>3. CASE late
      BY <1>3, <1>4, <1>8, <1>9, <2>1, <2>2, <2>3, DtAssumption
    <2>4. CASE ~late
      BY <1>3, <1>4, <1>8, <1>11, <2>1, <2>2, <2>4, DtAssumption
    <2> QED
      BY <2>3, <2>4
  <1> QED
    BY <1>13, <1>14, <1>15, <1>16, <1>17 DEF StampInv

\* The steps that hand out nothing and end an iteration or find none
LEMMA OtherStamps ==
    ASSUME IInv, StampInv,
           \/ failIteration
           \/ \E T \in Horizons : resetMpc(T) \/ setTimeHorizonStrategy(T)
           \/ \E s \in SettingsChoices : updateSettings(s)
           \/ \E n \in {K, K + 1} : setInitialGuess(n)
    PROVE  StampInv'
  <1>1. Typed /\ Recorded /\ Predicted /\ Paced
    BY DEF IInv, StampInv
  <1>2. handOut' \in HandOuts /\ handOut'.kind # "policy"
    BY NoHandOutType
    DEF failIteration, resetMpc, setTimeHorizonStrategy, updateSettings, setInitialGuess
  <1>3. pc' = "idle" /\ disturbances' \in 0 .. MaxDisturbances
    <2>1. disturbances < MaxDisturbances /\ disturbances' = disturbances + 1
      BY DEF failIteration, resetMpc, setTimeHorizonStrategy, updateSettings, setInitialGuess,
             Disturb
    <2>2. disturbances \in 0 .. MaxDisturbances /\ MaxDisturbances \in Nat
      BY <1>1, ChoicesAssumption DEF Recorded
    <2>3. pc' = "idle"
      BY DEF failIteration, resetMpc, setTimeHorizonStrategy, updateSettings, setInitialGuess
    <2> QED
      BY <2>1, <2>2, <2>3
  <1>4. /\ plan' \in Trajectory(Nat) /\ used' \in Seq(Nat)
        /\ solve'.age = 0 /\ forward'.start + MaxSolve <= MaxElapsed
    <2>1. CASE IterationOver
      BY <2>1, NothingPlanned, BoundsTypes DEF IterationOver, NoForward, NoSolve
    <2>2. CASE pc = "idle" /\ UNCHANGED <<plan, used, solve, forward>>
      BY <1>1, <2>2 DEF Recorded, Paced
    <2> QED
      BY <2>1, <2>2
      DEF failIteration, resetMpc, setTimeHorizonStrategy, updateSettings, setInitialGuess
  <1>5. K' * Dt + MaxSolve <= MaxElapsed
    <2>1. CASE K' = K
      BY <1>1, <2>1 DEF Paced
    <2>2. CASE \E T \in Horizons : resetMpc(T)
      BY <2>2, HorizonFits DEF resetMpc, InitialHorizons
    <2> QED
      BY <2>1, <2>2
      DEF failIteration, resetMpc, setTimeHorizonStrategy, updateSettings, setInitialGuess
  <1>6. Recorded'
    BY <1>2, <1>3, <1>4 DEF Recorded
  <1>7. Predicted' /\ Paced'
    BY <1>3, <1>4, <1>5 DEF Predicted, Paced
  <1>8. HandOutAligned' /\ TruncationKeepsUp'
    BY <1>2 DEF HandOutAligned, TruncationKeepsUp
  <1> QED
    BY <1>6, <1>7, <1>8 DEF StampInv

LEMMA TickStamps ==
    ASSUME IInv, StampInv, Tick
    PROVE  StampInv'
  <1>1. /\ pc = "solving" => solve.age < MaxSolve
        /\ elapsed' = OneTickOn(elapsed)
        /\ solve' = IF pc = "solving" THEN [solve EXCEPT !.age = @ + 1] ELSE solve
        /\ handOut' = NoHandOut
        /\ UNCHANGED <<pc, settings, firstRun, forward, K, plan, used, disturbances>>
    BY DEF Tick
  <1>2. Typed /\ Recorded /\ Predicted /\ Paced
    BY DEF IInv, StampInv
  <1>3. Recorded' /\ Predicted'
    BY <1>1, <1>2, NoHandOutType DEF Recorded, Predicted
  <1>4. Paced'
    <2>1. /\ elapsed["internal"]["lastSolveTimer"] \in Nat
          /\ elapsed'["internal"]["lastSolveTimer"]
               = Lower(elapsed["internal"]["lastSolveTimer"] + 1, MaxElapsed)
      BY <1>1, <1>2, MaxElapsedAssumption DEF Typed, Watches, Clocks, Timers, Ticks, OneTickOn
    <2>2. /\ solve.age \in 0 .. MaxSolve /\ forward.start \in Nat
          /\ solve'.age = IF pc = "solving" THEN solve.age + 1 ELSE solve.age
      BY <1>1, <1>2 DEF Typed
    <2>3. pc # "solving" => solve'.age = 0
      BY <1>1, <1>2 DEF Paced
    <2>4. ASSUME pc # "idle", ~firstRun, ~settings.useExternalTiming
          PROVE  elapsed'["internal"]["lastSolveTimer"] >= forward.start + solve'.age
      <3>1. elapsed["internal"]["lastSolveTimer"] >= forward.start + solve.age
        BY <1>2, <2>4 DEF Paced
      <3>2. forward.start + MaxSolve <= MaxElapsed
        BY <1>2 DEF Paced
      <3> DEFINE watch == elapsed["internal"]["lastSolveTimer"]
                 age   == solve.age
                 start == forward.start
      <3>3. /\ watch \in Nat /\ age \in 0 .. MaxSolve /\ start \in Nat
            /\ watch >= start + age /\ start + MaxSolve <= MaxElapsed
            /\ solve'.age \in {age, age + 1} /\ solve'.age <= MaxSolve
            /\ elapsed'["internal"]["lastSolveTimer"] = Lower(watch + 1, MaxElapsed)
        BY <1>1, <2>1, <2>2, <3>1, <3>2, BoundsTypes
      <3> HIDE DEF watch, age, start
      <3>4. Lower(watch + 1, MaxElapsed) >= start + solve'.age
        BY <3>3, BoundsTypes DEF Lower
      <3> QED
        BY <3>3, <3>4 DEF start
    <2> QED
      BY <1>1, <1>2, <2>3, <2>4 DEF Paced
  <1>5. HandOutAligned' /\ TruncationKeepsUp'
    BY <1>1, NoHandOutType DEF HandOutAligned, TruncationKeepsUp
  <1> QED
    BY <1>3, <1>4, <1>5 DEF StampInv

LEMMA StepStamps ==
    ASSUME IInv, StampInv, [Next]_vars
    PROVE  StampInv'
  <1>1. CASE UNCHANGED vars
    <2>1. UNCHANGED <<pc, settings, keeper, elapsed, firstRun, forward, K, policy, solve,
                      handOut, plan, used, disturbances>>
      BY <1>1 DEF vars, timing, history
    <2>2. Recorded' /\ Predicted' /\ Paced'
      BY <2>1 DEF StampInv, Recorded, Predicted, Paced
    <2>3. HandOutAligned' /\ TruncationKeepsUp'
      BY <2>1 DEF StampInv, HandOutAligned, TruncationKeepsUp
    <2> QED
      BY <2>2, <2>3 DEF StampInv
  <1> QED
    BY <1>1, PrepareStamps, BeginStamps, FinishStamps, OtherStamps, TickStamps DEF Next

THEOREM StampsInvariant == Spec => [](IInv /\ StampInv)
  <1>1. Init => IInv /\ StampInv
    BY InitIInv, StampInit
  <1>2. (IInv /\ StampInv) /\ [Next]_vars => (IInv /\ StampInv)'
    BY StepIInv, StepStamps
  <1> QED
    BY <1>1, <1>2, PTL DEF Spec

\* In every order of calls the members of MPC and of its time keeper keep
\* their types; so does what is recorded of an iteration.
THEOREM TypeCorrect == Spec => []TypeOK
  <1>1. IInv /\ StampInv => TypeOK
    <2> SUFFICES ASSUME IInv, StampInv PROVE TypeOK
      OBVIOUS
    <2>1. policy \in Policy
      BY DEF IInv, PolicyShaped, Shaped
    <2>2. solve \in [age : Ticks, external : [Timers -> Ticks]]
      BY BoundsTypes DEF IInv, Typed, Ticks
    <2> QED
      BY <2>1, <2>2 DEF IInv, Typed, Strategy, Watches, StampInv, Recorded, HandOuts, TypeOK
  <1> QED
    BY <1>1, StampsInvariant, PTL

\* Each element of a policy that finishIteration hands out falls on the time
\* the solver computed it for, with and without prediction, measured delay
\* and truncation.
THEOREM StampsAligned == Spec => []HandOutAligned
  <1>1. IInv /\ StampInv => HandOutAligned
    BY DEF StampInv
  <1> QED
    BY <1>1, StampsInvariant, PTL

\* A policy that comes late is cut so far that it begins less than a stage
\* before now: the watch since the last solve covers the start of the
\* prediction and the solver's time.
THEOREM TruncationInTime == Spec => []TruncationKeepsUp
  <1>1. IInv /\ StampInv => TruncationKeepsUp
    BY DEF StampInv
  <1> QED
    BY <1>1, StampsInvariant, PTL
--------------------------------------------------------------------------------
(***************************************************************************)
(* The end of the state prediction                                         *)
(***************************************************************************)

\* Unless MPC starts anew, the policy reaches to the end of the solver's
\* horizon, at which computeNewTimings cuts the prediction off.
Covers ==
    /\ pc = "idle" /\ ~firstRun => K <= Reach(policy.uff)
    /\ pc # "idle" => forward.stop <= Reach(plan) * Dt

LEMMA NewTimingsCutOff ==
    ASSUME NEW s \in Settings, NEW st \in Strategy, NEW k \in Keeper, NEW e \in Watches,
           NEW T \in Nat
    PROVE  LET timings == NewTimings(s, st, k, e, T)
           IN  timings.stop <= T /\ (k.firstRun => timings.stop = 0)
  <1> DEFINE w     == e[ClockOf(s)]
             start == TimeSince("lastSolveTimer", k, w)
             delay == IF k.firstRun THEN 0 ELSE computeDelayToApply(s, k)
  <1>1. start \in Nat
    <2>1. ClockOf(s) \in Clocks /\ "lastSolveTimer" \in Timers
      BY DEF ClockOf, Clocks, Timers
    <2> QED
      BY <2>1, TimeSinceType
  <1>2. delay \in Nat
    BY DelayType
  <1>3. NewTimings(s, st, k, e, T).stop = Lower(start + delay, T)
    BY DEF NewTimings
  <1>4. k.firstRun => start = 0 /\ delay = 0
    BY DEF TimeSince
  <1> HIDE DEF start, delay
  <1> QED
    BY <1>1, <1>2, <1>3, <1>4 DEF Lower

LEMMA PolicyReaches ==
    ASSUME IInv
    PROVE  Reach(policy.uff) \in Nat /\ (pc # "idle" => K <= Reach(policy.uff))
  <1>1. PICK n \in Nat \ {0} : Shaped(policy, n) /\ (pc # "idle" => n = K)
    <2>1. CASE pc = "idle"
      BY <2>1 DEF IInv, PolicyShaped
    <2>2. CASE pc # "idle"
      BY <2>2 DEF IInv, PolicyShaped, Typed
    <2> QED
      BY <2>1, <2>2
  <1>2. OfSize(policy.uff, n)
    BY <1>1, ShapedParts
  <1>3. Reach(policy.uff) \in Nat /\ Reach(policy.uff) >= n
    BY <1>2, ReachIsNat
  <1> QED
    BY <1>1, <1>3

LEMMA PrepareCovers ==
    ASSUME IInv, Covers, prepareIteration
    PROVE  Covers'
  <1> DEFINE k0      == IF firstRun THEN InitializedKeeper ELSE keeper
             watches == IF firstRun THEN ResetTimers(elapsed.external["timer"]) ELSE elapsed
             mine    == strategies["constructed"]
             timings == NewTimings(settings, mine, k0, watches, K * Dt)
             reach   == Reach(policy.uff)
  <1>1. /\ pc = "idle" /\ pc' = "prepared"
        /\ forward' = [start |-> timings.start, stop |-> timings.stop]
        /\ plan' = [policy.uff EXCEPT !.index = 0]
    BY DEF prepareIteration
  <1>2. Typed /\ Mirrored /\ reach \in Nat
    BY PolicyReaches DEF IInv
  <1>3. mine \in Strategy /\ settings \in Settings /\ K \in Nat /\ K * Dt \in Nat
    BY <1>2, ChoiceIsSettings, DtAssumption DEF Typed, Strategies
  <1>4. k0 \in Keeper /\ k0.firstRun = firstRun
    BY <1>2, InitializedType DEF Typed, Mirrored
  <1>5. watches \in Watches
    <2>1. elapsed.external["timer"] \in Ticks
      BY <1>2 DEF Typed, Watches, Clocks, Timers
    <2> QED
      BY <1>2, <2>1, ResetTimersType DEF Typed
  <1>6. Reach(plan') = reach
    BY <1>1 DEF Reach
  <1> HIDE DEF k0, watches, mine
  <1>7. /\ timings.stop \in Nat /\ timings.stop <= K * Dt
        /\ firstRun => timings.stop = 0
    BY <1>3, <1>4, <1>5, NewTimingsType, NewTimingsCutOff
  <1> HIDE DEF timings, reach
  <1>8. timings.stop <= reach * Dt
    <2>1. CASE firstRun
      <3>1. reach * Dt \in Nat
        BY <1>2, DtAssumption
      <3> QED
        BY <1>7, <2>1, <3>1
    <2>2. CASE ~firstRun
      <3>1. K <= reach
        BY <1>1, <2>2 DEF Covers, reach
      <3>2. K * Dt <= reach * Dt /\ reach * Dt \in Nat
        BY <1>2, <1>3, <3>1, ProductMonotone
      <3> QED
        BY <1>3, <1>7, <3>2
    <2> QED
      BY <2>1, <2>2
  <1> QED
    BY <1>1, <1>6, <1>8 DEF Covers

LEMMA FinishCovers ==
    ASSUME IInv, Covers, finishIteration
    PROVE  Covers'
  <1> DEFINE dtp  == TimeSince("lastSolveTimer", keeper, WatchesAfterSolve)
             late == settings.postTruncation /\ ~firstRun /\ dtp > forward.stop
             over == dtp - forward.stop
  <1>1. /\ pc = "solving" /\ pc' = "idle" /\ UNCHANGED K
        /\ policy' = IF late THEN TruncateFront(SolvedPolicy, over) ELSE SolvedPolicy
    BY DEF finishIteration
  <1>2. Typed /\ K \in Nat \ {0} /\ forward.stop \in Nat
    BY DEF IInv, Typed
  <1>3. PlannedPolicy(SolvedPolicy, K)
    BY <1>1, <1>2, SolvedPlanned DEF IInv, PolicyShaped
  <1>4. over \in Int
    <2>1. WatchesAfterSolve \in [Timers -> Ticks]
      BY <1>2 DEF WatchesAfterSolve, Typed, Watches, Clocks
    <2>2. "lastSolveTimer" \in Timers /\ Ticks \subseteq Nat
      BY MaxElapsedAssumption DEF Timers, Ticks
    <2>3. dtp \in Nat
      BY <2>1, <2>2 DEF TimeSince
    <2> QED
      BY <1>2, <2>3
  <1> HIDE DEF over, late
  <1>5. Reach(policy'.uff) = K
    <2>1. CASE late
      BY <1>1, <1>2, <1>3, <1>4, <2>1, TruncatedReach
    <2>2. CASE ~late
      BY <1>1, <1>2, <1>3, <2>2, PlannedReach DEF PlannedPolicy
    <2> QED
      BY <2>1, <2>2
  <1> QED
    BY <1>1, <1>2, <1>5 DEF Covers

\* A failed solve leaves the warm start, which has the solver's length; a
\* reset starts anew; a guess is not shorter than the solver's horizon.
LEMMA OtherCovers ==
    ASSUME IInv, Covers,
           \/ failIteration
           \/ \E T \in Horizons : resetMpc(T) \/ setTimeHorizonStrategy(T)
           \/ \E s \in SettingsChoices : updateSettings(s)
           \/ \E n \in {K, K + 1} : setInitialGuess(n)
    PROVE  Covers'
  <1>1. CASE failIteration
    <2>1. pc = "solving" /\ pc' = "idle" /\ UNCHANGED <<K, policy>>
      BY <1>1 DEF failIteration
    <2> QED
      BY <2>1, PolicyReaches DEF Covers
  <1>2. CASE \E T \in Horizons : resetMpc(T)
    BY <1>2 DEF resetMpc, Covers
  <1>3. CASE \/ \E T \in Horizons : setTimeHorizonStrategy(T)
             \/ \E s \in SettingsChoices : updateSettings(s)
    <2>1. pc = "idle" /\ UNCHANGED <<pc, firstRun, K, policy>>
      BY <1>3 DEF setTimeHorizonStrategy, updateSettings
    <2> QED
      BY <2>1 DEF Covers
  <1>4. ASSUME NEW n \in {K, K + 1}, setInitialGuess(n)
        PROVE  Covers'
    <2>1. pc = "idle" /\ pc' = "idle" /\ policy' = PolicyOf(n) /\ UNCHANGED K
      BY <1>4 DEF setInitialGuess
    <2>2. K \in Nat \ {0} /\ n \in Nat \ {0} /\ K <= n
      BY DEF IInv, Typed
    <2>3. PICK m \in Nat \ {0} : Shaped(policy, m)
      BY DEF IInv, PolicyShaped
    <2>4. Planned(policy'.uff, n)
      BY <2>1, <2>2, <2>3, PolicyPlanned DEF PlannedPolicy
    <2>5. Reach(policy'.uff) = n
      BY <2>2, <2>4, PlannedReach
    <2> QED
      BY <2>1, <2>2, <2>5 DEF Covers
  <1> QED
    BY <1>1, <1>2, <1>3, <1>4

LEMMA StepCovers ==
    ASSUME IInv, Covers, [Next]_vars
    PROVE  Covers'
  <1>1. CASE UNCHANGED vars
    BY <1>1 DEF vars, timing, history, Covers
  <1>2. CASE beginFinishIteration
    BY <1>2 DEF beginFinishIteration, Covers
  <1>3. CASE Tick
    BY <1>3 DEF Tick, Covers
  <1> QED
    BY <1>1, <1>2, <1>3, PrepareCovers, FinishCovers, OtherCovers DEF Next

\* A state prediction does not end before it starts, nor after the policy it
\* follows: whatever was shifted, truncated, failed, reset or guessed before,
\* that policy still reaches to the end of the solver's horizon.
THEOREM PredictionOrdered == Spec => []PredictionInOrder
  <1>1. Init => Covers
    BY DEF Init, Covers
  <1>2. IInv /\ Covers /\ [Next]_vars => Covers'
    BY StepCovers
  <1>3. IInv /\ Covers => PredictionInOrder
    BY DEF IInv, InOrder, Covers, Reach, PredictionInOrder
  <1> QED
    BY <1>1, <1>2, <1>3, Invariant, PTL DEF Spec
================================================================================
