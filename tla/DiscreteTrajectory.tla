--------------------------- MODULE DiscreteTrajectory ---------------------------
(****************************************************************************)
(* core::DiscreteTrajectoryBase and the index search of core::Interpolation *)
(* it evaluates itself with.  A trajectory is its time stamps (whole        *)
(* ticks), its data points and index_, the position at which the next       *)
(* search starts.  Positions count from 0 as in the code; the stamp of      *)
(* position i is time[i + 1].                                               *)
(****************************************************************************)
EXTENDS Integers, Sequences

Trajectory(Data) == [time : Seq(Int), data : Seq(Data), index : Nat]

Size(tr) == Len(tr.time)

\* DiscreteTrajectoryBase::size() throws unless this holds.
Consistent(tr) == Len(tr.data) = Len(tr.time)

\* What Interpolation takes for granted of its time array
Sorted(time) == \A i, j \in DOMAIN time : i < j => time[i] < time[j]

Uniform(data, dt) ==
    [time |-> [i \in 1 .. Len(data) |-> (i - 1) * dt], data |-> data, index |-> 0]

GreatestIn(S) == CHOOSE i \in S : \A j \in S : j <= i
LeastIn(S)    == CHOOSE i \in S : \A j \in S : i <= j

--------------------------------------------------------------------------------
(***************************************************************************)
(* Look-up                                                                 *)
(***************************************************************************)

\* index_ = std::min(index_, size - 1)
StartIndex(tr) == IF tr.index < Size(tr) THEN tr.index ELSE Size(tr) - 1

\* The loop that runs down stops at the first stamp that is not later than
\* the inquiry, or has arrived at 0.
SearchBackward(tr, t) ==
    GreatestIn({0} \cup {i \in 0 .. StartIndex(tr) : tr.time[i + 1] <= t})

\* The loop that runs up stops before the first stamp that is later, or has
\* arrived at the end.
SearchForward(tr, t) ==
    LeastIn({Size(tr)} \cup {i \in StartIndex(tr) .. Size(tr) - 1 : tr.time[i + 1] > t}) - 1

FindIndex(tr, t) ==
    IF tr.time[StartIndex(tr) + 1] > t THEN SearchBackward(tr, t) ELSE SearchForward(tr, t)

\* The trajectory after findIndex: index_ stays where the search ended.
LookedUp(tr, t) == [tr EXCEPT !.index = FindIndex(tr, t)]

\* interpolate with zero-order hold, for a trajectory that is not empty; a
\* single point is returned without a search
Eval(tr, t) ==
    IF Size(tr) = 1 \/ t < tr.time[1] THEN tr.data[1] ELSE tr.data[FindIndex(tr, t) + 1]

Evaluated(tr, t) == IF Size(tr) = 1 THEN tr ELSE LookedUp(tr, t)

\* Reference: the last position whose stamp is not later than t, whatever
\* was looked up before
IndexOf(time, t) == GreatestIn({0} \cup {i \in 0 .. Len(time) - 1 : time[i + 1] <= t})

--------------------------------------------------------------------------------
(***************************************************************************)
(* Modification                                                            *)
(***************************************************************************)

\* Wrong on purpose: the stamps are not shifted.
EraseWithoutShift(tr, n, dt) ==
    [tr EXCEPT !.time = SubSeq(tr.time, n + 1, Len(tr.time)),
               !.data = SubSeq(tr.data, n + 1, Len(tr.data))]

\* eraseFront(n, dt): the shift is subtracted from every stamp that is left.
EraseFront(tr, n, dt) ==
    [tr EXCEPT !.time = [i \in 1 .. Size(tr) - n |-> tr.time[i + n] - dt],
               !.data = SubSeq(tr.data, n + 1, Len(tr.data))]

\* n times pop_back()
PopBack(tr, n) == [tr EXCEPT !.time = SubSeq(@, 1, Size(tr) - n),
                             !.data = SubSeq(@, 1, Len(tr.data) - n)]

\* n times push_back(back(), dt, timeIsAbsolute)
PushBack(tr, n, dt, timeIsAbsolute) ==
    LET stamp(i) == IF timeIsAbsolute THEN dt ELSE tr.time[Size(tr)] + i * dt
    IN  [tr EXCEPT !.time = @ \o [i \in 1 .. n |-> stamp(i)],
                   !.data = @ \o [i \in 1 .. n |-> tr.data[Len(tr.data)]]]

\* operator=: stamps and data are copied, index_ is not.
Assigned(tr, other) == [tr EXCEPT !.time = other.time, !.data = other.data]
================================================================================
