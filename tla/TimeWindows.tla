----------------------------- MODULE TimeWindows -----------------------------
(***************************************************************************)
(* build_time_windows and _window_filter (execution.py).  Times are natural*)
(* numbers of the finest resolution a column may have (microseconds);      *)
(* bounds pass through a text with whole seconds, Second of these.  A      *)
(* window is a pair: its start, included, and its end, excluded.           *)
(***************************************************************************)
EXTENDS Integers, Sequences

CONSTANT Second    \* the resolution of _format_datetime

ASSUME SecondAssumption == Second \in Nat \ {0}

\* Durations are a positive number of hours, days or weeks.
Durations == {d \in Nat \ {0} : d % Second = 0}

\* _format_datetime: fractions of a second are cut off.
Truncated(t) == t - (t % Second)

Lesser(a, b) == IF a < b THEN a ELSE b

\* The number of windows: the division rounded up.
Count(start, end, every) == (end - start + every - 1) \div every

\* Faulty variant of Bound: the last window is a whole one.
WholeBound(start, end, every, i) == start + i * every

\* Where window i ends and window i + 1 starts: the variable current after
\* the i-th iteration.
Bound(start, end, every, i) == Lesser(start + i * every, end)

\* start < end is checked by the caller.
BuildTimeWindows(start, end, every) ==
    [i \in 1 .. Count(start, end, every) |->
        <<Truncated(Bound(start, end, every, i - 1)), Truncated(Bound(start, end, every, i))>>]

\* _window_filter, which formats the bounds again.
Selects(window, t) == Truncated(window[1]) <= t /\ t < Truncated(window[2])
=============================================================================
