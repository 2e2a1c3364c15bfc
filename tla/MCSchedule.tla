----------------------------- MODULE MCSchedule -----------------------------
EXTENDS Schedule

(* A short timer where a move under load is allowed; a timer and a volume, *)
(* where it is not, with traffic enough for a counter to wrap.             *)
MCSpans == {[t_lo |-> 5, t_hi |-> 10, mb_lo |-> 0, mb_hi |-> 0, soft |-> TRUE, units |-> 2],
            [t_lo |-> 10, t_hi |-> 10, mb_lo |-> 1, mb_hi |-> 1, soft |-> FALSE, units |-> 5]}
=============================================================================
