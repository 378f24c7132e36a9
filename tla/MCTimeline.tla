----------------------------- MODULE MCTimeline -----------------------------
(***************************************************************************)
(* Recordings for the timeline (ReplayTimeline).                           *)
(***************************************************************************)
EXTENDS Integers

P(t, time, k, ticks, ip, x) ==
    [t |-> t, time |-> time, k |-> k, ticks |-> ticks, ip |-> ip, x |-> x, w |-> FALSE,
     sig |-> FALSE, str |-> FALSE]
W(p) == [p EXCEPT !.w = TRUE]
Sig(p) == [p EXCEPT !.sig = TRUE]
Str(p) == [p EXCEPT !.str = TRUE]

(* One thread: a loop over addresses 1 2 that writes the watched location, *)
(* a signal, a string instruction at address 3 one of whose iterations     *)
(* writes it.                                                              *)
LineLoop == [points |-> <<P(1, 1, 0, 0, 1, 0), P(1, 1, 1, 0, 1, 0), P(1, 1, 1, 0, 2, 0),
                      P(1, 1, 1, 1, 1, 1), W(P(1, 1, 1, 1, 2, 1)), P(1, 1, 1, 2, 1, 2),
                      Sig(P(1, 2, 0, 2, 1, 2)), P(1, 2, 1, 2, 1, 2), P(1, 2, 1, 2, 2, 2),
                      Str(P(1, 2, 1, 3, 3, 4)), Str(P(1, 2, 1, 3, 3, 3)), W(Str(P(1, 2, 1, 3, 3, 2))),
                      Str(P(1, 2, 1, 3, 3, 1)), P(1, 2, 1, 3, 4, 0), P(1, 3, 0, 3, 4, 0)>>,
         conditionFalse |-> {3}, cannotClone |-> {4, 10, 11, 12, 13}, barrier |-> 0, filter |-> {1},
         breakable |-> {2}]

(* A string instruction soon after the start.                              *)
LineStrings == [points |-> <<P(1, 1, 0, 1, 1, 0), P(1, 1, 1, 1, 1, 0), P(1, 1, 1, 2, 2, 1),
                         Str(P(1, 1, 1, 3, 3, 5)), Str(P(1, 1, 1, 3, 3, 4)), Str(P(1, 1, 1, 3, 3, 3)),
                         W(Str(P(1, 1, 1, 3, 3, 2))), Str(P(1, 1, 1, 3, 3, 1)), W(P(1, 1, 1, 3, 4, 0)),
                         P(1, 1, 1, 4, 3, 0), P(1, 1, 1, 4, 4, 1),
                         P(1, 2, 0, 4, 4, 1)>>,
            conditionFalse |-> {}, cannotClone |-> {6}, barrier |-> 0, filter |-> {1},
            breakable |-> {3}]

(* Two threads taking turns; thread 2 is debugged as well.                 *)
TurnPoints == <<P(1, 1, 0, 0, 1, 0), P(1, 1, 1, 0, 1, 0), P(1, 1, 1, 1, 2, 0),
                P(2, 2, 0, 0, 1, 5), P(2, 2, 1, 0, 1, 5), W(P(2, 2, 1, 0, 2, 5)), P(2, 2, 1, 1, 2, 6),
                P(1, 3, 0, 1, 2, 0), P(1, 3, 1, 1, 2, 0), P(1, 3, 1, 2, 1, 1), P(1, 3, 1, 2, 2, 1),
                P(2, 4, 0, 1, 2, 6), P(2, 4, 1, 1, 2, 6), P(2, 4, 1, 2, 3, 6),
                P(1, 5, 0, 2, 2, 1)>>
Turns(filter, barrier) ==
    [points |-> TurnPoints, conditionFalse |-> {}, cannotClone |-> {6, 10}, barrier |-> barrier,
     filter |-> filter, breakable |-> {2}]

TimelineRecordings == {LineLoop, LineStrings, Turns({1, 2}, 0), Turns({1}, 0), Turns({1, 2}, 3)}
=============================================================================
