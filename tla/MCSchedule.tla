------------------------------ MODULE MCSchedule ------------------------------
(* Instances of Schedule: two days of one schedule (a week of one day), a  *)
(* range at the day's start and one that reaches the next day's, and two   *)
(* updates of other managers: a later start on the first day, and a move   *)
(* to the end of the second at another price.                              *)
EXTENDS Schedule

MCDay   == {1, 2}
MCSpan  == {[from |-> 0, late |-> 0, to |-> 2], [from |-> 1, late |-> 1, to |-> 1]}
MCPrice == {1}

Shorten == [from |-> <<1, 1>>, to |-> NoTime, price |-> 0, status |-> "same"]
Move    == [from |-> <<2, 3>>, to |-> <<2, 4>>, price |-> 2, status |-> "same"]
MCEdits == {Shorten, Move}
=============================================================================
