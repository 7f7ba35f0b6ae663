------------------------------ MODULE MCTimers ------------------------------
(***************************************************************************)
(* Two threads, and seconds of two ticks.  Two timers of one color, in the *)
(* second that runs or due in it; or one timer, in this second or the      *)
(* next, whose color is stolen.                                            *)
(***************************************************************************)
EXTENDS Timers

MCColor == [x \in Timers |-> 0]

TwoTimers == [timers |-> {1, 2}, dates |-> {0, 1}, last |-> 1,
              stealing |-> FALSE]
Stolen    == [timers |-> {1}, dates |-> {1, 3}, last |-> 3, stealing |-> TRUE]

MCPrograms == {TwoTimers, Stolen}

(* One timer and its thread. *)
MCOneTimer == {[Stolen EXCEPT !.stealing = FALSE]}
=============================================================================
