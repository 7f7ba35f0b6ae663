----------------------------- MODULE MCScheduler -----------------------------
(***************************************************************************)
(* Small programs for the scheduler.  A color starts on thread             *)
(* color % NThreads.                                                       *)
(***************************************************************************)
EXTENDS Scheduler

(* Two threads without stealing: main posts a; b and c, of a's color, and  *)
(* d, of a negative color, come later, c with a higher priority.           *)
PlainColor == [a |-> 0, b |-> 1, c |-> 0, d |-> -2]
PlainPrio  == [a |-> 0, b |-> 0, c |-> 1, d |-> 0]
PlainBoot  == <<"a">>

(* Two threads: four colors on thread 0, of which thread 1 takes two at    *)
(* once before the first runs; one is posted to again while it runs or     *)
(* moves, with a higher priority.                                          *)
FiveColor == [a |-> 0, b |-> 2, c |-> 4, d |-> 6, e |-> 2]
FivePrio  == [a |-> 0, b |-> 0, c |-> 0, d |-> 0, e |-> 1]
FiveBoot  == <<"a", "b", "c", "d">>
FourColor == [a |-> 0, b |-> 2, c |-> 4, d |-> 2]
FourPrio  == [a |-> 0, b |-> 0, c |-> 1, d |-> 0]
StealBoot == <<"a", "b", "c">>

(* For liveness, the smallest program with a post from each thread and a   *)
(* post to a color that may be stolen.                                     *)
LiveColor == [a |-> 0, b |-> 2, c |-> 0]
LivePrio  == [a |-> 0, b |-> 0, c |-> 1]
LiveBoot  == <<"a", "b">>

(* Two threads and three colors, 3 being a color that shares list 0.       *)
ModuloColor == [a |-> 0, b |-> 3]
ModuloPrio  == [a |-> 0, b |-> 0]
ModuloBoot  == <<"a">>

MinusTwo == -2
=============================================================================
