------------------------------ MODULE MCWakeup ------------------------------
(* Two watchers that are also wakers of each other, as the worker threads  *)
(* are, and one more waker: the main thread before the workers start.      *)
EXTENDS Wakeup, Integers, TLC

CONSTANTS w1, w2, k1

MCWatchers == {w1, w2}
MCWakers   == {w1, w2, k1}
=============================================================================
