----------------------------- MODULE ColoredTasks -----------------------------
(***************************************************************************)
(* What Mely promises to a program (the global view of task.lbc.C:25-31,   *)
(* cpucb and cpucb_tail of core.C): a posted callback runs once; callbacks *)
(* of one color never run together; a color runs first those posted with   *)
(* cpucb, then those posted with cpucb_tail, both in the order of their    *)
(* posts.  Threads, owners of colors and steals do not appear.             *)
(***************************************************************************)
EXTENDS Sequences

CONSTANTS Callbacks, ColorOf, AtTail

VARIABLES
  status, \* "idle" (not posted), "queued", "running" or "done"
  first,  \* first[k]: the queued callbacks of color k posted with cpucb
  next    \* next[k]: those posted with cpucb_tail

vars == <<status, first, next>>

Colors == {ColorOf[c] : c \in Callbacks}

Init ==
  /\ status = [c \in Callbacks |-> "idle"]
  /\ first = [k \in Colors |-> <<>>]
  /\ next = [k \in Colors |-> <<>>]

Post(c) ==
  /\ status[c] = "idle"
  /\ status' = [status EXCEPT ![c] = "queued"]
  /\ IF c \in AtTail
     THEN next' = [next EXCEPT ![ColorOf[c]] = Append(@, c)] /\ UNCHANGED first
     ELSE first' = [first EXCEPT ![ColorOf[c]] = Append(@, c)] /\ UNCHANGED next

(* Nothing of the color runs and c is the next of its color. *)
Start(c) ==
  LET k == ColorOf[c] IN
  /\ \A d \in Callbacks : status[d] = "running" => ColorOf[d] # k
  /\ status' = [status EXCEPT ![c] = "running"]
  /\ \/ /\ first[k] # <<>> /\ c = Head(first[k])
        /\ first' = [first EXCEPT ![k] = Tail(@)] /\ UNCHANGED next
     \/ /\ first[k] = <<>> /\ next[k] # <<>> /\ c = Head(next[k])
        /\ next' = [next EXCEPT ![k] = Tail(@)] /\ UNCHANGED first

Finish(c) ==
  /\ status[c] = "running"
  /\ status' = [status EXCEPT ![c] = "done"]
  /\ UNCHANGED <<first, next>>

Next == \E c \in Callbacks : Post(c) \/ Start(c) \/ Finish(c)

Spec == Init /\ [][Next]_vars
=============================================================================
