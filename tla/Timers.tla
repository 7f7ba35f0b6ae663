------------------------------- MODULE Timers -------------------------------
(***************************************************************************)
(* The timers of Mely (core.C: timecb, delaycb, timecb_remove, do_timecb,  *)
(* timecb_check).  A timer waits in timecbs, ordered by date, until the    *)
(* polling task of any thread finds it expired, moves it to timecbs_active *)
(* and posts do_timecb on its color, which runs its callback.  cb_mu_global*)
(* protects both trees; it protects neither nb_timecbs when _acheck tests  *)
(* it, nor tsnow, which every thread fills and reads.                      *)
(*                                                                         *)
(* The trees are lists, as IntervalTree shows.  A call of wakeup_fdwatcher *)
(* makes the next epoll_wait of the thread null or ends the one it is in   *)
(* and makes the next one null, as Wakeup shows: asked[t], which only the  *)
(* beginning of a wait lowers.  A color runs its tasks one at a time, first*)
(* in first out, on the thread that owns it, as Scheduler shows; its owner *)
(* changes under it when a thief takes it.                                 *)
(*                                                                         *)
(* A date is a number of ticks; its tv_sec is the date divided by Second,  *)
(* its tv_nsec the rest.  clock_gettime reads the clock and then fills the *)
(* two fields, in any order: another thread reads what is there.           *)
(***************************************************************************)
EXTENDS Integers, FiniteSetsExt, SequencesExt

CONSTANTS
  NThreads,  \* number of worker threads
  Colors,    \* the colors of the timers, natural numbers
  Timers,    \* the structures timecb allocates, each set at most once
  ColorOf,   \* the color of the callback of each
  Dates,     \* the dates a program asks for
  Second,    \* ticks in a second
  MaxClock,  \* bound: no clock goes further
  Programs   \* the programs, and the builds they run in

Threads == 0 .. NThreads - 1
Nobody  == -1
None    == 0   \* no timer

ASSUME TimersAssumption ==
  /\ NThreads \in Nat \ {0} /\ Colors \subseteq Nat
  /\ Second \in Nat \ {0} /\ MaxClock \in Nat
  /\ Timers \subseteq Nat \ {None} /\ ColorOf \in [Timers -> Colors]
  /\ Dates \subseteq 0 .. MaxClock
  /\ \A p \in Programs : /\ p.timers \subseteq Timers /\ p.dates \subseteq Dates
                         /\ p.stealing \in BOOLEAN /\ p.last \in 0 .. MaxClock

Long == 2 * MaxClock + Second  \* 86400 seconds, beyond every other wait

VARIABLES
  program,  \* what it may set, the STEALING build option, the last instant
  clock,    \* CLOCK_REALTIME
  tsnow,    \* tsnow, its two fields
  timecbs,  \* timecbs, the timers that wait, in the order of the tree
  active,   \* timecbs_active, those whose do_timecb is posted
  date,     \* date[x]: ts of timer x, -1 before it is set and once deleted
  cancel,   \* the timers with cancel = 1
  freed,    \* the timers deleted, with their callbacks
  ran,      \* the timers whose callback ran
  nb,       \* nb_timecbs
  lock,     \* holder of cb_mu_global
  owner,    \* color_to_queue: the thread of a color, Nobody during a steal
  queue,    \* queue[c]: the do_timecb posted on c
  asked,    \* asked[t]: a wakeup t has not answered yet
  pc,       \* where a thread is
  got,      \* what clock_gettime of a thread has read
  left,     \* the fields it has still to fill
  first,    \* otp of timecb_check; the timer a thread sets or runs
  ots,      \* ots of timecb_check
  wait,     \* fdwatcher_wait of a thread, in ticks; then when it must return
  loot,     \* the color a thief has taken and not yet inserted
  ahead     \* history: <<x, y>> when x waited in front of y

treeVars   == <<timecbs, active, date, cancel, nb, ahead>>
threadVars == <<got, left, first, ots, wait>>
doneVars   == <<freed, ran>>
placeVars  == <<owner, queue, asked, loot>>
timeVars   == <<clock, tsnow>>
vars == <<program, timeVars, treeVars, doneVars, placeVars, lock, pc,
          threadVars>>

Fields == {"sec", "nsec"}
FieldOf(d, f) == IF f = "sec" THEN d \div Second ELSE d % Second
Tsnow == tsnow["sec"] * Second + tsnow["nsec"]

Known  == {x \in Timers : date[x] >= 0}
Queued == {x \in Timers : \E c \in Colors : Contains(queue[c], x)}

Keyed == INSTANCE KeyedList WITH Entries <- Timers, Keys <- Dates,
                                 list <- timecbs, keyOf <- date

Goto(t, place) == pc' = [pc EXCEPT ![t] = place]

(* Before any timer is set; no color has been stolen. *)
Init ==
  /\ program \in Programs
  /\ clock = 0
  /\ tsnow = [f \in Fields |-> 0]
  /\ timecbs = <<>> /\ active = {} /\ cancel = {} /\ freed = {} /\ ran = {}
  /\ date = [x \in Timers |-> -1]
  /\ nb = 0
  /\ lock = Nobody
  /\ owner = [c \in Colors |-> c % NThreads]
  /\ queue = [c \in Colors |-> <<>>]
  /\ asked = [t \in Threads |-> FALSE]
  /\ pc = [t \in Threads |-> "loop"]
  /\ got = [t \in Threads |-> 0]
  /\ left = [t \in Threads |-> {}]
  /\ first = [t \in Threads |-> None]
  /\ ots = [t \in Threads |-> 0]
  /\ wait = [t \in Threads |-> 0]
  /\ loot = [t \in Threads |-> Nobody]
  /\ ahead = {}

-----------------------------------------------------------------------------
(* A program sets and cancels timers *)

(* The pairs <<x, y>> of timers with x in front of y. *)
InOrder(l) == {p \in Timers \X Timers :
                 \E i, j \in DOMAIN l : i < j /\ p = <<l[i], l[j]>>}

(* timecb under the lock, called by delaycb or by the program from the     *)
(* callback that t runs.                                                   *)
InsertTimer(t, x, d) ==
  /\ pc[t] = "loop" /\ x \notin Known \cup freed /\ lock = Nobody
  /\ date' = [date EXCEPT ![x] = d]
  /\ timecbs' = Keyed!InsertSorted(timecbs, date', x)
  /\ ahead' = ahead \cup InOrder(timecbs')
  /\ nb' = nb + 1
  /\ first' = [first EXCEPT ![t] = x]
  /\ Goto(t, "wake")
  /\ UNCHANGED <<timeVars, doneVars, placeVars, active, cancel, lock, got,
                 left, ots, wait>>

(* The end of timecb: wakeup_fdwatcher(color_to_thread(color)).  While the *)
(* color is being stolen that is thread -1: the lock and the flags of no   *)
(* thread are taken and written, in front of their arrays.  Either nothing *)
(* comes of it, or the thread never gets that lock.                        *)
WakeOwner(t) ==
  LET w == owner[ColorOf[first[t]]] IN
  /\ pc[t] = "wake"
  /\ \/ /\ w # Nobody
        /\ asked' = [asked EXCEPT ![w] = TRUE]
        /\ Goto(t, "loop")
     \/ /\ w = Nobody
        /\ Goto(t, "loop") \/ Goto(t, "fault")
        /\ UNCHANGED asked
  /\ first' = [first EXCEPT ![t] = None]
  /\ UNCHANGED <<timeVars, treeVars, doneVars, lock, owner, queue, loot, got,
                 left, ots, wait>>

(* Only one thread runs tasks of color c. *)
RunsColor(t, c) == pc[t] = "timer" /\ ColorOf[first[t]] = c

RemoveFreed(t, x) == \* mutant: an active timer is freed as well
  /\ pc[t] = "loop" /\ x \in Known \ cancel /\ lock = Nobody
  /\ owner[ColorOf[x]] = t
  /\ IF x \in active
     THEN /\ active' = active \ {x} /\ cancel' = cancel \cup {x}
          /\ freed' = freed \cup {x} /\ date' = [date EXCEPT ![x] = -1]
          /\ UNCHANGED timecbs
     ELSE /\ timecbs' = RemoveFirst(timecbs, x)
          /\ freed' = freed \cup {x} /\ date' = [date EXCEPT ![x] = -1]
          /\ UNCHANGED <<active, cancel>>
  /\ UNCHANGED <<timeVars, placeVars, threadVars, nb, ahead, ran, lock, pc>>

RemoveCounted(t, x) == \* mutant: nb_timecbs is lowered for active timers too
  /\ pc[t] = "loop" /\ x \in Known \ cancel /\ lock = Nobody
  /\ owner[ColorOf[x]] = t
  /\ IF x \in active
     THEN /\ active' = active \ {x} /\ cancel' = cancel \cup {x}
          /\ UNCHANGED <<timecbs, freed, date>>
     ELSE /\ timecbs' = RemoveFirst(timecbs, x)
          /\ freed' = freed \cup {x} /\ date' = [date EXCEPT ![x] = -1]
          /\ UNCHANGED <<active, cancel>>
  /\ nb' = nb - 1
  /\ UNCHANGED <<timeVars, placeVars, threadVars, ahead, ran, lock, pc>>

(* timecb_remove, called from a callback of the color of the timer: on     *)
(* another color the program could not know that the timer still exists.   *)
(* A timer in neither tree makes it panic.                                 *)
RemoveTimer(t, x) ==
  /\ pc[t] = "loop" /\ x \in Known \ cancel /\ lock = Nobody
  /\ owner[ColorOf[x]] = t
  /\ IF x \in active
     THEN /\ active' = active \ {x} /\ cancel' = cancel \cup {x}
          /\ UNCHANGED <<timecbs, freed, date>>
     ELSE /\ timecbs' = RemoveFirst(timecbs, x)
          /\ freed' = freed \cup {x} /\ date' = [date EXCEPT ![x] = -1]
          /\ UNCHANGED <<active, cancel>>
  /\ UNCHANGED <<timeVars, placeVars, threadVars, nb, ahead, ran, lock, pc>>

-----------------------------------------------------------------------------
(* do_timecb *)

(* A thread starts the first do_timecb of a color it owns, and takes the   *)
(* timer out of timecbs_active.                                            *)
StartTimer(t, c) ==
  /\ pc[t] = "loop" /\ owner[c] = t /\ queue[c] # <<>> /\ lock = Nobody
  /\ LET x == Head(queue[c])
     IN /\ active' = IF x \in cancel THEN active ELSE active \ {x}
        /\ first' = [first EXCEPT ![t] = x]
  /\ queue' = [queue EXCEPT ![c] = Tail(@)]
  /\ Goto(t, "timer")
  /\ UNCHANGED <<timeVars, doneVars, timecbs, date, cancel, nb, ahead, lock,
                 owner, asked, loot, got, left, ots, wait>>

(* After the unlock: test cancel again, run the callback, free both.       *)
RunTimer(t) ==
  /\ pc[t] = "timer"
  /\ ran' = IF first[t] \in cancel THEN ran ELSE ran \cup {first[t]}
  /\ freed' = freed \cup {first[t]}
  /\ date' = [date EXCEPT ![first[t]] = -1]
  /\ first' = [first EXCEPT ![t] = None]
  /\ Goto(t, "loop")
  /\ UNCHANGED <<timeVars, placeVars, timecbs, active, cancel, nb, ahead, lock,
                 got, left, ots, wait>>

-----------------------------------------------------------------------------
(* timecb_check *)

(* The thread has tasks other than its polling task. *)
HasWork(t) == \E c \in Colors : owner[c] = t /\ queue[c] # <<>>

(* A thread with tasks asks itself not to wait before it starts its polling*)
(* task (task_thread_loop), and not later.  _acheck: no timer, a long wait;*)
(* else clock_gettime reads the clock.                                     *)
BeginCheck(t) ==
  /\ pc[t] = "loop"
  /\ asked' = [asked EXCEPT ![t] = @ \/ HasWork(t)]
  /\ IF nb = 0
     THEN /\ wait' = [wait EXCEPT ![t] = Long] /\ Goto(t, "enter")
          /\ UNCHANGED <<got, left>>
     ELSE /\ got' = [got EXCEPT ![t] = clock]
          /\ left' = [left EXCEPT ![t] = Fields]
          /\ Goto(t, "fill") /\ UNCHANGED wait
  /\ UNCHANGED <<timeVars, treeVars, doneVars, owner, queue, loot, lock, first,
                 ots>>

(* clock_gettime fills a field of the shared tsnow, for the first ("fill") *)
(* or the second ("refill") call of timecb_check.                          *)
FillTsnow(t) ==
  /\ pc[t] \in {"fill", "refill"}
  /\ \E f \in left[t] :
       /\ tsnow' = [tsnow EXCEPT ![f] = FieldOf(got[t], f)]
       /\ left' = [left EXCEPT ![t] = @ \ {f}]
  /\ IF left'[t] # {} THEN UNCHANGED <<pc, got>>
     ELSE /\ Goto(t, IF pc[t] = "fill" THEN "lock" ELSE "compare")
          /\ got' = [got EXCEPT ![t] = 0]
  /\ UNCHANGED <<treeVars, doneVars, placeVars, clock, lock, first, ots, wait>>

(* LOCK(&cb_mu_global); otp = timecbs.first() *)
LockTimers(t) ==
  /\ pc[t] = "lock" /\ lock = Nobody
  /\ lock' = t
  /\ first' = [first EXCEPT ![t] = IF timecbs = <<>> THEN None
                                   ELSE Head(timecbs)]
  /\ Goto(t, "scan")
  /\ UNCHANGED <<timeVars, treeVars, doneVars, placeVars, got, left, ots,
                 wait>>

Expired == timecbs # <<>> /\ date[Head(timecbs)] <= Tsnow

(* register_task wakes the owner of the color, unless it is the thread that*)
(* posts (_rt_wakeup).                                                     *)
AskedToRun(w, t) == IF w = t THEN asked ELSE [asked EXCEPT ![w] = TRUE]

ExpireAtHead(t) == \* mutant: do_timecb is posted at the head of its color
  /\ pc[t] = "scan" /\ Expired
  /\ LET x == Head(timecbs)
     IN /\ timecbs' = Tail(timecbs)
        /\ queue' = [queue EXCEPT ![ColorOf[x]] = <<x>> \o @]
        /\ active' = active \cup {x}
        /\ owner[ColorOf[x]] # Nobody
        /\ asked' = AskedToRun(owner[ColorOf[x]], t)
  /\ nb' = nb - 1
  /\ UNCHANGED <<timeVars, doneVars, threadVars, date, cancel, ahead, lock,
                 owner, loot, pc>>

ExpireUnwoken(t) == \* mutant: the owner of the color is not woken
  /\ pc[t] = "scan" /\ Expired
  /\ LET x == Head(timecbs)
     IN /\ timecbs' = Tail(timecbs)
        /\ active' = active \cup {x}
        /\ queue' = [queue EXCEPT ![ColorOf[x]] = Append(@, x)]
        /\ owner[ColorOf[x]] # Nobody
  /\ nb' = nb - 1
  /\ UNCHANGED <<timeVars, doneVars, threadVars, date, cancel, ahead, lock,
                 owner, asked, loot, pc>>

(* One turn of the loop: an expired timer becomes active and its do_timecb *)
(* is posted, under the lock; register_task spins while its color has no   *)
(* owner, and wakes the owner.                                             *)
Expire(t) ==
  /\ pc[t] = "scan" /\ Expired
  /\ LET x == Head(timecbs)
     IN /\ timecbs' = Tail(timecbs)
        /\ active' = active \cup {x}
        /\ queue' = [queue EXCEPT ![ColorOf[x]] = Append(@, x)]
        /\ owner[ColorOf[x]] # Nobody
        /\ asked' = AskedToRun(owner[ColorOf[x]], t)
  /\ nb' = nb - 1
  /\ UNCHANGED <<timeVars, doneVars, threadVars, date, cancel, ahead, lock,
                 owner, loot, pc>>

(* The end of the loop: ots is the date of the timer that was first when   *)
(* the loop began, whatever became of it; unlock, and read the clock again.*)
UnlockTimers(t) ==
  /\ pc[t] = "scan" /\ ~Expired
  /\ lock' = Nobody
  /\ IF first[t] = None
     THEN /\ wait' = [wait EXCEPT ![t] = Long] /\ Goto(t, "enter")
          /\ UNCHANGED <<ots, got, left>>
     ELSE /\ ots' = [ots EXCEPT ![t] = date[first[t]]]
          /\ got' = [got EXCEPT ![t] = clock]
          /\ left' = [left EXCEPT ![t] = Fields]
          /\ Goto(t, "refill") /\ UNCHANGED wait
  /\ first' = [first EXCEPT ![t] = None]
  /\ UNCHANGED <<timeVars, treeVars, doneVars, placeVars>>

(* if (ots < tsnow) *)
Compare(t) ==
  /\ pc[t] = "compare"
  /\ IF ots[t] < Tsnow
     THEN wait' = [wait EXCEPT ![t] = 0] /\ Goto(t, "enter")
     ELSE UNCHANGED wait /\ Goto(t, "subtract")
  /\ UNCHANGED <<timeVars, treeVars, doneVars, placeVars, lock, got, left,
                 first, ots>>

SubtractSwapped(t) == \* mutant: the operands are exchanged
  /\ pc[t] = "subtract"
  /\ LET sec  == tsnow["sec"] - FieldOf(ots[t], "sec")
         nsec == tsnow["nsec"] - FieldOf(ots[t], "nsec")
     IN wait' = [wait EXCEPT ![t] =
                   IF nsec >= 0 THEN sec * Second + nsec
                   ELSE (sec - 1) * Second + (Second + nsec)]
  /\ Goto(t, "enter")
  /\ UNCHANGED <<timeVars, treeVars, doneVars, placeVars, lock, got, left,
                 first, ots>>

(* The two other branches read tsnow again, after the test. *)
Subtract(t) ==
  /\ pc[t] = "subtract"
  /\ LET sec  == FieldOf(ots[t], "sec") - tsnow["sec"]
         nsec == FieldOf(ots[t], "nsec") - tsnow["nsec"]
     IN wait' = [wait EXCEPT ![t] =
                   IF nsec >= 0 THEN sec * Second + nsec
                   ELSE (sec - 1) * Second + (Second + nsec)]
  /\ Goto(t, "enter")
  /\ UNCHANGED <<timeVars, treeVars, doneVars, placeVars, lock, got, left,
                 first, ots>>

(* epoll_wait: at once when the thread was asked not to wait or the wait is*)
(* null; for ever when it is negative.  A thread that begins to wait with  *)
(* tasks in its queue got them from its own timecb_check, and a wait that  *)
(* is not null all the same: it is "late" for them.  The last instant of   *)
(* the clock stands for all the later ones.                                *)
EnterEpoll(t) ==
  /\ pc[t] = "enter"
  /\ asked' = [asked EXCEPT ![t] = FALSE]
  /\ IF asked[t] \/ wait[t] = 0
     THEN Goto(t, "loop") /\ wait' = [wait EXCEPT ![t] = 0]
     ELSE /\ Goto(t, IF HasWork(t) THEN "late" ELSE "asleep")
          /\ wait' = [wait EXCEPT ![t] =
                        IF @ < 0 \/ @ = Long THEN Long
                        ELSE Min({program.last, clock + @})]
  /\ ots' = [ots EXCEPT ![t] = 0]
  /\ UNCHANGED <<timeVars, treeVars, doneVars, lock, owner, queue, loot, got,
                 left, first>>

Waiting(t) == pc[t] \in {"asleep", "late"}

(* epoll_wait returns: somebody asked, or the wait is over. *)
Return(t) ==
  /\ Waiting(t) /\ (asked[t] \/ clock >= wait[t])
  /\ wait' = [wait EXCEPT ![t] = 0]
  /\ Goto(t, "loop")
  /\ UNCHANGED <<timeVars, treeVars, doneVars, placeVars, lock, got, left,
                 first, ots>>

-----------------------------------------------------------------------------
Tick ==
  /\ clock < program.last
  /\ clock' = clock + 1
  /\ UNCHANGED <<treeVars, doneVars, placeVars, threadVars, tsnow, lock, pc>>

(* steal_work: an idle thread takes a color that is not running ...       *)
Steal(t, c) ==
  /\ program.stealing /\ pc[t] = "loop" /\ loot[t] = Nobody
  /\ owner[c] \notin {t, Nobody} /\ queue[c] # <<>>
  /\ ~RunsColor(owner[c], c)
  /\ owner' = [owner EXCEPT ![c] = Nobody]
  /\ loot' = [loot EXCEPT ![t] = c]
  /\ Goto(t, "steal")
  /\ UNCHANGED <<timeVars, treeVars, doneVars, threadVars, lock, queue, asked>>

(* ... and makes it its own. *)
Land(t) ==
  /\ pc[t] = "steal"
  /\ owner' = [owner EXCEPT ![loot[t]] = t]
  /\ loot' = [loot EXCEPT ![t] = Nobody]
  /\ Goto(t, "loop")
  /\ UNCHANGED <<timeVars, treeVars, doneVars, threadVars, lock, queue, asked>>

CheckSteps(t) ==
  \/ BeginCheck(t) \/ FillTsnow(t) \/ LockTimers(t) \/ Expire(t)
  \/ UnlockTimers(t) \/ Compare(t) \/ Subtract(t) \/ EnterEpoll(t) \/ Return(t)

RunSteps(t) == RunTimer(t) \/ WakeOwner(t) \/ \E c \in Colors : StartTimer(t, c)

ProgramSteps(t) ==
  \E x \in program.timers :
    RemoveTimer(t, x) \/ \E d \in program.dates : InsertTimer(t, x, d)

Same == UNCHANGED program

Next ==
  /\ Same
  /\ \/ \E t \in Threads : CheckSteps(t) \/ RunSteps(t) \/ ProgramSteps(t)
     \/ \E t \in Threads : Land(t) \/ \E c \in Colors : Steal(t, c)
     \/ Tick

Spec == Init /\ [][Next]_vars

(* A thread goes on with its loop, its queue before its polling task; time *)
(* passes and a theft ends.                                                *)
FairSpec ==
  /\ Spec /\ WF_vars(Same /\ Tick)
  /\ \A t \in Threads :
       /\ WF_vars(Same /\ CheckSteps(t))
       /\ WF_vars(Same /\ (RunTimer(t) \/ WakeOwner(t) \/ Land(t)))
       /\ \A c \in Colors : SF_vars(Same /\ StartTimer(t, c))
-----------------------------------------------------------------------------
(* The timers whose do_timecb is past its lock. *)
Running == {first[t] : t \in {u \in Threads : pc[u] = "timer"}}

Places   == {"waiting", "posted", "running", "deleted"}
Where(l) == CASE l = "waiting" -> ToSet(timecbs) [] l = "posted"  -> Queued
              [] l = "running" -> Running        [] l = "deleted" -> freed

(* A timer is in one place: it waits, or its do_timecb is posted or runs,  *)
(* or it is deleted.  It is in timecbs_active exactly while its do_timecb  *)
(* is posted and it is not cancelled, so timecb_remove always finds it; a  *)
(* timer that was cancelled while its do_timecb was posted never runs.     *)
OnePlace ==
  /\ \A x \in Known \cup freed : Cardinality({l \in Places : x \in Where(l)}) = 1
  /\ active = Queued \ cancel
  /\ cancel \cap ran = {}

(* nb_timecbs is never 0 while a timer waits: no polling task skips the    *)
(* tree on which a timer is.                                               *)
NoTimerIgnored == timecbs # <<>> => nb > 0

(* Timers of one color run in the order of their dates, and of their       *)
(* insertion for equal dates, whichever threads find them expired.         *)
RunInOrder ==
  [][\A x \in ran' \ ran : \A y \in Timers :
       <<y, x>> \in ahead /\ ColorOf[x] = ColorOf[y]
         => y \in freed \cup cancel]_vars

(* A timer does not run before its date. *)
NeverEarly == [][\A x \in ran' \ ran : date[x] <= clock]_vars

(* Never do all the threads wait without end, and nobody asked to stop,    *)
(* while a timer is in the tree: one of them at least waits for a time,    *)
(* after which it looks again, although the races on tsnow make others     *)
(* wait for ever.  Nothing bounds how long it waits: as much too long as   *)
(* the value of tsnow that it used was old.                                *)
NoOversleep ==
  (\A t \in Threads : Waiting(t) /\ ~asked[t]) /\ timecbs # <<>>
    => \E t \in Threads : wait[t] < Long

(* "This function may block if it is the only function in the system"      *)
(* (core_epoll.C:28): no thread waits with tasks in its queue, unless it   *)
(* is woken.                                                               *)
WaitsAlone == \A t \in Threads : Waiting(t) /\ ~asked[t] => ~HasWork(t)

(* "wakeup_fdwatcher: wakeup a thread blocked in fdcb_fdwatcher_check"     *)
(* (core_epoll.C:30): it is called for a thread.                           *)
WakesAThread == \A t \in Threads : pc[t] # "fault"

(* A timer that is set runs, or is cancelled, and is deleted; unless its   *)
(* do_timecb is in the queue of a thread that waits for ever in a wait that*)
(* its check got wrong, or a thread is lost in wakeup_fdwatcher(-1).       *)
EveryTimerEnds ==
  (\A t \in Threads : []<>(pc[t] \notin {"late", "fault"})) =>
    \A x \in Timers : x \in Known ~> x \in freed
=============================================================================
