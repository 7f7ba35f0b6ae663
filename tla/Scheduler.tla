------------------------------ MODULE Scheduler ------------------------------
(***************************************************************************)
(* The task scheduler of Mely (task.lbc.C) with the polling task that each *)
(* worker thread runs (core.C, acheck_task).                               *)
(*                                                                         *)
(* A callback has a color.  Each color has one Task_List, owned by one     *)
(* thread; the thread chains its non-empty lists in color_list and runs    *)
(* the first callback of the first list, one at a time, so two callbacks   *)
(* of one color never run together.  With STEALING an idle thread takes    *)
(* whole colors from another thread.  Nothing but the lock of the owner    *)
(* protects a list, and the owner of a color changes.                      *)
(*                                                                         *)
(* A section between LOCK(d) and UNLOCK(d) is one step when nobody can see *)
(* inside; when others can (a steal clears COLOR_TO_QUEUE color by color,  *)
(* which register_task reads unlocked; the pipe is written under the lock  *)
(* of the destination) it is several steps that hold mu[d].                *)
(***************************************************************************)
EXTENDS Integers, SequencesExt

CONSTANTS
  NThreads,         \* number of worker threads
  MaxColors,        \* MAX_COLORS
  Stealing,         \* the STEALING build option
  BatchThreshold,   \* NB_TASKS_FROM_SAME_COLOR_THRES
  IdlePrio,         \* priority of a polling task that found nothing (-100)
  Callbacks,        \* the callbacks of the program, each posted at most once
  BootProgram,      \* those main posts before amain, in this order
  ColorOf, PrioOf,  \* color and priority of each
  AtTail            \* those posted with cpucb_tail, not cpucb

ASSUME SchedulerAssumption ==
  /\ NThreads \in Nat \ {0} /\ MaxColors \in Nat \ {0}
  /\ Stealing \in BOOLEAN
  /\ BatchThreshold \in Nat \ {0}
  /\ IdlePrio \in Int
  /\ BootProgram \in Seq(Callbacks) /\ IsInjective(BootProgram)
  /\ AtTail \subseteq Callbacks
  /\ ColorOf \in [Callbacks -> Int] /\ PrioOf \in [Callbacks -> Int]
  /\ \A c \in Callbacks : ColorOf[c] >= -NThreads
  /\ Callbacks \cap {"acheck", "ainit", "none"} = {}

Threads == 0 .. NThreads - 1
Main    == NThreads              \* the thread that calls amain
Actors  == 0 .. NThreads
Nobody  == -1                    \* no owner, or no holder of a lock

(* A Task_List is named by its color: TL_ARRAY for 0 .. MAX_COLORS - 1,    *)
(* NEG_TL_ARRAY(t) is -t-1.                                                *)
Colors     == 0 .. MaxColors - 1
Lists      == -NThreads .. MaxColors - 1
NoList     == MaxColors
NegList(t) == -t - 1
ListOf(color, t) == IF color < 0 THEN NegList(t) ELSE color % MaxColors

Specials == {"acheck", "ainit"}
Post0    == [cb |-> "none", color |-> 0, prio |-> 0, last |-> FALSE]

VARIABLES
  queueOf,      \* COLOR_TO_QUEUE: owner of a color, Nobody during a steal
  acolor,       \* ACOLOR: the list whose callback a thread runs or ran last
  colorList,    \* color_list of a thread
  stealList,    \* steal_color_list; is_stealable means in one of them
  headSeg,      \* tasks of a list between first_task and last_head_task
  tailSeg,      \* tasks of a list between last_head_task and last_task
  prio,         \* default_prio of a list
  curPrio,      \* current_prio of a list
  taskCount,    \* task_count of a thread
  numUnique,    \* num_unique_colors of a thread
  nbExecuted,   \* nb_tasks_from_color_executed of a thread
  wasStealable, \* was_stealable of a thread
  hasBeenStolen,\* has_been_stolen of a thread
  mu,           \* holder of the task lock of a thread
  pc,           \* where an actor is
  running,      \* the callback a thread executes
  posting,      \* the callback an actor is in register_task with
  dest,         \* thread_dest of that register_task
  victim,       \* victim_number of a thread in steal_work
  loot,         \* the chain of stolen lists of a thread
  booted,       \* number of callbacks main has posted
  unposted,     \* callbacks not posted yet
  nowait, active, pipe, gotany, at, writes  \* see Wakeup

Watcher == INSTANCE Wakeup WITH Watchers <- Threads, Wakers <- Actors

wakeVars  == <<nowait, active, pipe, gotany, at, writes>>
listVars  == <<colorList, stealList, headSeg, tailSeg, prio, curPrio>>
countVars == <<taskCount, numUnique, nbExecuted>>
flagVars  == <<wasStealable, hasBeenStolen>>
stealVars == <<victim, loot>>
postVars  == <<posting, dest>>
bootVars  == <<booted, unposted>>
vars == <<queueOf, acolor, listVars, countVars, flagVars, mu, pc, running,
          postVars, stealVars, bootVars, wakeVars>>

-----------------------------------------------------------------------------
(* init_task_state and task_init_queue; main is about to post. *)
Init ==
  /\ queueOf = [c \in Colors |-> c % NThreads]
  /\ acolor = [t \in Threads |-> NoList]
  /\ colorList = [t \in Threads |-> <<>>]
  /\ stealList = [t \in Threads |-> <<>>]
  /\ headSeg = [l \in Lists |-> <<>>]
  /\ tailSeg = [l \in Lists |-> <<>>]
  /\ prio = [l \in Lists |-> 0]
  /\ curPrio = [l \in Lists |-> 0]
  /\ taskCount = [t \in Threads |-> 0]
  /\ numUnique = [t \in Threads |-> 0]
  /\ nbExecuted = [t \in Threads |-> 0]
  /\ wasStealable = [t \in Threads |-> FALSE]
  /\ hasBeenStolen = [t \in Threads |-> FALSE]
  /\ mu = [t \in Threads |-> Nobody]
  /\ pc = [a \in Actors |-> IF a = Main THEN "run" ELSE "off"]
  /\ running = [t \in Threads |-> "none"]
  /\ posting = [a \in Actors |-> Post0]
  /\ dest = [a \in Actors |-> Nobody]
  /\ victim = [t \in Threads |-> 0]
  /\ loot = [t \in Threads |-> <<>>]
  /\ booted = 0
  /\ unposted = Callbacks \ ToSet(BootProgram)
  /\ Watcher!Init

-----------------------------------------------------------------------------
(* Task lists *)

NbCallbacks(l) == Len(headSeg[l]) + Len(tailSeg[l])

(* num_unique_colors counts a list; the mutant misses color 0.             *)
UniquePositive(l) == IF l > 0 THEN 1 ELSE 0
Unique(l) == IF l >= 0 THEN 1 ELSE 0

(* The position of wti in insert_in_tl: the last list that keeps its place *)
(* before a list of priority p, every list behind it being aged by inc.    *)
Slot(list, p, inc, noAcolor) ==
  Max({0} \cup {i \in 1 .. Len(list) :
                   curPrio[list[i]] + inc >= p \/ (noAcolor /\ i = 1)})

(* insert_in_tl: l behind position s, and the current priorities after it. *)
Linked(list, s, l) == InsertAt(list, s + 1, l)
Aged(list, s, l, p, inc) ==
  [k \in Lists |->
     IF k = l THEN p
     ELSE IF \E i \in s + 1 .. Len(list) : list[i] = k THEN curPrio[k] + inc
     ELSE curPrio[k]]

(* unlink_tl and remove_from_steal_list. *)
Unlinked(list, l) ==
  IF Contains(list, l)
  THEN RemoveAt(list, CHOOSE i \in 1 .. Len(list) : list[i] = l)
  ELSE list

(* insert_in_steal_list; its mutant does not see a list already there. *)
StealLinkedAgain(list, l) == IF ~Stealing \/ l < 0 THEN list ELSE Append(list, l)
StealLinked(list, l) ==
  IF ~Stealing \/ l < 0 \/ Contains(list, l) THEN list ELSE Append(list, l)

(* is_stealable(t), on the given steal list. *)
Worth(list, t) == Len(list) - (IF Contains(list, acolor[t]) THEN 1 ELSE 0) > 1
IsStealable(t) == Worth(stealList[t], t)

-----------------------------------------------------------------------------
(* register_task *)

(* Who posts: a callback of the program, and the polling task for a timer  *)
(* that expired or for a descriptor that is ready.                         *)
MayPost(t) ==
  \/ running[t] \in Callbacks
  \/ running[t] = "acheck" /\ at[t] \in {"out", "due", "drained"}

(* Mutant: cpucb and cpucb_tail are swapped. *)
PostedSwapped(c) == [cb |-> c, color |-> ColorOf[c], prio |-> PrioOf[c],
                     last |-> c \notin AtTail]
Posted(c) == [cb |-> c, color |-> ColorOf[c], prio |-> PrioOf[c],
              last |-> c \in AtTail]

(* thread_dest without COLOR_TO_QUEUE; its mutant forgets that -1 is 0.    *)
DirectDestOff(p) == IF p.color < 0 THEN -p.color ELSE p.color % NThreads
DirectDest(p) == IF p.color < 0 THEN -p.color - 1 ELSE p.color % NThreads

(* The destination is computed here, or read from COLOR_TO_QUEUE next.     *)
BeginPost(a, p) ==
  /\ posting' = [posting EXCEPT ![a] = p]
  /\ IF p.color >= 0 /\ Stealing
     THEN /\ pc' = [pc EXCEPT ![a] = "read"]
          /\ UNCHANGED dest
     ELSE /\ pc' = [pc EXCEPT ![a] = "post"]
          /\ dest' = [dest EXCEPT ![a] = DirectDest(p)]

Post(t, c) ==
  /\ pc[t] = "run" /\ MayPost(t)
  /\ c \in unposted
  /\ unposted' = unposted \ {c}
  /\ BeginPost(t, Posted(c))
  /\ IF running[t] = "acheck" /\ at[t] # "drained"
     THEN Watcher!TimerDue(t) ELSE UNCHANGED wakeVars
  /\ UNCHANGED <<queueOf, acolor, listVars, countVars, flagVars, mu, running,
                 stealVars, booted>>

(* The unlocked read of COLOR_TO_QUEUE, repeated while it is -1. *)
ReadOwner(a) ==
  /\ pc[a] = "read"
  /\ LET owner == queueOf[posting[a].color % MaxColors] IN
     /\ owner # Nobody
     /\ dest' = [dest EXCEPT ![a] = owner]
  /\ pc' = [pc EXCEPT ![a] = "post"]
  /\ UNCHANGED <<queueOf, acolor, listVars, countVars, flagVars, mu, running,
                 posting, stealVars, bootVars, wakeVars>>

(* The second read, under the lock; its mutant trusts the first one.       *)
StillOwnerTrusted(a) == TRUE
StillOwner(a) ==
  Stealing /\ posting[a].color >= 0
    => queueOf[posting[a].color % MaxColors] = dest[a]

(* Under the lock the owner is another one: unlock and read again. *)
RetryPost(a) ==
  /\ pc[a] = "post" /\ mu[dest[a]] = Nobody /\ ~StillOwner(a)
  /\ pc' = [pc EXCEPT ![a] = "read"]
  /\ dest' = [dest EXCEPT ![a] = Nobody]
  /\ UNCHANGED <<queueOf, acolor, listVars, countVars, flagVars, mu, running,
                 posting, stealVars, bootVars, wakeVars>>

(* register_task returns: acheck_task posts itself last and returns too,   *)
(* its thread goes back to the top of task_thread_loop.                    *)
EndPostPolling(a) == \* mutant: acheck_task goes on polling
  /\ posting' = [posting EXCEPT ![a] = Post0]
  /\ dest' = [dest EXCEPT ![a] = Nobody]
  /\ pc' = [pc EXCEPT ![a] = "run"]
  /\ UNCHANGED running
EndPost(a) ==
  /\ posting' = [posting EXCEPT ![a] = Post0]
  /\ dest' = [dest EXCEPT ![a] = Nobody]
  /\ IF a # Main /\ posting[a].cb = "acheck"
     THEN /\ pc' = [pc EXCEPT ![a] = "loop"]
          /\ running' = [running EXCEPT ![a] = "none"]
     ELSE /\ pc' = [pc EXCEPT ![a] = "run"]
          /\ UNCHANGED running

(* Whether _register_cb chains the list; the mutant only chains a list     *)
(* when nothing ran yet.                                                   *)
FreshFirst(d, l)   == NbCallbacks(l) = 0 /\ acolor[d] = NoList
Fresh(d, l)        == NbCallbacks(l) = 0 /\ acolor[d] # l

(* _register_cb. *)
RegisterCb(d, p) ==
  LET l     == ListOf(p.color, d)
      fresh == Fresh(d, l)
      s     == Slot(colorList[d], p.prio, 0, acolor[d] = NoList)
  IN /\ IF fresh
        THEN /\ colorList' = [colorList EXCEPT ![d] = Linked(@, s, l)]
             /\ curPrio' = Aged(colorList[d], s, l, p.prio, 0)
        ELSE UNCHANGED <<colorList, curPrio>>
     /\ numUnique' = [numUnique EXCEPT
                        ![d] = @ + (IF fresh THEN Unique(l) ELSE 0)]
     /\ IF p.last
        THEN /\ tailSeg' = [tailSeg EXCEPT ![l] = Append(@, p.cb)]
             /\ UNCHANGED headSeg
        ELSE /\ headSeg' = [headSeg EXCEPT ![l] = Append(@, p.cb)]
             /\ UNCHANGED tailSeg
     /\ prio' = [prio EXCEPT ![l] = p.prio]
     /\ taskCount' = [taskCount EXCEPT ![d] = @ + 1]
     /\ stealList' = [stealList EXCEPT ![d] = StealLinked(@, l)]

(* The flags of _rt_wakeup.  try_to_wakeup finds nobody to wake: no code   *)
(* sets the sleeping flag it tests.                                        *)
UpdateStealFlags(d) ==
  IF ~Stealing THEN UNCHANGED flagVars
  ELSE /\ wasStealable' = [wasStealable EXCEPT ![d] = Worth(stealList'[d], d)]
       /\ hasBeenStolen' = [hasBeenStolen EXCEPT
                              ![d] = @ /\ ~Worth(stealList'[d], d)]

(* _rt_wakeup wakes another thread, but not for its polling task; the      *)
(* mutant does it for negative colors only.                                *)
WakesNegative(a, p) == dest[a] # a /\ p.cb # "acheck" /\ p.color < 0
Wakes(a, p) == dest[a] # a /\ p.cb # "acheck"

(* From LOCK(thread_dest) to the end of register_task, or to the write in  *)
(* the pipe of the destination if wakeup_fdwatcher has to make it.         *)
RegisterTask(a) ==
  LET d == dest[a]  p == posting[a] IN
  /\ pc[a] = "post" /\ mu[d] = Nobody /\ StillOwner(a)
  /\ RegisterCb(d, p)
  /\ UpdateStealFlags(d)
  /\ IF Wakes(a, p) THEN Watcher!Signal(a, d) ELSE UNCHANGED wakeVars
  /\ IF writes' = writes
     THEN EndPost(a) /\ UNCHANGED mu
     ELSE /\ pc' = [pc EXCEPT ![a] = "notify"]
          /\ mu' = [mu EXCEPT ![d] = a]
          /\ UNCHANGED <<running, postVars>>
  /\ UNCHANGED <<queueOf, acolor, nbExecuted, stealVars, bootVars>>

(* The write in the pipe, then UNLOCK(thread_dest). *)
Notify(a) ==
  /\ pc[a] = "notify"
  /\ Watcher!Write(a, dest[a])
  /\ mu' = [mu EXCEPT ![dest[a]] = Nobody]
  /\ EndPost(a)
  /\ UNCHANGED <<queueOf, acolor, listVars, countVars, flagVars, stealVars,
                 bootVars>>

-----------------------------------------------------------------------------
(* amain and task_go *)

(* main posts its callbacks, then amain posts ainit at the head and        *)
(* acheck_task at the tail of the negative color of each thread in turn.   *)
NbBoot == Len(BootProgram) + 2 * NThreads

BootCallback(n) ==
  LET k == n - Len(BootProgram) - 1 IN
  IF k < 0 THEN Posted(BootProgram[n])
  ELSE [cb |-> IF k % 2 = 0 THEN "ainit" ELSE "acheck",
        color |-> NegList(k \div 2), prio |-> 0, last |-> k % 2 = 1]

BootPost ==
  /\ pc[Main] = "run" /\ booted < NbBoot
  /\ booted' = booted + 1
  /\ BeginPost(Main, BootCallback(booted + 1))
  /\ UNCHANGED <<queueOf, acolor, listVars, countVars, flagVars, mu, running,
                 stealVars, unposted, wakeVars>>

(* task_go creates the workers and waits for them. *)
TaskGo ==
  /\ pc[Main] = "run" /\ booted = NbBoot
  /\ acolor' = [t \in Threads |-> NoList]
  /\ pc' = [a \in Actors |-> IF a = Main THEN "join" ELSE "loop"]
  /\ UNCHANGED <<queueOf, listVars, countVars, flagVars, mu, running,
                 postVars, stealVars, bootVars, wakeVars>>

-----------------------------------------------------------------------------
(* task_thread_loop *)

(* The only queued callback is acheck_task: try to steal first. *)
Idle(t) == Stealing /\ taskCount[t] = 1 /\ NThreads > 1

BeginSteal(t) ==
  /\ pc[t] = "loop" /\ mu[t] = Nobody /\ Idle(t)
  /\ pc' = [pc EXCEPT ![t] = "victim"]
  /\ victim' = [victim EXCEPT ![t] = 0]
  /\ UNCHANGED <<queueOf, acolor, listVars, countVars, flagVars, mu, running,
                 postVars, loot, bootVars, wakeVars>>

(* What happens to the list that ran last (lines 977-1003): it is removed  *)
(* when empty, and moved behind others when its batch is over.             *)
Retired(t) ==
  LET l    == acolor[t]
      list == colorList[t]
      rest == Unlinked(list, l)
      s    == Slot(rest, prio[l], nbExecuted[t], FALSE)
      same == [list |-> list, cur |-> curPrio, done |-> nbExecuted[t],
               uniq |-> numUnique[t]]
  IN IF l = NoList THEN same
     ELSE IF NbCallbacks(l) = 0 THEN
            [same EXCEPT !.list = rest, !.done = 0,
                         !.uniq = @ - Unique(l)]
     ELSE IF nbExecuted[t] < BatchThreshold THEN same
     ELSE IF l = Last(list) THEN [same EXCEPT !.done = 0]
     ELSE [same EXCEPT !.list = Linked(rest, s, l), !.done = 0,
                       !.cur = Aged(rest, s, l, prio[l], nbExecuted[t])]

(* The first task of a list. *)
First(l) == IF headSeg[l] # <<>> THEN Head(headSeg[l]) ELSE Head(tailSeg[l])

(* The thread must poll without waiting: more is queued.  n is TASK_COUNT  *)
(* without the polling task itself.                                        *)
NothingToWait(c, n) == c = "acheck" /\ n >= 1

(* choose_task takes the first task of the first list l of the thread, and *)
(* the thread begins to run it: the counters, the steal list, ACOLOR.      *)
(* Before a polling task it asks itself not to wait if more is queued.     *)
Run(t, l) ==
  /\ IF headSeg[l] # <<>>
     THEN headSeg' = [headSeg EXCEPT ![l] = Tail(@)] /\ UNCHANGED tailSeg
     ELSE tailSeg' = [tailSeg EXCEPT ![l] = Tail(@)] /\ UNCHANGED headSeg
  /\ stealList' = [stealList EXCEPT
                     ![t] = IF NbCallbacks(l) = 1 THEN Unlinked(@, l) ELSE @]
  /\ taskCount' = [taskCount EXCEPT ![t] = @ - 1]
  /\ nbExecuted' = [nbExecuted EXCEPT ![t] = Retired(t).done + 1]
  /\ acolor' = [acolor EXCEPT ![t] = l]
  /\ running' = [running EXCEPT ![t] = First(l)]
  /\ IF NothingToWait(First(l), taskCount'[t])
     THEN Watcher!Signal(t, t) ELSE UNCHANGED wakeVars

(* From LOCK or from the end of the insertion of stolen lists to UNLOCK.   *)
(* An empty first list is a PANIC, an empty color_list one when there is   *)
(* no stealing.                                                            *)
NextTask(t) ==
  /\ \/ pc[t] = "loop" /\ mu[t] = Nobody /\ ~Idle(t)
     \/ pc[t] = "insert" /\ loot[t] = <<>>
  /\ LET list == Retired(t).list  l == Head(list) IN
     /\ colorList' = [colorList EXCEPT ![t] = list]
     /\ curPrio' = Retired(t).cur
     /\ numUnique' = [numUnique EXCEPT ![t] = Retired(t).uniq]
     /\ IF list # <<>> /\ NbCallbacks(l) > 0
        THEN /\ Run(t, l)
             /\ pc' = [pc EXCEPT ![t] = "run"]
        ELSE /\ pc' = [pc EXCEPT ![t] = IF list = <<>> /\ Stealing
                                        THEN "loop" ELSE "panic"]
             /\ nbExecuted' = [nbExecuted EXCEPT ![t] = Retired(t).done]
             /\ UNCHANGED <<headSeg, tailSeg, stealList, taskCount, acolor,
                            running, wakeVars>>
  /\ mu' = [mu EXCEPT ![t] = Nobody]
  /\ UNCHANGED <<queueOf, prio, flagVars, postVars, stealVars, bootVars>>

(* A callback returns: one of the program, or ainit after it initialized   *)
(* the descriptors of its thread.                                          *)
EndCallback(t) ==
  /\ pc[t] = "run"
  /\ \/ running[t] \in Callbacks
     \/ running[t] = "ainit" /\ at[t] # "new"
  /\ pc' = [pc EXCEPT ![t] = "loop"]
  /\ running' = [running EXCEPT ![t] = "none"]
  /\ UNCHANGED <<queueOf, acolor, listVars, countVars, flagVars, mu, postVars,
                 stealVars, bootVars, wakeVars>>

-----------------------------------------------------------------------------
(* steal_work *)

(* The next victim, or the end of the loop: then lock the own queue again. *)
Advance(t) ==
  IF victim[t] + 1 = NThreads
  THEN /\ pc' = [pc EXCEPT ![t] = "relock"]
       /\ victim' = [victim EXCEPT ![t] = 0]
  ELSE /\ pc' = [pc EXCEPT ![t] = "victim"]
       /\ victim' = [victim EXCEPT ![t] = @ + 1]

(* The unlocked test of the victim. *)
CheckVictim(t) ==
  /\ pc[t] = "victim"
  /\ IF victim[t] = t \/ ~IsStealable(victim[t])
     THEN Advance(t)
     ELSE /\ pc' = [pc EXCEPT ![t] = "lockvictim"]
          /\ UNCHANGED victim
  /\ UNCHANGED <<queueOf, acolor, listVars, countVars, flagVars, mu, running,
                 postVars, loot, bootVars, wakeVars>>

LockVictimBlindly(t) == \* mutant: the test is not made again
  LET v == victim[t] IN
  /\ pc[t] = "lockvictim" /\ mu[v] = Nobody
  /\ mu' = [mu EXCEPT ![v] = t]
  /\ hasBeenStolen' = [hasBeenStolen EXCEPT ![t] = TRUE]
  /\ pc' = [pc EXCEPT ![t] = "stealing"]
  /\ UNCHANGED <<queueOf, acolor, listVars, countVars, wasStealable, running,
                 postVars, victim, loot, bootVars, wakeVars>>

(* LOCK(victim) and the test again.  has_been_stolen is the flag of the    *)
(* thief, written under the lock of the victim.                            *)
LockVictim(t) ==
  LET v == victim[t] IN
  /\ pc[t] = "lockvictim" /\ mu[v] = Nobody
  /\ IF IsStealable(v)
     THEN /\ mu' = [mu EXCEPT ![v] = t]
          /\ hasBeenStolen' = [hasBeenStolen EXCEPT ![t] = TRUE]
          /\ pc' = [pc EXCEPT ![t] = "stealing"]
          /\ UNCHANGED victim
     ELSE Advance(t) /\ UNCHANGED <<mu, hasBeenStolen>>
  /\ UNCHANGED <<queueOf, acolor, listVars, countVars, wasStealable, running,
                 postVars, loot, bootVars, wakeVars>>

(* nb_colors_to_steal: half of the steal list the victim had when it was   *)
(* locked, but at least one.                                               *)
Quota(t) == Max({1, (Len(stealList[victim[t]]) + Len(loot[t])) \div 2})

(* The lists of v the thief may take: not the one v runs, which the mutant *)
(* takes too.                                                              *)
StealableRunning(v) == 1 .. Len(stealList[v])
Stealable(v) ==
  {i \in 1 .. Len(stealList[v]) : stealList[v][i] # acolor[v]}

(* One turn of the loop on the steal list of the victim.  The code lowers  *)
(* the counters of the victim at the end of the loop, still under its lock.*)
StealColor(t) ==
  LET v == victim[t]
      l == stealList[v][Min(Stealable(v))]
  IN /\ pc[t] = "stealing" /\ Stealable(v) # {} /\ Len(loot[t]) < Quota(t)
     /\ IF NbCallbacks(l) > 0
        THEN /\ queueOf' = [queueOf EXCEPT ![l] = Nobody]
             /\ colorList' = [colorList EXCEPT ![v] = Unlinked(@, l)]
             /\ stealList' = [stealList EXCEPT ![v] = Unlinked(@, l)]
             /\ loot' = [loot EXCEPT ![t] = Append(@, l)]
             /\ numUnique' = [numUnique EXCEPT ![v] = @ - 1]
             /\ taskCount' = [taskCount EXCEPT ![v] = @ - NbCallbacks(l)]
             /\ UNCHANGED pc
        ELSE /\ pc' = [pc EXCEPT ![t] = "panic"]
             /\ UNCHANGED <<queueOf, colorList, stealList, loot, numUnique,
                            taskCount>>
     /\ UNCHANGED <<acolor, headSeg, tailSeg, prio, curPrio, nbExecuted,
                    flagVars, mu, running, postVars, victim, bootVars,
                    wakeVars>>

(* UNLOCK(victim); the program exits if nothing was found. *)
LeaveVictim(t) ==
  LET v == victim[t] IN
  /\ pc[t] = "stealing"
  /\ Stealable(v) = {} \/ Len(loot[t]) >= Quota(t)
  /\ mu' = [mu EXCEPT ![v] = Nobody]
  /\ victim' = [victim EXCEPT ![t] = 0]
  /\ pc' = [pc EXCEPT ![t] = IF loot[t] = <<>> THEN "panic" ELSE "relock"]
  /\ UNCHANGED <<queueOf, acolor, listVars, countVars, flagVars, running,
                 postVars, loot, bootVars, wakeVars>>

(* task_thread_loop after steal_work: LOCK(_thread_no). *)
Relock(t) ==
  /\ pc[t] = "relock" /\ mu[t] = Nobody
  /\ mu' = [mu EXCEPT ![t] = t]
  /\ pc' = [pc EXCEPT ![t] = "insert"]
  /\ UNCHANGED <<queueOf, acolor, listVars, countVars, flagVars, running,
                 postVars, stealVars, bootVars, wakeVars>>

InsertUnowned(t) == \* mutant: COLOR_TO_QUEUE is not updated
  LET l == Head(loot[t])
      s == Slot(colorList[t], prio[l], 0, acolor[t] = NoList)
  IN /\ pc[t] = "insert" /\ loot[t] # <<>>
     /\ loot' = [loot EXCEPT ![t] = Tail(@)]
     /\ numUnique' = [numUnique EXCEPT ![t] = @ + 1]
     /\ taskCount' = [taskCount EXCEPT ![t] = @ + NbCallbacks(l)]
     /\ colorList' = [colorList EXCEPT ![t] = Linked(@, s, l)]
     /\ curPrio' = Aged(colorList[t], s, l, prio[l], 0)
     /\ stealList' = [stealList EXCEPT ![t] = StealLinked(@, l)]
     /\ UNCHANGED <<queueOf, acolor, headSeg, tailSeg, prio, nbExecuted,
                    flagVars, mu, pc, running, postVars, victim, bootVars,
                    wakeVars>>

(* One stolen list is inserted; the last assignment makes t its owner. *)
InsertStolen(t) ==
  LET l == Head(loot[t])
      s == Slot(colorList[t], prio[l], 0, acolor[t] = NoList)
  IN /\ pc[t] = "insert" /\ loot[t] # <<>>
     /\ loot' = [loot EXCEPT ![t] = Tail(@)]
     /\ numUnique' = [numUnique EXCEPT ![t] = @ + 1]
     /\ taskCount' = [taskCount EXCEPT ![t] = @ + NbCallbacks(l)]
     /\ colorList' = [colorList EXCEPT ![t] = Linked(@, s, l)]
     /\ curPrio' = Aged(colorList[t], s, l, prio[l], 0)
     /\ stealList' = [stealList EXCEPT ![t] = StealLinked(@, l)]
     /\ queueOf' = [queueOf EXCEPT ![l] = t]
     /\ UNCHANGED <<acolor, headSeg, tailSeg, prio, nbExecuted, flagVars, mu,
                    pc, running, postVars, victim, bootVars, wakeVars>>

-----------------------------------------------------------------------------
(* ainit and acheck_task *)

(* The steps of the watcher that touch nothing of the scheduler. *)
Poll(t) ==
  /\ pc[t] = "run"
  /\ \/ running[t] = "ainit" /\ Watcher!InitPrivate(t)
     \/ /\ running[t] = "acheck"
        /\ \/ Watcher!EnterEpoll(t)
           \/ Watcher!Return(t)
           \/ Watcher!ClearActive(t)
           \/ Watcher!DrainPipe(t)
  /\ UNCHANGED <<queueOf, acolor, listVars, countVars, flagVars, mu, pc,
                 running, postVars, stealVars, bootVars>>

(* A descriptor of the thread becomes ready, or a timer expires. *)
Event(t) ==
  /\ pc[t] = "run" /\ running[t] = "acheck"
  /\ Watcher!ReturnEvent(t)
  /\ UNCHANGED <<queueOf, acolor, listVars, countVars, flagVars, mu, pc,
                 running, postVars, stealVars, bootVars>>

(* The end of acheck_task: it posts itself again, at once and without      *)
(* waiting the next time if it found something.                            *)
Repost(t) ==
  /\ pc[t] = "run" /\ running[t] = "acheck"
  /\ Watcher!Leave(t)
  /\ BeginPost(t, [cb |-> "acheck", color |-> NegList(t), last |-> TRUE,
                   prio |-> IF gotany[t] THEN 0 ELSE IdlePrio])
  /\ UNCHANGED <<queueOf, acolor, listVars, countVars, flagVars, mu, running,
                 stealVars, bootVars>>

-----------------------------------------------------------------------------
PostSteps(a)   == ReadOwner(a) \/ RetryPost(a) \/ RegisterTask(a) \/ Notify(a)
LoopSteps(t)   == BeginSteal(t) \/ NextTask(t) \/ EndCallback(t)
StealSteps(t)  == CheckVictim(t) \/ LockVictim(t) \/ StealColor(t)
                  \/ LeaveVictim(t) \/ Relock(t) \/ InsertStolen(t)
PollSteps(t)   == Poll(t) \/ Repost(t)

Next ==
  \/ \E a \in Actors : PostSteps(a)
  \/ \E t \in Threads, c \in Callbacks : Post(t, c)
  \/ \E t \in Threads :
        LoopSteps(t) \/ StealSteps(t) \/ PollSteps(t) \/ Event(t)
  \/ BootPost \/ TaskGo

Spec == Init /\ [][Next]_vars

(* A thread that is not stopped takes its next step, a spinning thread     *)
(* gets the lock, or reads an owner, if it can again and again (xchg spin  *)
(* locks promise no more than that in practice), and callbacks return.     *)
(* Nothing forces main or a callback to post, or a descriptor to be ready. *)
Fairness ==
  /\ \A a \in Actors : SF_vars(PostSteps(a))
  /\ \A t \in Threads : SF_vars(LoopSteps(t) \/ StealSteps(t) \/ PollSteps(t))
  /\ WF_vars(BootPost \/ TaskGo)

FairSpec == Spec /\ Fairness

-----------------------------------------------------------------------------
(* Properties *)

PCs == {"off", "run", "read", "post", "notify", "loop", "victim",
        "lockvictim", "stealing", "relock", "insert", "join", "panic"}
Tasks == Callbacks \cup Specials
Posts == [cb : Tasks \cup {"none"}, color : Int, prio : Int, last : BOOLEAN]

ListsOK ==
  /\ queueOf \in [Colors -> Threads \cup {Nobody}]
  /\ acolor \in [Threads -> Lists \cup {NoList}]
  /\ colorList \in [Threads -> Seq(Lists)]
  /\ stealList \in [Threads -> Seq(Colors)]
  /\ loot \in [Threads -> Seq(Colors)]
  /\ headSeg \in [Lists -> Seq(Tasks)]
  /\ tailSeg \in [Lists -> Seq(Tasks)]

CountsOK ==
  /\ prio \in [Lists -> Int] /\ curPrio \in [Lists -> Int]
  /\ taskCount \in [Threads -> Int] /\ numUnique \in [Threads -> Int]
  /\ nbExecuted \in [Threads -> Nat]
  /\ wasStealable \in [Threads -> BOOLEAN]
  /\ hasBeenStolen \in [Threads -> BOOLEAN]

ControlOK ==
  /\ mu \in [Threads -> Actors \cup {Nobody}]
  /\ pc \in [Actors -> PCs]
  /\ running \in [Threads -> Tasks \cup {"none"}]
  /\ posting \in [Actors -> Posts]
  /\ dest \in [Actors -> Threads \cup {Nobody}]
  /\ victim \in [Threads -> Threads]
  /\ booted \in 0 .. NbBoot
  /\ unposted \subseteq Callbacks

TypeOK == ListsOK /\ CountsOK /\ ControlOK /\ Watcher!TypeOK

(* Without stealing the code reduces a color modulo MAX_COLORS to find its *)
(* list but not to find its thread: the two agree for the colors below it. *)
ColorsFit == Stealing \/ \A c \in Callbacks : ColorOf[c] < MaxColors

Executing(t) == pc[t] \in {"run", "read", "post", "notify"}

(* "Each thread treats a different color (acolor)" (task.lbc.C:27): two    *)
(* threads that run callbacks run them from different lists, whatever the  *)
(* steals and posts in between.                                            *)
ColorExclusion ==
  \A t, u \in Threads :
    t # u /\ Executing(t) /\ Executing(u) => acolor[t] # acolor[u]

(* Who may touch a list: a chained list is in the color_list of its owner  *)
(* only, and once; a list without an owner is in the chain of exactly one  *)
(* thief, and once.                                                        *)
HomeOf(l, t) == IF l < 0 THEN l = NegList(t) ELSE queueOf[l] = t

OneHome ==
  /\ \A t \in Threads : IsInjective(colorList[t]) /\ IsInjective(loot[t])
  /\ \A t \in Threads : \A l \in ToSet(colorList[t]) : HomeOf(l, t)
  /\ \A l \in Colors :
       queueOf[l] = Nobody <=> \E t \in Threads : l \in ToSet(loot[t])
  /\ \A t, u \in Threads : t # u => ToSet(loot[t]) \cap ToSet(loot[u]) = {}

(* No queued callback is out of reach: its list is chained at a thread, or *)
(* on its way to one.                                                      *)
NoStrandedTask ==
  \A l \in Lists :
    NbCallbacks(l) > 0 =>
      \E t \in Threads : Contains(colorList[t], l) \/ Contains(loot[t], l)

(* w[1] + ... + w[k]. *)
Total(w, k) ==
  LET upTo[n \in 0 .. k] == IF n = 0 THEN 0 ELSE upTo[n - 1] + w[n]
  IN upTo[k]

(* What the color_list of t holds, list by list from the first, -NThreads. *)
NbLists == NThreads + MaxColors
Holds(t, l) == IF Contains(colorList[t], l) THEN NbCallbacks(l) ELSE 0
NbQueued(t) ==
  Total([n \in 1 .. NbLists |-> Holds(t, n - NThreads - 1)], NbLists)

(* task_count and num_unique_colors, which decide when a thread steals and *)
(* whether it may block, are what the lists hold.                          *)
CountersExact ==
  \A t \in Threads :
    /\ taskCount[t] = NbQueued(t)
    /\ numUnique[t] = Cardinality({l \in ToSet(colorList[t]) : l >= 0})

(* The steal list of a thread is exactly its colors with queued callbacks. *)
StealListExact ==
  Stealing =>
    \A t \in Threads :
      /\ IsInjective(stealList[t])
      /\ ToSet(stealList[t]) =
           {l \in ToSet(colorList[t]) : l >= 0 /\ NbCallbacks(l) > 0}

(* None of the PANIC and exit of the scheduler is reached.                 *)
NoPanic == \A a \in Actors : pc[a] # "panic"

(* Each worker has its polling task exactly once: queued, running, or      *)
(* being posted again.                                                     *)
PollingTaskOnce ==
  pc[Main] = "join" =>
    \A t \in Threads :
      LET l == NegList(t) IN
      Cardinality({i \in 1 .. Len(headSeg[l]) : headSeg[l][i] = "acheck"})
      + Cardinality({i \in 1 .. Len(tailSeg[l]) : tailSeg[l][i] = "acheck"})
      + (IF running[t] = "acheck"
         THEN 1 ELSE 0) = 1

Asleep(t) == Watcher!Asleep(t)
Woken(t)  == pipe[t] \/ Watcher!Announced(t)

(* Work that a worker had before it polled, or that another one gives it,  *)
(* never waits for it in epoll_wait: a byte is in its pipe or about to be. *)
(* What it gave itself when a timer expired may, if the timeout came out   *)
(* wrong; but the next post of another worker wakes it, and nothing takes  *)
(* a wakeup back.                                                          *)
NeverSleepsOnWork ==
  [][\A t \in Threads :
       Asleep(t)' /\ taskCount'[t] > 0 =>
         \/ Woken(t)'
         \/ at'[t] = "late" /\ taskCount'[t] <= taskCount[t] /\ ~Woken(t)]_vars

Queued(c) == \E l \in Lists : Contains(headSeg[l], c) \/ Contains(tailSeg[l], c)
Runs(c)   == \E t \in Threads : running[t] = c

(* A callback that is being posted, or queued, is run: its poster finds    *)
(* the owner of its color, and no thread sleeps, steals or polls forever   *)
(* instead of running it.  But a thread that stays in an epoll_wait whose  *)
(* timeout came out wrong after it queued a callback for itself may not    *)
(* run what it has: nobody knows that it should be woken.                  *)
EveryTaskRuns ==
  (\A t \in Threads : []<>(at[t] # "late")) =>
    \A c \in Callbacks :
      Queued(c) \/ (\E a \in Actors : posting[a].cb = c) ~> Runs(c)

(* The scheduler uses the wakeup protocol as Wakeup says: its threads call *)
(* wakeup_fdwatcher and fdcb_fdwatcher_check in the ways it allows only.   *)
ImplementsWakeup == Watcher!Spec

-----------------------------------------------------------------------------
(* The scheduler keeps the promises of ColoredTasks *)

Unbooted == {BootProgram[n] : n \in booted + 1 .. Len(BootProgram)}

StatusOf(c) ==
  IF Queued(c) THEN "queued"
  ELSE IF Runs(c) THEN "running"
  ELSE IF c \in unposted \cup Unbooted \/ \E a \in Actors : posting[a].cb = c
  THEN "idle" ELSE "done"

(* The elements of s in S, in their order. *)
Selected(s, S) ==
  LET upTo[n \in 0 .. Len(s)] ==
        IF n = 0 THEN <<>>
        ELSE IF s[n] \in S THEN Append(upTo[n - 1], s[n]) ELSE upTo[n - 1]
  IN upTo[Len(s)]

OfColor(seg, k) ==
  Selected(seg[ListOf(k, -k - 1)], {c \in Callbacks : ColorOf[c] = k})

Promise == INSTANCE ColoredTasks
  WITH status <- [c \in Callbacks |-> StatusOf(c)],
       first  <- [k \in {ColorOf[c] : c \in Callbacks} |-> OfColor(headSeg, k)],
       next   <- [k \in {ColorOf[c] : c \in Callbacks} |-> OfColor(tailSeg, k)]

(* Posts, steals, insertions and threads, hidden, leave a program where    *)
(* each callback runs once, in the order of its color and never together   *)
(* with another one of its color.                                          *)
ImplementsColoredTasks == Promise!Spec
=============================================================================
