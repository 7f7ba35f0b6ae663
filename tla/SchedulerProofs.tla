-------------------------- MODULE SchedulerProofs --------------------------
(***************************************************************************)
(* The scheduler and the wakeup protocol together: the scheduler uses the  *)
(* protocol as Wakeup says, whose guarantees it inherits, and asks a       *)
(* worker not to wait whenever it gives it work.  Then what that rests on: *)
(* the polling task of each worker is there, once, and task_count is the   *)
(* number of its callbacks.  At last, the scheduler keeps the promise of   *)
(* ColoredTasks for every number of threads, colors and callbacks: each of *)
(* its steps posts, starts or finishes one callback as ColoredTasks says,  *)
(* or changes nothing that a program can see.                              *)
(***************************************************************************)
EXTENDS SchedulerSafety, FiniteSetTheorems

WatcherProofs == INSTANCE WakeupProofs
                 WITH Watchers <- Threads, Wakers <- Actors

(* A worker is inside fdcb_fdwatcher_check only while it runs its polling  *)
(* task; before the wait the only post that does not stop it from blocking *)
(* is the last one, of the polling task itself; and if it has other tasks  *)
(* when it is about to choose its timeout and no timer was due, or sleeps  *)
(* until the next one, it was asked not to wait.                           *)
Waiting(t) == at[t] \in {"poll", "block", "late", "returned", "cleared"}
Polls(t)   == pc[t] = "run" /\ running[t] = "acheck"

Awake(t) ==
  /\ Waiting(t) => Polls(t)
  /\ pc[t] \in {"read", "post", "notify"} /\ running[t] = "acheck"
       /\ at[t] = "out" => posting[t].cb = "acheck"
  /\ Polls(t) /\ at[t] \in {"out", "block"} /\ taskCount[t] > 0 => nowait[t]

AwakeInv == \A t \in Threads : Awake(t)

-----------------------------------------------------------------------------
(* Every step of the scheduler is a step of the wakeup protocol, or leaves *)
(* its variables alone.                                                    *)
LEMMA WakeupStep == TypeInv /\ [Next]_vars => [Watcher!Next]_(Watcher!vars)
  <1> SUFFICES ASSUME TypeInv, [Next]_vars
               PROVE  Watcher!Next \/ UNCHANGED Watcher!vars
      OBVIOUS
  <1> USE DEF Watcher!Next, Watcher!vars, Watcher!Watch, wakeVars
  <1>1. CASE UNCHANGED vars
        BY <1>1 DEF vars
  <1>2. ASSUME NEW a \in Actors, PostSteps(a)
        PROVE  Watcher!Next \/ UNCHANGED Watcher!vars
    <2>1. CASE ReadOwner(a) \/ RetryPost(a)
          BY <2>1 DEF ReadOwner, RetryPost
    <2>2. CASE RegisterTask(a)
      <3>1. dest[a] \in Threads
            BY <2>2 DEF RegisterTask, TypeInv, PostOK
      <3> QED BY <2>2, <3>1 DEF RegisterTask
    <2>3. CASE Notify(a)
      <3>1. dest[a] \in Threads
            BY <2>3 DEF Notify, TypeInv, PostOK
      <3> QED BY <2>3, <3>1 DEF Notify
    <2> QED BY <1>2, <2>1, <2>2, <2>3 DEF PostSteps
  <1>3. ASSUME NEW t \in Threads, NEW c \in Callbacks, Post(t, c)
        PROVE  Watcher!Next \/ UNCHANGED Watcher!vars
        BY <1>3 DEF Post
  <1>4. ASSUME NEW t \in Threads, LoopSteps(t)
        PROVE  Watcher!Next \/ UNCHANGED Watcher!vars
    <2>1. CASE BeginSteal(t) \/ EndCallback(t)
          BY <2>1 DEF BeginSteal, EndCallback
    <2>2. CASE NextTask(t)
          BY <2>2, Names DEF NextTask, Run
    <2> QED BY <1>4, <2>1, <2>2 DEF LoopSteps
  <1>5. ASSUME NEW t \in Threads, StealSteps(t)
        PROVE  Watcher!Next \/ UNCHANGED Watcher!vars
        BY <1>5 DEF StealSteps, CheckVictim, LockVictim, StealColor,
                    LeaveVictim, Relock, InsertStolen
  <1>6. ASSUME NEW t \in Threads, PollSteps(t) \/ Event(t)
        PROVE  Watcher!Next \/ UNCHANGED Watcher!vars
        BY <1>6 DEF PollSteps, Poll, Repost, Event
  <1>7. CASE BootPost \/ TaskGo
        BY <1>7 DEF BootPost, TaskGo
  <1> QED BY <1>1, <1>2, <1>3, <1>4, <1>5, <1>6, <1>7 DEF Next

(* The types, as a temporal formula.                                       *)
LEMMA TypesKept == Spec => []TypeInv
  BY TypeInvInit, TypeInvStep, PTL DEF Spec

(* The guarantees of the protocol hold in the scheduler.                   *)
LEMMA UsesWakeup == Spec => ImplementsWakeup
  <1>1. Init => Watcher!Init
        BY DEF Init
  <1> QED BY <1>1, TypesKept, WakeupStep, PTL
          DEF Spec, ImplementsWakeup, Watcher!Spec

(* The invariant of Wakeup holds of the protocol inside the scheduler.     *)
LEMMA WakeupsKept == Spec => []Watcher!NoLostWakeup
  <1>1. Watcher!Init <=> WatcherProofs!Init
        BY DEF Watcher!Init, WatcherProofs!Init
  <1>2. Watcher!Next <=> WatcherProofs!Next
    <2>1. ASSUME NEW w \in Threads
          PROVE  /\ Watcher!Watch(w) <=> WatcherProofs!Watch(w)
                 /\ Watcher!ReturnEvent(w) <=> WatcherProofs!ReturnEvent(w)
                 /\ Watcher!TimerDue(w) <=> WatcherProofs!TimerDue(w)
          BY DEF Watcher!Watch, WatcherProofs!Watch, Watcher!InitPrivate,
              WatcherProofs!InitPrivate, Watcher!EnterEpoll,
              WatcherProofs!EnterEpoll, Watcher!Waits, WatcherProofs!Waits,
              Watcher!Asleep, WatcherProofs!Asleep,
              Watcher!Return, WatcherProofs!Return,
              Watcher!ReturnEvent, WatcherProofs!ReturnEvent,
              Watcher!ClearActive, WatcherProofs!ClearActive,
              Watcher!DrainPipe, WatcherProofs!DrainPipe, Watcher!Leave,
              WatcherProofs!Leave, Watcher!TimerDue, WatcherProofs!TimerDue,
              Watcher!Busy, WatcherProofs!Busy
    <2>2. ASSUME NEW k \in Actors, NEW w \in Threads
          PROVE  /\ Watcher!Signal(k, w) <=> WatcherProofs!Signal(k, w)
                 /\ Watcher!Write(k, w) <=> WatcherProofs!Write(k, w)
          BY DEF Watcher!Signal, WatcherProofs!Signal, Watcher!Write,
              WatcherProofs!Write, Watcher!Busy, WatcherProofs!Busy,
              Watcher!Running, WatcherProofs!Running
    <2> QED BY <2>1, <2>2 DEF Watcher!Next, WatcherProofs!Next
  <1>3. [Watcher!Next]_(Watcher!vars)
          <=> [WatcherProofs!Next]_(WatcherProofs!vars)
        BY <1>2 DEF Watcher!vars, WatcherProofs!vars
  <1>4. Watcher!NoLostWakeup <=> WatcherProofs!NoLostWakeup
        BY DEF Watcher!NoLostWakeup, WatcherProofs!NoLostWakeup,
            Watcher!Announced, WatcherProofs!Announced,
            Watcher!Asleep, WatcherProofs!Asleep
  <1>5. Watcher!Spec => []Watcher!NoLostWakeup
        BY <1>1, <1>3, <1>4, WatcherProofs!WakeupsKept, PTL
        DEF Watcher!Spec, WatcherProofs!Spec
  <1> QED BY <1>5, UsesWakeup, PTL DEF ImplementsWakeup

-----------------------------------------------------------------------------
(* What a step of an actor may do to the other workers. *)
Kept(t) ==
  /\ at'[t] = at[t] /\ pc'[t] = pc[t] /\ running'[t] = running[t]
  /\ posting'[t] = posting[t]
  /\ nowait[t] => nowait'[t]
  /\ Polls(t) /\ taskCount'[t] > 0 => taskCount[t] > 0 \/ nowait'[t]

(* What a step of a must keep of the others.                               *)
LEMMA OthersAwake ==
  ASSUME AwakeInv, NEW a \in Actors,
         \A t \in Threads : t # a => Kept(t),
         a \in Threads => Awake(a)'
  PROVE  AwakeInv'
  <1> SUFFICES ASSUME NEW t \in Threads, t # a PROVE Awake(t)'
      BY DEF AwakeInv
  <1>1. Awake(t) /\ Kept(t)
        BY DEF AwakeInv
  <1> QED BY <1>1 DEF Awake, Kept, Waiting, Polls

(* The lists and the watchers are left alone.                              *)
LEMMA QuietAwake ==
  ASSUME TypeInv, AwakeInv, NEW a \in Actors,
         UNCHANGED <<taskCount, wakeVars>>,
         \A b \in Actors : b # a => pc'[b] = pc[b] /\ posting'[b] = posting[b],
         \A t \in Threads : t # a => running'[t] = running[t],
         a \in Threads => Awake(a)'
  PROVE  AwakeInv'
  <1>1. ASSUME NEW t \in Threads, t # a PROVE Kept(t)
        BY <1>1, Names DEF Kept, wakeVars
  <1> QED BY <1>1, OthersAwake

-----------------------------------------------------------------------------
(* register_task *)

(* A callback that posts leaves every thread awake that must be. *)
LEMMA PostAwake ==
  ASSUME SafeInv, AwakeInv, NEW t \in Threads, NEW c \in Callbacks, Post(t, c)
  PROVE  AwakeInv'
  <1> USE DEF SafeInv
  <1>1. /\ t \in Actors /\ pc'[t] \in {"read", "post"} /\ pc[t] = "run"
        /\ \A b \in Actors : b # t => /\ pc'[b] = pc[b]
                                      /\ posting'[b] = posting[b]
        /\ UNCHANGED <<running, taskCount>>
        BY Names DEF Post, BeginPost, countVars, TypeInv, TypeOK, ControlOK
  <1>2. /\ UNCHANGED nowait /\ \A u \in Threads : u # t => at'[u] = at[u]
        /\ at'[t] = at[t] \/ at'[t] = "due"
        /\ running[t] = "acheck" => at'[t] \in {"due", "drained"}
    <2>1. CASE running[t] = "acheck" /\ at[t] # "drained"
          BY <2>1 DEF Post, Watcher!TimerDue, TypeInv, TypeOK, Watcher!TypeOK
    <2>2. CASE ~(running[t] = "acheck" /\ at[t] # "drained")
      <3>1. UNCHANGED <<at, nowait>>
            BY <2>2 DEF Post, wakeVars
      <3> QED BY <2>2, <3>1
    <2> QED BY <2>1, <2>2
  <1>3. Awake(t)'
    <2>1. ~(at'[t] \in {"poll", "block", "late", "returned", "cleared"})
      <3>1. CASE running[t] = "acheck"
            BY <1>2, <3>1
      <3>2. CASE running[t] # "acheck"
            BY <1>2, <3>2 DEF AwakeInv, Awake, Waiting, Polls
      <3> QED BY <3>1, <3>2
    <2> QED BY <1>1, <1>2, <2>1 DEF Awake, Waiting, Polls
  <1> QED BY <1>1, <1>2, <1>3, OthersAwake, Names DEF Kept

(* acheck_task posts itself after the wait.                                *)
LEMMA RepostAwake ==
  ASSUME SafeInv, AwakeInv, NEW t \in Threads, Repost(t)
  PROVE  AwakeInv'
  <1> USE DEF SafeInv
  <1>1. /\ t \in Actors /\ pc'[t] \in {"read", "post"}
        /\ posting'[t].cb = "acheck"
        /\ \A b \in Actors : b # t => /\ pc'[b] = pc[b]
                                      /\ posting'[b] = posting[b]
        /\ UNCHANGED <<running, taskCount>>
        BY Names DEF Repost, BeginPost, countVars, TypeInv, TypeOK, ControlOK
  <1>2. /\ at'[t] = "out" /\ \A u \in Threads : u # t => at'[u] = at[u]
        /\ \A u \in Threads : u # t => nowait'[u] = nowait[u]
        BY DEF Repost, Watcher!Leave, TypeInv, TypeOK, Watcher!TypeOK
  <1>3. Awake(t)'
        BY <1>1, <1>2 DEF Awake, Waiting, Polls
  <1> QED BY <1>1, <1>2, <1>3, OthersAwake, Names DEF Kept

(* The steps of register_task before the insertion.                        *)
LEMMA ReadAwake ==
  ASSUME SafeInv, AwakeInv, NEW a \in Actors, ReadOwner(a) \/ RetryPost(a)
  PROVE  AwakeInv'
  <1> USE DEF SafeInv
  <1>1. /\ pc[a] \in {"read", "post"} /\ pc'[a] \in {"read", "post"}
        /\ \A b \in Actors : b # a => pc'[b] = pc[b]
        /\ UNCHANGED <<running, posting, taskCount, wakeVars>>
        BY DEF ReadOwner, RetryPost, countVars, TypeInv, TypeOK, ControlOK
  <1>2. a \in Threads => Awake(a)'
        BY <1>1 DEF AwakeInv, Awake, Waiting, Polls, wakeVars
  <1> QED BY <1>1, <1>2, QuietAwake

(* The poster goes on; a polling task that has posted itself is over.      *)
LEMMA EndPostAwake ==
  ASSUME SafeInv, AwakeInv, NEW a \in Threads,
         pc[a] \in {"post", "notify"}, at'[a] = at[a], EndPost(a)
  PROVE  Awake(a)'
  <1>1. a \in Actors /\ a # Main
        BY Names
  <1>2. Awake(a) /\ ~Polls(a)
        BY DEF AwakeInv, Polls
  <1>3. CASE posting[a].cb = "acheck"
    <2>1. pc'[a] = "loop"
          BY <1>1, <1>3 DEF EndPost, SafeInv, TypeInv, TypeOK, ControlOK
    <2> QED BY <1>2, <2>1 DEF Awake, Waiting, Polls
  <1>4. CASE posting[a].cb # "acheck"
    <2>1. pc'[a] = "run" /\ running'[a] = running[a]
          BY <1>1, <1>4 DEF EndPost, SafeInv, TypeInv, TypeOK, ControlOK
    <2> QED BY <1>2, <1>4, <2>1 DEF Awake, Waiting, Polls
  <1> QED BY <1>3, <1>4

(* A task for another worker comes with a call of wakeup_fdwatcher; a      *)
(* polling task is for its own worker.                                     *)
LEMMA RegisterTaskAsks ==
  ASSUME SafeInv, NEW a \in Actors, RegisterTask(a), NEW d, d = dest[a]
  PROVE  /\ d \in Threads /\ pc[a] = "post" /\ UNCHANGED at
         /\ \A t \in Threads : nowait[t] => nowait'[t]
         /\ \A t \in Threads : t # d => taskCount'[t] = taskCount[t]
         /\ d # a => nowait'[d] \/ ~Polls(d)
  <1> USE DEF SafeInv
  <1>0. PICK p : p = posting[a]
        OBVIOUS
  <1>1. /\ d \in Threads /\ pc[a] = "post"
        BY DEF RegisterTask, TypeInv, PostOK
  <1>2. \A t \in Threads : t # d => taskCount'[t] = taskCount[t]
        BY DEF RegisterTask, RegisterCb, TypeInv, TypeOK, CountsOK
  <1>3. /\ UNCHANGED at
        /\ \A t \in Threads : nowait[t] => nowait'[t]
        /\ d # a /\ p.cb # "acheck" => nowait'[d]
    <2>1. CASE Wakes(a, p)
      <3>1. Watcher!Signal(a, d)
            BY <1>0, <2>1 DEF RegisterTask
      <3> QED BY <1>1, <3>1 DEF Watcher!Signal, TypeInv, TypeOK, Watcher!TypeOK
    <2>2. CASE ~Wakes(a, p)
          BY <1>0, <2>2 DEF RegisterTask, Wakes, wakeVars
    <2> QED BY <2>1, <2>2
  <1>4. d # a /\ p.cb = "acheck" => ~Polls(d)
    <2> SUFFICES ASSUME d # a, p.cb = "acheck" PROVE ~Polls(d)
        OBVIOUS
    <2>1. p.color = NegList(d) /\ (a # Main => p.color = NegList(a))
          BY <1>0, <1>1 DEF FlowInv, Posting, GoesHome
    <2>2. a = Main
      <3>1. a \in Int /\ d \in Int
            BY <1>1, SchedulerAssumption
            DEF Actors, Threads, SchedulerAssumption
      <3> QED BY <2>1, <3>1 DEF NegList
    <2> QED BY <1>1, <2>2 DEF FlowInv, Starting, Polls
  <1> QED BY <1>1, <1>2, <1>3, <1>4

(* register_task keeps every worker with tasks from waiting. *)
LEMMA RegisterTaskAwake ==
  ASSUME SafeInv, AwakeInv, NEW a \in Actors, RegisterTask(a)
  PROVE  AwakeInv'
  <1> USE DEF SafeInv
  <1>0. PICK d : d = dest[a]
        OBVIOUS
  <1>1. /\ d \in Threads /\ pc[a] = "post" /\ UNCHANGED at
        /\ \A t \in Threads : nowait[t] => nowait'[t]
        /\ \A t \in Threads : t # d => taskCount'[t] = taskCount[t]
        /\ d # a => nowait'[d] \/ ~Polls(d)
        BY <1>0, RegisterTaskAsks
  <1>5. /\ \A b \in Actors : b # a => /\ pc'[b] = pc[b]
                                      /\ posting'[b] = posting[b]
        /\ \A t \in Threads : t # a => running'[t] = running[t]
        BY RegisteredControl
  <1>6. ASSUME NEW t \in Threads, t # a PROVE Kept(t)
    <2>1. CASE t = d
          BY <1>1, <1>5, <1>6, <2>1, Names DEF Kept
    <2>2. CASE t # d
          BY <1>1, <1>5, <1>6, <2>2, Names DEF Kept
    <2> QED BY <2>1, <2>2
  <1>7. ASSUME a \in Threads PROVE Awake(a)'
    <2>1. CASE writes' = writes
      <3>1. EndPost(a)
            BY <2>1 DEF RegisterTask
      <3> QED BY <1>1, <1>7, <3>1, EndPostAwake
    <2>2. CASE writes' # writes
      <3>1. /\ pc' = [pc EXCEPT ![a] = "notify"]
            /\ UNCHANGED <<running, posting>>
            BY <2>2 DEF RegisterTask, postVars
      <3>2. pc'[a] = "notify"
            BY <3>1 DEF TypeInv, TypeOK, ControlOK
      <3> QED BY <1>1, <1>7, <3>1, <3>2
              DEF AwakeInv, Awake, Waiting, Polls
    <2> QED BY <2>1, <2>2
  <1> QED BY <1>6, <1>7, OthersAwake

(* wakeup_fdwatcher.                                                       *)
LEMMA NotifyAwake ==
  ASSUME SafeInv, AwakeInv, NEW a \in Actors, Notify(a)
  PROVE  AwakeInv'
  <1> USE DEF SafeInv
  <1>1. /\ pc[a] = "notify" /\ EndPost(a)
        /\ UNCHANGED <<at, nowait, taskCount>>
        BY DEF Notify, Watcher!Write, countVars
  <1>2. /\ \A b \in Actors : b # a => /\ pc'[b] = pc[b]
                                      /\ posting'[b] = posting[b]
        /\ \A t \in Threads : t # a => running'[t] = running[t]
        BY <1>1 DEF EndPost, TypeInv, TypeOK, ControlOK
  <1>3. a \in Threads => Awake(a)'
        BY <1>1, EndPostAwake
  <1>4. ASSUME NEW t \in Threads, t # a PROVE Kept(t)
        BY <1>1, <1>2, <1>4, Names DEF Kept
  <1> QED BY <1>3, <1>4, OthersAwake

-----------------------------------------------------------------------------
(* task_thread_loop and steal_work *)

(* So does taking the next callback. *)
LEMMA NextTaskAwake ==
  ASSUME SafeInv, AwakeInv, NEW t \in Threads, NextTask(t)
  PROVE  AwakeInv'
  <1>0. PICK l : l = Head(Retired(t).list)
        OBVIOUS
  <1> USE DEF SafeInv
  <1>1. /\ t \in Actors /\ Run(t, l) /\ pc' = [pc EXCEPT ![t] = "run"]
        BY <1>0, NextTaskRuns, Names
  <1>2. /\ pc'[t] = "run" /\ pc[t] # "run"
        /\ \A b \in Actors : b # t => pc'[b] = pc[b]
        /\ UNCHANGED posting
        BY <1>1 DEF NextTask, postVars, TypeInv, TypeOK, ControlOK
  <1>3. /\ running'[t] = First(l)
        /\ \A u \in Threads : u # t => /\ running'[u] = running[u]
                                       /\ taskCount'[u] = taskCount[u]
        /\ taskCount'[t] \in Int
        BY <1>1 DEF Run, TypeInv, TypeOK, ControlOK, CountsOK
  <1>4. /\ UNCHANGED at
        /\ \A u \in Threads : u # t => nowait'[u] = nowait[u]
        /\ First(l) = "acheck" /\ taskCount'[t] > 0 => nowait'[t]
    <2>1. CASE NothingToWait(First(l), taskCount'[t])
      <3>1. Watcher!Signal(t, t)
            BY <1>1, <2>1 DEF Run
      <3> QED BY <3>1 DEF Watcher!Signal, TypeInv, TypeOK, Watcher!TypeOK
    <2>2. CASE ~NothingToWait(First(l), taskCount'[t])
      <3>1. UNCHANGED <<at, nowait>>
            BY <1>1, <2>2 DEF Run, wakeVars
      <3>2. ~(First(l) = "acheck" /\ taskCount'[t] > 0)
            BY <1>3, <2>2 DEF NothingToWait
      <3> QED BY <3>1, <3>2
    <2> QED BY <2>1, <2>2
  <1>5. ASSUME NEW u \in Threads, u # t PROVE Kept(u)
        BY <1>2, <1>3, <1>4, <1>5, Names DEF Kept
  <1>6. Awake(t)'
    <2>1. ~Waiting(t)
          BY <1>2 DEF AwakeInv, Awake, Polls
    <2> QED BY <1>2, <1>3, <1>4, <2>1 DEF Awake, Waiting, Polls
  <1> QED BY <1>5, <1>6, OthersAwake, Names

(* A thief only lowers a task count. *)
LEMMA StealTakes ==
  ASSUME TypeInv, NEW t \in Threads, StealColor(t)
  PROVE  \A u \in Threads : /\ taskCount'[u] <= taskCount[u]
                            /\ taskCount'[u] \in Int
  <1>1. PICK v, l : v = victim[t] /\ l = stealList[v][Min(Stealable(v))]
        OBVIOUS
  <1>2. v \in Threads /\ l \in Lists
    <2>1. v \in Threads /\ Stealable(v) # {}
          BY <1>1 DEF StealColor, TypeInv, TypeOK, ControlOK
    <2> QED BY <1>1, <2>1, StolenList DEF TypeInv, TypeOK
  <1>3. PICK n \in Nat : n = NbCallbacks(l)
        BY <1>2, NbCallbacksType DEF TypeInv, TypeOK
  <1>4. \/ taskCount' = taskCount
        \/ taskCount' = [taskCount EXCEPT ![v] = @ - n]
        BY <1>1, <1>3 DEF StealColor
  <1>5. taskCount \in [Threads -> Int]
        BY DEF TypeInv, TypeOK, CountsOK
  <1>6. \A u \in Threads : \/ taskCount'[u] = taskCount[u]
                           \/ taskCount'[u] = taskCount[u] - n
        BY <1>4, <1>5
  <1> QED BY <1>3, <1>5, <1>6

(* A thread that is in its loop is not in the wait. *)
LEMMA LoopAwake ==
  ASSUME SafeInv, AwakeInv, NEW t \in Threads,
         BeginSteal(t) \/ EndCallback(t) \/ StealSteps(t)
  PROVE  AwakeInv'
  <1> USE DEF SafeInv
  <1>1. /\ t \in Actors /\ ~Polls(t) /\ UNCHANGED <<posting, wakeVars>>
        /\ \A u \in Threads : u # t => running'[u] = running[u]
    <2>1. CASE EndCallback(t)
          BY <2>1, Names, SchedulerAssumption
          DEF EndCallback, postVars, Polls, SchedulerAssumption, TypeInv,
              TypeOK, ControlOK
    <2>2. CASE BeginSteal(t) \/ StealSteps(t)
          BY <2>2, Names
          DEF BeginSteal, StealSteps, CheckVictim, LockVictim, StealColor,
              LeaveVictim, Relock, InsertStolen, postVars, Polls
    <2> QED BY <2>1, <2>2
  <1>2. /\ pc'[t] \notin {"run", "read", "post", "notify"}
        /\ \A b \in Actors : b # t => pc'[b] = pc[b]
        BY LoopControl
  <1>3. \A u \in Threads : u # t /\ taskCount'[u] > 0 => taskCount[u] > 0
    <2>1. CASE StealColor(t)
          BY <2>1, StealTakes DEF TypeInv, TypeOK, CountsOK
    <2>2. CASE InsertStolen(t)
          BY <2>2 DEF InsertStolen, TypeInv, TypeOK, CountsOK
    <2>3. CASE ~StealColor(t) /\ ~InsertStolen(t)
          BY <2>3 DEF BeginSteal, EndCallback, StealSteps, CheckVictim,
                      LockVictim, LeaveVictim, Relock, countVars
    <2> QED BY <2>1, <2>2, <2>3
  <1>4. ASSUME NEW u \in Threads, u # t PROVE Kept(u)
        BY <1>1, <1>2, <1>3, <1>4, Names DEF Kept, wakeVars
  <1>5. Awake(t)'
        BY <1>1, <1>2 DEF AwakeInv, Awake, Waiting, Polls, wakeVars
  <1> QED BY <1>1, <1>4, <1>5, OthersAwake

-----------------------------------------------------------------------------
(* The polling task *)

(* So does a step of the polling callback, or an event that it waits for. *)
LEMMA PollAwake ==
  ASSUME SafeInv, AwakeInv, NEW t \in Threads, Poll(t) \/ Event(t)
  PROVE  AwakeInv'
  <1> USE DEF SafeInv
  <1>1. /\ t \in Actors /\ pc[t] = "run"
        /\ UNCHANGED <<pc, running, posting, taskCount>>
        BY Names DEF Poll, Event, countVars, postVars
  <1>2. \A u \in Threads : u # t => at'[u] = at[u] /\ nowait'[u] = nowait[u]
        BY DEF Poll, Event, Watcher!InitPrivate, Watcher!EnterEpoll,
               Watcher!Return, Watcher!ClearActive, Watcher!DrainPipe,
               Watcher!ReturnEvent, TypeInv, TypeOK, Watcher!TypeOK
  <1>3. ASSUME NEW u \in Threads, u # t PROVE Kept(u)
        BY <1>1, <1>2, <1>3 DEF Kept
  <1>4. Awake(t)'
    <2> USE DEF Awake, Waiting, Polls, TypeInv, TypeOK, Watcher!TypeOK
    <2>1. CASE running[t] = "ainit" /\ Watcher!InitPrivate(t)
          BY <1>1, <2>1 DEF Watcher!InitPrivate
    <2>2. CASE running[t] = "acheck" /\ Watcher!EnterEpoll(t)
      <3>1. /\ at'[t] \in {"poll", "block", "late"}
            /\ at'[t] = "block" => at[t] = "out" /\ ~nowait[t]
            BY <2>2 DEF Watcher!EnterEpoll, Watcher!Waits
      <3>2. at'[t] = "block" => ~(taskCount[t] > 0)
            BY <1>1, <2>2, <3>1 DEF AwakeInv
      <3> QED BY <1>1, <2>2, <3>1, <3>2
    <2>3. CASE /\ running[t] = "acheck"
               /\ \/ Watcher!Return(t) \/ Watcher!ClearActive(t)
                  \/ Watcher!DrainPipe(t) \/ Watcher!ReturnEvent(t)
          BY <1>1, <2>3 DEF Watcher!Return, Watcher!ClearActive,
                            Watcher!DrainPipe, Watcher!ReturnEvent
    <2> QED BY <2>1, <2>2, <2>3 DEF Poll, Event
  <1> QED BY <1>1, <1>3, <1>4, OthersAwake

-----------------------------------------------------------------------------
(* main *)

(* So does a post of main. *)
LEMMA BootPostAwake ==
  ASSUME SafeInv, AwakeInv, BootPost
  PROVE  AwakeInv'
  <1> USE DEF SafeInv
  <1>1. /\ Main \in Actors /\ Main \notin Threads
        /\ UNCHANGED <<running, taskCount, wakeVars>>
        /\ \A b \in Actors : b # Main => /\ pc'[b] = pc[b]
                                         /\ posting'[b] = posting[b]
        BY Names DEF BootPost, BeginPost, countVars, TypeInv, TypeOK, ControlOK
  <1> QED BY <1>1, QuietAwake

(* task_go: nobody waits yet.                                              *)
LEMMA TaskGoAwake ==
  ASSUME SafeInv, AwakeInv, TaskGo
  PROVE  AwakeInv'
  <1> SUFFICES ASSUME NEW t \in Threads PROVE Awake(t)'
      BY DEF AwakeInv
  <1>1. ~Waiting(t)
        BY DEF TaskGo, SafeInv, FlowInv, Starting, AwakeInv, Awake, Polls
  <1>2. pc'[t] = "loop" /\ at' = at
        BY Names DEF TaskGo, wakeVars
  <1> QED BY <1>1, <1>2 DEF Awake, Waiting, Polls

-----------------------------------------------------------------------------
(* Every step keeps a worker with tasks from waiting.                      *)
LEMMA AwakeStep == SafeInv /\ AwakeInv /\ [Next]_vars => AwakeInv'
  <1> SUFFICES ASSUME SafeInv, AwakeInv, [Next]_vars PROVE AwakeInv'
      OBVIOUS
  <1>1. CASE UNCHANGED vars
        BY <1>1 DEF AwakeInv, Awake, Waiting, Polls, vars, postVars, countVars,
                    wakeVars
  <1>2. ASSUME NEW a \in Actors, PostSteps(a) PROVE AwakeInv'
        BY <1>2, ReadAwake, RegisterTaskAwake, NotifyAwake DEF PostSteps
  <1>3. ASSUME NEW t \in Threads, NEW c \in Callbacks, Post(t, c)
        PROVE  AwakeInv'
        BY <1>3, PostAwake
  <1>4. ASSUME NEW t \in Threads, LoopSteps(t) \/ StealSteps(t)
        PROVE  AwakeInv'
        BY <1>4, NextTaskAwake, LoopAwake DEF LoopSteps
  <1>5. ASSUME NEW t \in Threads, PollSteps(t) \/ Event(t) PROVE AwakeInv'
        BY <1>5, PollAwake, RepostAwake DEF PollSteps
  <1>6. CASE BootPost \/ TaskGo
        BY <1>6, BootPostAwake, TaskGoAwake
  <1> QED BY <1>1, <1>2, <1>3, <1>4, <1>5, <1>6 DEF Next

(* The invariant of the waits.                                             *)
LEMMA AwakeInvariant == ASSUME ColorsFit PROVE Spec => []AwakeInv
  <1>1. Init => AwakeInv
        BY Names DEF Init, Watcher!Init, AwakeInv, Awake, Waiting, Polls
  <1> QED BY <1>1, SafeInvariant, AwakeStep, PTL DEF Spec

(* A byte in a pipe, and the duty to write one, last until epoll_wait      *)
(* returns.                                                                *)
LEMMA WakeupLasts ==
  ASSUME TypeInv, [Watcher!Next]_(Watcher!vars), NEW t \in Threads,
         Woken(t), at[t] \notin {"returned", "cleared"}
  PROVE  Woken(t)'
  <1> USE DEF Woken, Watcher!Announced, TypeInv, TypeOK, Watcher!TypeOK
  <1>1. CASE UNCHANGED Watcher!vars
        BY <1>1 DEF Watcher!vars
  <1>2. ASSUME NEW w \in Threads,
               \/ Watcher!Watch(w) \/ Watcher!ReturnEvent(w)
               \/ Watcher!TimerDue(w)
        PROVE  Woken(t)'
    <2>1. CASE Watcher!DrainPipe(w)
          BY <2>1 DEF Watcher!DrainPipe
    <2>2. CASE ~Watcher!DrainPipe(w)
          BY <1>2, <2>2
          DEF Watcher!Watch, Watcher!InitPrivate, Watcher!EnterEpoll,
              Watcher!Return, Watcher!ClearActive, Watcher!Leave,
              Watcher!ReturnEvent, Watcher!TimerDue
    <2> QED BY <2>1, <2>2
  <1>3. ASSUME NEW k \in Actors, NEW w \in Threads,
               Watcher!Signal(k, w) \/ Watcher!Write(k, w)
        PROVE  Woken(t)'
        BY <1>3 DEF Watcher!Signal, Watcher!Write
  <1> QED BY <1>1, <1>2, <1>3 DEF Watcher!Next

(* What changes a task count. *)
LEMMA CountSteps ==
  ASSUME Next, taskCount' # taskCount
  PROVE  \/ \E a \in Actors : RegisterTask(a)
         \/ \E t \in Threads : StealColor(t) \/ InsertStolen(t) \/ NextTask(t)
  BY DEF Next, PostSteps, ReadOwner, RetryPost, Notify, Post, LoopSteps,
         BeginSteal, EndCallback, StealSteps, CheckVictim, LockVictim,
         LeaveVictim, Relock, PollSteps, Poll, Repost, Event, BootPost,
         TaskGo, countVars

(* A worker goes to sleep by choosing its timeout. *)
LEMMA FallsAsleep ==
  ASSUME TypeInv, Next, NEW t \in Threads, at'[t] = "late", at[t] # "late"
  PROVE  taskCount' = taskCount /\ at[t] \in {"out", "due"}
  <1> USE DEF TypeInv, TypeOK, Watcher!TypeOK
  <1>1. ASSUME NEW a \in Actors, PostSteps(a) PROVE at' = at
        BY <1>1 DEF PostSteps, ReadOwner, RetryPost, RegisterTask, Notify,
                    Watcher!Signal, Watcher!Write, wakeVars
  <1>2. ASSUME NEW u \in Threads, NEW c \in Callbacks, Post(u, c)
        PROVE  at'[t] = at[t] \/ at'[t] = "due"
        BY <1>2 DEF Post, Watcher!TimerDue, wakeVars
  <1>3. ASSUME NEW u \in Threads, LoopSteps(u) \/ StealSteps(u)
        PROVE  at' = at
    <2>1. CASE NextTask(u)
          BY <2>1 DEF NextTask, Run, Watcher!Signal, wakeVars
    <2>2. CASE ~NextTask(u)
          BY <1>3, <2>2
          DEF LoopSteps, BeginSteal, EndCallback, StealSteps, CheckVictim,
              LockVictim, StealColor, LeaveVictim, Relock, InsertStolen,
              wakeVars
    <2> QED BY <2>1, <2>2
  <1>4. ASSUME NEW u \in Threads, Poll(u)
        PROVE  /\ taskCount' = taskCount
               /\ \/ at'[t] = at[t] \/ at'[t] # "late"
                  \/ at[t] \in {"out", "due"}
        BY <1>4 DEF Poll, countVars, Watcher!InitPrivate, Watcher!EnterEpoll,
                    Watcher!Return, Watcher!ClearActive, Watcher!DrainPipe
  <1>5. ASSUME NEW u \in Threads, Repost(u) \/ Event(u)
        PROVE  at'[t] = at[t] \/ at'[t] \in {"out", "returned"}
        BY <1>5 DEF Repost, Event, Watcher!Leave, Watcher!ReturnEvent
  <1>6. CASE BootPost \/ TaskGo
        BY <1>6 DEF BootPost, TaskGo, wakeVars
  <1> QED BY <1>1, <1>2, <1>3, <1>4, <1>5, <1>6 DEF Next, PollSteps

(* While a worker sleeps, its tasks come from others, who ask it not to    *)
(* wait.                                                                   *)
LEMMA WokenByOthers ==
  ASSUME SafeInv, AwakeInv, Next, NEW t \in Threads, Asleep(t)
  PROVE  taskCount'[t] <= taskCount[t] \/ nowait'[t]
  <1> USE DEF SafeInv
  <1>1. Polls(t) /\ at[t] \in {"block", "late"} /\ t \in Actors
        BY Names DEF AwakeInv, Awake, Waiting, Asleep, Watcher!Asleep
  <1>2. taskCount \in [Threads -> Int]
        BY DEF TypeInv, TypeOK, CountsOK
  <1>3. CASE taskCount' = taskCount
        BY <1>2, <1>3
  <1>4. ASSUME NEW a \in Actors, RegisterTask(a)
        PROVE  taskCount'[t] = taskCount[t] \/ nowait'[t]
        BY <1>1, <1>4, RegisterTaskAsks DEF Polls
  <1>5. ASSUME NEW u \in Threads, StealColor(u)
        PROVE  taskCount'[t] <= taskCount[t]
        BY <1>5, StealTakes
  <1>6. ASSUME NEW u \in Threads, InsertStolen(u) \/ NextTask(u)
        PROVE  taskCount'[t] = taskCount[t]
    <2>1. u # t
          BY <1>1, <1>6 DEF InsertStolen, NextTask, Polls
    <2>2. CASE InsertStolen(u)
          BY <1>2, <2>1, <2>2 DEF InsertStolen
    <2>3. CASE NextTask(u)
      <3>1. PICK l : Run(u, l)
            BY <2>3, NextTaskRuns
      <3> QED BY <1>2, <2>1, <3>1 DEF Run
    <2> QED BY <1>6, <2>2, <2>3
  <1> QED BY <1>2, <1>3, <1>4, <1>5, <1>6, CountSteps

(* Work that a worker had before it polled, or that another one gives it,  *)
(* does not wait for it in epoll_wait, however its announcement, the posts *)
(* of the others and the steals interleave: what it had before the wait it *)
(* was asked to poll for, and who posts later writes in its pipe           *)
(* (task.lbc.C:168 and 1026).  Only what it queued for itself when a timer *)
(* expired may, when the timeout came out wrong (core.C:176).              *)
THEOREM NobodySleepsOnWork ==
  ASSUME ColorsFit PROVE Spec => NeverSleepsOnWork
  <1> DEFINE Step(t) ==
               Asleep(t)' /\ taskCount'[t] > 0 =>
                 \/ Woken(t)'
                 \/ at'[t] = "late" /\ taskCount'[t] <= taskCount[t] /\ ~Woken(t)
  <1>1. ASSUME SafeInv, AwakeInv, AwakeInv', Watcher!NoLostWakeup', Next,
               NEW t \in Threads
        PROVE  Step(t)
    <2> SUFFICES ASSUME Asleep(t)', taskCount'[t] > 0, ~Woken(t)'
                 PROVE  /\ at'[t] = "late" /\ taskCount'[t] <= taskCount[t]
                        /\ ~Woken(t)
        OBVIOUS
    <2>1. ~nowait'[t]
          BY <1>1 DEF Watcher!NoLostWakeup, Woken, Asleep, Watcher!Asleep,
                 Watcher!Announced
    <2>2. at'[t] = "late"
          BY <1>1, <2>1
          DEF AwakeInv, Awake, Waiting, Polls, Asleep, Watcher!Asleep
    <2>3. /\ taskCount'[t] <= taskCount[t]
          /\ at[t] \notin {"returned", "cleared"}
      <3>1. CASE Asleep(t)
            BY <1>1, <2>1, <3>1, WokenByOthers DEF Asleep, Watcher!Asleep
      <3>2. CASE ~Asleep(t)
            BY <1>1, <2>2, <3>2, FallsAsleep
            DEF Asleep, Watcher!Asleep, SafeInv, TypeInv, TypeOK, CountsOK
      <3> QED BY <3>1, <3>2
    <2>4. ~Woken(t)
          BY <1>1, <2>3, WakeupStep, WakeupLasts DEF SafeInv
    <2> QED BY <2>2, <2>3, <2>4
  <1>2. SafeInv /\ AwakeInv /\ AwakeInv' /\ Watcher!NoLostWakeup' /\ [Next]_vars
          => [\A t \in Threads : Step(t)]_vars
        BY <1>1
  <1> QED BY <1>2, SafeInvariant, AwakeInvariant, WakeupsKept, PTL
          DEF Spec, NeverSleepsOnWork
-----------------------------------------------------------------------------
(* Each worker has its polling task once.                                  *)

Once(s) == \A i, j \in 1 .. Len(s) : s[i] = "acheck" /\ s[j] = "acheck" => i = j

(* Polling tasks wait at the tail of their own list, alone of their kind.  *)
Apart ==
  /\ \A l \in Lists : "acheck" \notin ToSet(headSeg[l])
  /\ \A l \in Lists : l >= 0 => "acheck" \notin ToSet(tailSeg[l])
  /\ \A t \in Threads : Once(tailSeg[NegList(t)])

PostsPolling(a, t) ==
  /\ pc[a] \in {"read", "post", "notify"}
  /\ posting[a].cb = "acheck" /\ posting[a].color = NegList(t)

(* A worker posts its polling task while it runs it.                       *)
Reposts == \A t \in Threads : PostsPolling(t, t) => running[t] = "acheck"

(* The number amain gives to the post of the polling task of t.            *)
BootNumber(t) == Len(BootProgram) + 2 * (t + 1)

(* Before task_go amain posts one for each thread, and after it the task   *)
(* is queued exactly when it does not run.                                 *)
OneEach ==
  IF pc[Main] = "join"
  THEN \A t \in Threads : PollingQueued(t) <=> running[t] # "acheck"
  ELSE \A t \in Threads :
         /\ running[t] # "acheck"
         /\ PollingQueued(t) => booted >= BootNumber(t)
         /\ PostsPolling(Main, t) => booted = BootNumber(t) /\ ~PollingQueued(t)

OnceInv == Apart /\ Reposts /\ OneEach

(* A step that queues nothing, runs nothing and starts no post.            *)
LEMMA OnceKept ==
  ASSUME OnceInv, UNCHANGED <<headSeg, tailSeg, booted>>,
         \A t \in Threads : running'[t] = "acheck" <=> running[t] = "acheck",
         pc'[Main] = "join" <=> pc[Main] = "join",
         \A t \in Threads : PostsPolling(t, t)' => PostsPolling(t, t)
                                                  \/ running[t] = "acheck",
         \A t \in Threads : PostsPolling(Main, t)' => PostsPolling(Main, t)
  PROVE  OnceInv'
  <1>1. \A t \in Threads : PollingQueued(t)' <=> PollingQueued(t)
        BY DEF PollingQueued
  <1>2. Apart'
        BY DEF OnceInv, Apart
  <1>3. Reposts'
        BY DEF OnceInv, Reposts
  <1>4. OneEach'
        BY <1>1 DEF OnceInv, OneEach
  <1> QED BY <1>2, <1>3, <1>4 DEF OnceInv

(* Steps between the states of register_task.                              *)
LEMMA ReadOnce ==
  ASSUME SafeInv, OnceInv, NEW a \in Actors, ReadOwner(a) \/ RetryPost(a)
  PROVE  OnceInv'
  <1>1. /\ pc[a] \in {"read", "post"} /\ pc'[a] \in {"read", "post"}
        /\ \A b \in Actors : b # a => pc'[b] = pc[b]
        /\ UNCHANGED <<running, posting, headSeg, tailSeg, booted>>
        BY DEF ReadOwner, RetryPost, listVars, bootVars, SafeInv, TypeInv,
               TypeOK, ControlOK
  <1>2. \A b \in Actors, t \in Threads :
          PostsPolling(b, t)' => PostsPolling(b, t)
        BY <1>1 DEF PostsPolling
  <1> QED BY <1>1, <1>2, OnceKept, Names

(* A post starts: only a worker that runs its polling task posts it.       *)
LEMMA PostOnce ==
  ASSUME SafeInv, OnceInv, NEW t \in Threads,
         Repost(t) \/ \E c \in Callbacks : Post(t, c)
  PROVE  OnceInv'
  <1>1. /\ UNCHANGED <<running, headSeg, tailSeg, booted>>
        /\ \A b \in Actors : b # t => pc'[b] = pc[b] /\ posting'[b] = posting[b]
        BY DEF Repost, Post, BeginPost, listVars, bootVars, SafeInv, TypeInv,
               TypeOK, ControlOK
  <1>2. posting'[t].cb = "acheck" => running[t] = "acheck"
    <2>1. CASE Repost(t)
          BY <2>1 DEF Repost
    <2>2. ASSUME NEW c \in Callbacks, Post(t, c)
          PROVE  posting'[t].cb # "acheck"
      <3>1. t \in Actors /\ posting' = [posting EXCEPT ![t] = Posted(c)]
            BY <2>2, Names DEF Post, BeginPost
      <3>2. posting'[t].cb = c
            BY <3>1 DEF SafeInv, TypeInv, TypeOK, ControlOK, Posted
      <3> QED BY <3>2, SchedulerAssumption DEF SchedulerAssumption
    <2> QED BY <2>1, <2>2
  <1>3. \A u \in Threads : PostsPolling(u, u)' => PostsPolling(u, u)
                                                  \/ running[u] = "acheck"
        BY <1>1, <1>2, Names DEF PostsPolling
  <1>4. /\ \A u \in Threads : PostsPolling(Main, u)' => PostsPolling(Main, u)
        /\ pc'[Main] = pc[Main]
        BY <1>1, Names DEF PostsPolling
  <1> QED BY <1>1, <1>3, <1>4, OnceKept

(* register_task queues what it was called with.                           *)
LEMMA RegisterTaskOnce ==
  ASSUME SafeInv, OnceInv, NEW a \in Actors, RegisterTask(a)
  PROVE  OnceInv'
  <1> USE DEF SafeInv
  <1>0. PICK d, l, p : /\ d = dest[a] /\ p = posting[a]
                       /\ l = ListOf(p.color, d)
        OBVIOUS
  <1>1. /\ d \in Threads /\ l \in Lists /\ pc[a] = "post"
        /\ headSeg[l] \in Seq(Tasks) /\ tailSeg[l] \in Seq(Tasks)
        /\ p.cb \in Tasks /\ p.color \in Int
        BY <1>0, RegisterHome
        DEF RegisterTask, TypeInv, PostOK, TypeOK, ListsOK, ControlOK, Posts
  <1>2. /\ \A x \in Lists : x # l => /\ headSeg'[x] = headSeg[x]
                                     /\ tailSeg'[x] = tailSeg[x]
        /\ \/ /\ p.last /\ tailSeg'[l] = Append(tailSeg[l], p.cb)
              /\ headSeg'[l] = headSeg[l]
           \/ /\ ~p.last /\ headSeg'[l] = Append(headSeg[l], p.cb)
              /\ tailSeg'[l] = tailSeg[l]
        BY <1>0, RegisteredLists
  <1>3. /\ \A b \in Actors : b # a => /\ pc'[b] = pc[b]
                                      /\ posting'[b] = posting[b]
        /\ \A t \in Threads : t # a => running'[t] = running[t]
        /\ booted' = booted
        BY RegisteredControl
  <1>4. /\ pc'[a] = "run" /\ (a # Main => p.cb # "acheck")
           /\ running' = running
        \/ /\ pc'[a] = "notify" /\ p.cb # "acheck" /\ running' = running
           /\ posting'[a] = posting[a]
        \/ /\ pc'[a] = "loop" /\ a # Main /\ p.cb = "acheck"
        BY <1>0, RegisteredControl
  <1>5. CASE p.cb # "acheck"
    <2>1. /\ \A s \in Seq(Tasks) :
               "acheck" \in ToSet(Append(s, p.cb)) <=> "acheck" \in ToSet(s)
          /\ \A s \in Seq(Tasks) : Once(s) => Once(Append(s, p.cb))
      <3> SUFFICES ASSUME NEW s \in Seq(Tasks)
                   PROVE  /\ "acheck" \in ToSet(Append(s, p.cb))
                               <=> "acheck" \in ToSet(s)
                          /\ Once(s) => Once(Append(s, p.cb))
          OBVIOUS
      <3>1. ToSet(Append(s, p.cb)) = ToSet(s) \cup {p.cb}
            BY <1>1, AppendedElements
      <3>2. /\ Len(Append(s, p.cb)) = Len(s) + 1 /\ Len(s) \in Nat
            /\ \A i \in 1 .. Len(s) : Append(s, p.cb)[i] = s[i]
            /\ Append(s, p.cb)[Len(s) + 1] = p.cb
            BY <1>1, AppendProperties, ElementsOf
      <3>3. Once(s) => Once(Append(s, p.cb))
            BY <1>5, <3>2 DEF Once
      <3> QED BY <1>5, <3>1, <3>3
    <2>2. \A x \in Lists :
            /\ "acheck" \in ToSet(headSeg'[x])
                 <=> "acheck" \in ToSet(headSeg[x])
            /\ "acheck" \in ToSet(tailSeg'[x])
                 <=> "acheck" \in ToSet(tailSeg[x])
            /\ Once(tailSeg[x]) => Once(tailSeg'[x])
          BY <1>1, <1>2, <2>1
    <2>3. \A t \in Threads : PollingQueued(t)' <=> PollingQueued(t)
          BY <2>2, Names DEF PollingQueued
    <2>4. Apart'
          BY <2>2, Names DEF OnceInv, Apart, Once
    <2>5. UNCHANGED running
          BY <1>4, <1>5
    <2>6. \A b \in Actors, t \in Threads :
            PostsPolling(b, t)' => PostsPolling(b, t)
          BY <1>0, <1>1, <1>3, <1>4, <1>5 DEF PostsPolling
    <2>7. Reposts'
          BY <2>5, <2>6, Names DEF OnceInv, Reposts
    <2>8. pc'[Main] = "join" <=> pc[Main] = "join"
          BY <1>1, <1>3, <1>4, <1>5, Names
    <2>9. OneEach'
          BY <1>3, <2>3, <2>5, <2>6, <2>8, Names DEF OnceInv, OneEach
    <2> QED BY <2>4, <2>7, <2>9 DEF OnceInv
  <1>6. CASE p.cb = "acheck"
    <2>1. /\ p.last /\ p.color < 0 /\ p.color = NegList(d)
          /\ a # Main => p.color = NegList(a)
          BY <1>0, <1>1, <1>6 DEF FlowInv, Posting, GoesHome
    <2>2. l = NegList(d)
          BY <1>0, <1>1, <2>1, ListOfColor
    <2>3. a # Main => a = d
          BY <1>1, <2>1, Names
    <2>4. PostsPolling(a, d)
          BY <1>0, <1>1, <1>6, <2>1 DEF PostsPolling
    <2>5. ~PollingQueued(d) /\ (a # Main => running[d] = "acheck")
      <3>1. CASE a = Main
        <4>1. pc[Main] # "join"
              BY <1>1, <3>1
        <4> QED BY <1>1, <2>4, <3>1, <4>1 DEF OnceInv, OneEach
      <3>2. CASE a # Main
        <4>1. a = d /\ running[d] = "acheck"
              BY <1>1, <2>3, <2>4, <3>2 DEF OnceInv, Reposts
        <4>2. pc[Main] = "join"
              BY <1>1, <4>1, Joined
        <4> QED BY <1>1, <4>1, <4>2 DEF OnceInv, OneEach
      <3> QED BY <3>1, <3>2
    <2>6. /\ tailSeg'[l] = Append(tailSeg[l], "acheck")
          /\ headSeg'[l] = headSeg[l]
          BY <1>2, <1>6, <2>1
    <2>7. Once(tailSeg'[l])
      <3>1. /\ Len(tailSeg'[l]) = Len(tailSeg[l]) + 1 /\ Len(tailSeg[l]) \in Nat
            /\ \A i \in 1 .. Len(tailSeg[l]) : tailSeg'[l][i] = tailSeg[l][i]
            BY <1>1, <1>6, <2>6, AppendProperties, ElementsOf
      <3>2. \A i \in 1 .. Len(tailSeg[l]) : tailSeg[l][i] # "acheck"
            BY <1>1, <2>2, <2>5, ElementsOf DEF PollingQueued
      <3> QED BY <3>1, <3>2 DEF Once
    <2>8. PollingQueued(d)'
      <3>1. "acheck" \in ToSet(Append(tailSeg[l], "acheck"))
            BY <1>1, <1>6, AppendedElements
      <3> QED BY <2>2, <2>6, <3>1 DEF PollingQueued
    <2>9. \A t \in Threads : t # d => (PollingQueued(t)' <=> PollingQueued(t))
      <3> SUFFICES ASSUME NEW t \in Threads, t # d
                   PROVE  PollingQueued(t)' <=> PollingQueued(t)
          OBVIOUS
      <3>1. NegList(t) \in Lists /\ NegList(t) # l
            BY <1>1, <2>2, Names
      <3> QED BY <1>2, <3>1 DEF PollingQueued
    <2>10. Apart'
      <3>1. \A x \in Lists : "acheck" \notin ToSet(headSeg'[x])
            BY <1>2, <2>6 DEF OnceInv, Apart
      <3>2. \A x \in Lists : x >= 0 => x # l
            BY <1>1, <2>2, Names
      <3>3. \A x \in Lists : x >= 0 => "acheck" \notin ToSet(tailSeg'[x])
            BY <1>2, <3>2 DEF OnceInv, Apart
      <3>4. ASSUME NEW t \in Threads PROVE Once(tailSeg'[NegList(t)])
        <4>1. CASE t = d
              BY <2>2, <2>7, <4>1
        <4>2. CASE t # d
          <5>1. NegList(t) \in Lists /\ NegList(t) # l
                BY <1>1, <2>2, <4>2, Names
          <5> QED BY <1>2, <5>1 DEF OnceInv, Apart
        <4> QED BY <4>1, <4>2
      <3>5. \A t \in Threads : Once(tailSeg[NegList(t)])'
            BY <3>4 DEF Once
      <3> QED BY <3>1, <3>3, <3>5 DEF Apart
    <2>11. ASSUME NEW b \in Actors, NEW t \in Threads, PostsPolling(b, t)'
           PROVE  PostsPolling(b, t) /\ b # a
      <3>1. b # a
            BY <1>4, <1>6, <2>11 DEF PostsPolling
      <3> QED BY <1>3, <2>11, <3>1 DEF PostsPolling
    <2>12. Reposts'
          BY <1>3, <2>11, Names DEF OnceInv, Reposts
    <2>13. CASE a = Main
      <3>1. pc'[Main] = "run" /\ running' = running /\ pc[Main] = "post"
            BY <1>1, <1>4, <1>6, <2>13
      <3>2. \A t \in Threads : ~PostsPolling(Main, t)'
            BY <3>1 DEF PostsPolling
      <3>3. booted = BootNumber(d)
            BY <1>1, <2>4, <2>13, <3>1 DEF OnceInv, OneEach
      <3>4. booted \in Int
            BY SchedulerAssumption, ElementsOf
            DEF TypeInv, TypeOK, ControlOK
      <3>5. \A t \in Threads : PollingQueued(t)' => booted >= BootNumber(t)
            BY <2>9, <3>1, <3>3, <3>4 DEF OnceInv, OneEach
      <3>6. OneEach'
            BY <1>3, <3>1, <3>2, <3>5 DEF OnceInv, OneEach, BootNumber
      <3> QED BY <2>10, <2>12, <3>6 DEF OnceInv
    <2>14. CASE a # Main
      <3>1. a = d /\ pc[Main] = "join" /\ pc'[Main] = "join"
            BY <1>1, <1>3, <2>3, <2>14, Joined, Names
      <3>2. running'[a] # "acheck"
        <4>1. writes' = writes
          <5>1. ~Wakes(a, posting[a])
                BY <1>0, <1>6 DEF Wakes
          <5> QED BY <5>1 DEF RegisterTask, wakeVars
        <4>2. running' = [running EXCEPT ![a] = "none"]
              BY <1>0, <1>6, <2>14, <4>1 DEF RegisterTask, EndPost
        <4> QED BY <1>1, <3>1, <4>2 DEF TypeInv, TypeOK, ControlOK
      <3>3. OneEach'
            BY <1>3, <2>8, <2>9, <3>1, <3>2 DEF OnceInv, OneEach
      <3> QED BY <2>10, <2>12, <3>3 DEF OnceInv
    <2> QED BY <2>13, <2>14
  <1> QED BY <1>5, <1>6

(* The end of a post, whose callback is in its list.                       *)
LEMMA NotifyOnce ==
  ASSUME SafeInv, OnceInv, NEW a \in Actors, Notify(a)
  PROVE  OnceInv'
  <1> USE DEF SafeInv
  <1>1. /\ pc[a] = "notify" /\ EndPost(a)
        /\ UNCHANGED <<headSeg, tailSeg, booted>>
        BY DEF Notify, listVars, bootVars
  <1>2. posting[a].cb # "acheck"
        BY <1>1 DEF FlowInv, Posting, GoesHome
  <1>3. /\ pc'[a] = "run" /\ running' = running
        /\ \A b \in Actors : b # a => pc'[b] = pc[b] /\ posting'[b] = posting[b]
        BY <1>1, <1>2 DEF EndPost, TypeInv, TypeOK, ControlOK
  <1>4. \A b \in Actors, t \in Threads :
          PostsPolling(b, t)' => PostsPolling(b, t)
        BY <1>3 DEF PostsPolling
  <1>5. pc'[Main] = "join" <=> pc[Main] = "join"
        BY <1>1, <1>3, Names
  <1> QED BY <1>1, <1>3, <1>4, <1>5, OnceKept, Names

(* A polling task leaves its list when it begins to run.                   *)
LEMMA NextTaskOnce ==
  ASSUME SafeInv, OnceInv, NEW t \in Threads, NextTask(t)
  PROVE  OnceInv'
  <1> USE DEF SafeInv
  <1>0. PICK l : l = Head(Retired(t).list)
        OBVIOUS
  <1>1. /\ InLoop(t) /\ PollingQueued(t) /\ l \in Lists
        /\ l \in ToSet(colorList[t]) /\ NbCallbacks(l) > 0
        /\ Run(t, l) /\ pc' = [pc EXCEPT ![t] = "run"] /\ t \in Actors
        BY <1>0, NextTaskRuns, Names
  <1>2. /\ pc'[t] = "run" /\ \A b \in Actors : b # t => pc'[b] = pc[b]
        /\ UNCHANGED <<posting, booted>>
        BY <1>1 DEF NextTask, postVars, bootVars, TypeInv, TypeOK, ControlOK
  <1>3. pc[Main] = "join" /\ pc'[Main] = "join"
        BY <1>1, <1>2, Joined, Names DEF InLoop
  <1>4. /\ running'[t] = First(l) /\ running[t] # "acheck"
        /\ \A u \in Threads : u # t => running'[u] = running[u]
        BY <1>1, <1>3 DEF Run, OnceInv, OneEach, TypeInv, TypeOK, ControlOK
  <1>5. /\ headSeg[l] \in Seq(Tasks) /\ tailSeg[l] \in Seq(Tasks)
        /\ headSeg[l] # <<>> \/ tailSeg[l] # <<>>
        BY <1>1, NbCallbacksType DEF TypeInv, TypeOK
  <1>6. \A x \in Lists : x # l => /\ headSeg'[x] = headSeg[x]
                                  /\ tailSeg'[x] = tailSeg[x]
        BY <1>1, RunLists DEF TypeInv, TypeOK
  <1>7. Reposts'
        BY <1>2, <1>4, Names DEF OnceInv, Reposts, PostsPolling
  <1>8. CASE headSeg[l] # <<>>
    <2>1. tailSeg' = tailSeg /\ headSeg'[l] = Tail(headSeg[l])
          BY <1>1, <1>8 DEF Run, TypeInv, TypeOK, ListsOK
    <2>2. First(l) # "acheck"
          BY <1>1, <1>5, <1>8, HeadOf DEF First, OnceInv, Apart
    <2>3. \A x \in Lists : "acheck" \notin ToSet(headSeg'[x])
          BY <1>1, <1>5, <1>6, <1>8, <2>1, TailElements DEF OnceInv, Apart
    <2>4. Apart'
          BY <2>1, <2>3 DEF OnceInv, Apart, Once
    <2>5. \A u \in Threads : PollingQueued(u)' <=> PollingQueued(u)
          BY <2>1 DEF PollingQueued
    <2>6. OneEach'
          BY <1>1, <1>3, <1>4, <2>2, <2>5 DEF OnceInv, OneEach
    <2> QED BY <1>7, <2>4, <2>6 DEF OnceInv
  <1>9. CASE headSeg[l] = <<>>
    <2>1. /\ tailSeg[l] # <<>> /\ headSeg' = headSeg
          /\ tailSeg'[l] = Tail(tailSeg[l]) /\ First(l) = Head(tailSeg[l])
          BY <1>1, <1>5, <1>9 DEF Run, First, TypeInv, TypeOK, ListsOK
    <2>2. /\ Len(tailSeg'[l]) = Len(tailSeg[l]) - 1 /\ Len(tailSeg[l]) \in Nat
          /\ tailSeg'[l] \in Seq(Tasks)
          /\ \A i \in 1 .. Len(tailSeg[l]) - 1 :
               tailSeg'[l][i] = tailSeg[l][i + 1]
          BY <1>5, <2>1, HeadTailProperties, ElementsOf
    <2>3. Once(tailSeg[l]) =>
            /\ Once(tailSeg'[l])
            /\ First(l) = "acheck" => "acheck" \notin ToSet(tailSeg'[l])
      <3> SUFFICES ASSUME Once(tailSeg[l])
                   PROVE  /\ Once(tailSeg'[l])
                          /\ First(l) = "acheck"
                               => "acheck" \notin ToSet(tailSeg'[l])
          OBVIOUS
      <3>1. \A i \in 1 .. Len(tailSeg[l]) - 1 : i + 1 \in 1 .. Len(tailSeg[l])
            BY <2>2
      <3>2. Once(tailSeg'[l])
        <4> SUFFICES ASSUME NEW i \in 1 .. Len(tailSeg'[l]),
                            NEW j \in 1 .. Len(tailSeg'[l]),
                            tailSeg'[l][i] = "acheck", tailSeg'[l][j] = "acheck"
                     PROVE  i = j
            BY DEF Once
        <4>1. /\ i \in 1 .. Len(tailSeg[l]) - 1
              /\ j \in 1 .. Len(tailSeg[l]) - 1
              /\ i \in Int /\ j \in Int
              BY <2>2
        <4>2. /\ i + 1 \in 1 .. Len(tailSeg[l]) /\ tailSeg[l][i + 1] = "acheck"
              /\ j + 1 \in 1 .. Len(tailSeg[l]) /\ tailSeg[l][j + 1] = "acheck"
              BY <2>2, <3>1, <4>1
        <4>3. i + 1 = j + 1
              BY <4>2 DEF Once
        <4> QED BY <4>1, <4>3
      <3>3. ASSUME First(l) = "acheck"
            PROVE  \A i \in 1 .. Len(tailSeg'[l]) : tailSeg'[l][i] # "acheck"
        <4>1. 1 \in 1 .. Len(tailSeg[l]) /\ tailSeg[l][1] = "acheck"
              BY <1>5, <2>1, <3>3, HeadOf
        <4> SUFFICES ASSUME NEW i \in 1 .. Len(tailSeg'[l]),
                            tailSeg'[l][i] = "acheck"
                     PROVE  FALSE
            OBVIOUS
        <4>2. i + 1 \in 1 .. Len(tailSeg[l]) /\ tailSeg[l][i + 1] = "acheck"
              /\ i + 1 # 1
              BY <2>2
        <4> QED BY <4>1, <4>2 DEF Once
      <3> QED BY <2>2, <3>2, <3>3, ElementsOf
    <2>4. ToSet(tailSeg'[l]) \subseteq ToSet(tailSeg[l])
          /\ \A x \in ToSet(tailSeg[l]) :
               x # First(l) => x \in ToSet(tailSeg'[l])
          BY <1>5, <2>1, TailElements
    <2>5. First(l) = "acheck" => l = NegList(t)
      <3> SUFFICES ASSUME First(l) = "acheck" PROVE l = NegList(t)
          OBVIOUS
      <3>1. "acheck" \in ToSet(tailSeg[l])
            BY <1>5, <2>1, HeadOf
      <3>2. l < 0
            BY <1>1, <3>1, Names DEF OnceInv, Apart
      <3>3. HomeOf(l, t)
            BY <1>1 DEF ListInv, AtHome
      <3> QED BY <3>2, <3>3 DEF HomeOf
    <2>6. Apart'
      <3>1. \A x \in Lists : x >= 0 => "acheck" \notin ToSet(tailSeg'[x])
            BY <1>6, <2>4 DEF OnceInv, Apart
      <3>2. \A u \in Threads : Once(tailSeg[NegList(u)])'
            BY <1>6, <2>3, Names DEF OnceInv, Apart, Once
      <3> QED BY <2>1, <3>1, <3>2 DEF OnceInv, Apart
    <2>7. \A u \in Threads : u # t => (PollingQueued(u)' <=> PollingQueued(u))
      <3> SUFFICES ASSUME NEW u \in Threads, u # t
                   PROVE  PollingQueued(u)' <=> PollingQueued(u)
          OBVIOUS
      <3>1. NegList(u) \in Lists /\ NegList(u) < 0 /\ NegList(u) # NegList(t)
            BY Names
      <3>2. CASE NegList(u) # l
            BY <1>6, <3>1, <3>2 DEF PollingQueued
      <3>3. CASE NegList(u) = l
        <4>1. First(l) # "acheck"
              BY <2>5, <3>1, <3>3
        <4> QED BY <2>4, <3>3, <4>1 DEF PollingQueued
      <3> QED BY <3>2, <3>3
    <2>8. PollingQueued(t)' <=> First(l) # "acheck"
      <3>1. CASE First(l) = "acheck"
        <4>1. l = NegList(t) /\ Once(tailSeg[l])
              BY <2>5, <3>1 DEF OnceInv, Apart
        <4>2. "acheck" \notin ToSet(tailSeg'[l])
              BY <2>3, <3>1, <4>1
        <4> QED BY <3>1, <4>1, <4>2 DEF PollingQueued
      <3>2. CASE First(l) # "acheck"
        <4>1. CASE l = NegList(t)
              BY <1>1, <2>4, <3>2, <4>1 DEF PollingQueued
        <4>2. CASE l # NegList(t)
              BY <1>1, <1>6, <3>2, <4>2, Names DEF PollingQueued
        <4> QED BY <4>1, <4>2
      <3> QED BY <3>1, <3>2
    <2>9. OneEach'
          BY <1>3, <1>4, <2>7, <2>8 DEF OnceInv, OneEach
    <2> QED BY <1>7, <2>6, <2>9 DEF OnceInv
  <1> QED BY <1>8, <1>9

(* Thefts, callbacks that return and the poll itself move no polling task. *)
LEMMA LoopOnce ==
  ASSUME SafeInv, OnceInv, NEW t \in Threads,
         BeginSteal(t) \/ EndCallback(t) \/ StealSteps(t)
  PROVE  OnceInv'
  <1>1. /\ UNCHANGED <<posting, headSeg, tailSeg, booted>>
        /\ running' = running \/ EndCallback(t)
        BY DEF BeginSteal, EndCallback, StealSteps, CheckVictim, LockVictim,
               StealColor, LeaveVictim, Relock, InsertStolen, postVars,
               listVars, bootVars
  <1>2. \A u \in Threads : running'[u] = "acheck" <=> running[u] = "acheck"
    <2>1. CASE EndCallback(t)
          BY <2>1, SchedulerAssumption
          DEF EndCallback, SchedulerAssumption, SafeInv, TypeInv, TypeOK,
              ControlOK
    <2> QED BY <1>1, <2>1
  <1>3. /\ pc'[t] \notin {"run", "read", "post", "notify"}
        /\ \A b \in Actors : b # t => pc'[b] = pc[b]
        BY LoopControl DEF SafeInv
  <1>4. \A b \in Actors, u \in Threads :
          PostsPolling(b, u)' => PostsPolling(b, u)
        BY <1>1, <1>3 DEF PostsPolling
  <1> QED BY <1>1, <1>2, <1>3, <1>4, OnceKept, Names

(* Steps of the polling task itself.                                       *)
LEMMA PollOnce ==
  ASSUME SafeInv, OnceInv, NEW t \in Threads, Poll(t) \/ Event(t)
  PROVE  OnceInv'
  <1>1. UNCHANGED <<pc, running, posting, headSeg, tailSeg, booted>>
        BY DEF Poll, Event, listVars, postVars, bootVars
  <1>2. \A b \in Actors, u \in Threads :
          PostsPolling(b, u)' => PostsPolling(b, u)
        BY <1>1 DEF PostsPolling
  <1> QED BY <1>1, <1>2, OnceKept, Names

(* The polling tasks amain posts are those with a BootNumber.              *)
LEMMA BootNumbers ==
  ASSUME NEW n \in 1 .. NbBoot, BootCallback(n).cb = "acheck"
  PROVE  \A t \in Threads :
           BootCallback(n).color = NegList(t) => n = BootNumber(t)
  <1> DEFINE k == n - Len(BootProgram) - 1
  <1>0. Len(BootProgram) \in Nat /\ NThreads \in Nat
        BY SchedulerAssumption, ElementsOf DEF SchedulerAssumption
  <1>1. ~(k < 0)
    <2> SUFFICES ASSUME k < 0 PROVE FALSE
        OBVIOUS
    <2>1. n \in 1 .. Len(BootProgram)
          BY <1>0 DEF NbBoot
    <2>2. BootProgram[n] \in Callbacks
          BY <2>1, SchedulerAssumption, ElementOfSeq DEF SchedulerAssumption
    <2>3. BootCallback(n).cb = BootProgram[n]
          BY DEF BootCallback, Posted
    <2> QED BY <2>2, <2>3, SchedulerAssumption DEF SchedulerAssumption
  <1>2. /\ BootCallback(n).cb = IF k % 2 = 0 THEN "ainit" ELSE "acheck"
        /\ BootCallback(n).color = NegList(k \div 2)
        BY <1>1 DEF BootCallback
  <1>3. k \in Nat /\ n = Len(BootProgram) + 1 + k
        BY <1>0, <1>1 DEF NbBoot
  <1> HIDE DEF k
  <1>4. k % 2 # 0
        BY <1>2
  <1>5. k = 2 * (k \div 2) + 1 /\ k \div 2 \in Nat
        BY <1>3, <1>4
  <1> SUFFICES ASSUME NEW t \in Threads, BootCallback(n).color = NegList(t)
               PROVE  n = BootNumber(t)
      OBVIOUS
  <1>6. t = k \div 2
        BY <1>0, <1>2, <1>5 DEF NegList, Threads
  <1> QED BY <1>0, <1>3, <1>5, <1>6 DEF BootNumber

(* amain posts the polling task of each thread once, in order.             *)
LEMMA BootPostOnce ==
  ASSUME SafeInv, OnceInv, BootPost
  PROVE  OnceInv'
  <1> USE DEF SafeInv
  <1> DEFINE n == booted + 1
  <1>0. /\ booted \in Nat /\ n \in 1 .. NbBoot /\ booted' = n
        /\ pc[Main] = "run" /\ BeginPost(Main, BootCallback(n))
        /\ Main \in Actors
    <2>1. Len(BootProgram) \in Nat /\ NThreads \in Nat
          BY SchedulerAssumption, ElementsOf DEF SchedulerAssumption
    <2>2. booted \in 0 .. NbBoot /\ booted < NbBoot
          BY DEF BootPost, TypeInv, TypeOK, ControlOK
    <2> QED BY <2>1, <2>2, Names DEF NbBoot, BootPost
  <1>1. /\ posting'[Main] = BootCallback(n) /\ pc'[Main] \in {"read", "post"}
        /\ \A b \in Actors : b # Main => /\ pc'[b] = pc[b]
                                         /\ posting'[b] = posting[b]
        /\ UNCHANGED <<running, headSeg, tailSeg>>
        BY <1>0 DEF BootPost, BeginPost, listVars, TypeInv, TypeOK, ControlOK
  <1>2. Apart' /\ \A t \in Threads : PollingQueued(t)' <=> PollingQueued(t)
        BY <1>1 DEF OnceInv, Apart, PollingQueued
  <1>3. Reposts'
        BY <1>1, Names DEF OnceInv, Reposts, PostsPolling
  <1>4. \A t \in Threads : BootNumber(t) \in Int
        BY SchedulerAssumption, ElementsOf
        DEF BootNumber, SchedulerAssumption, Threads
  <1>5. ASSUME NEW t \in Threads
        PROVE  /\ running'[t] # "acheck"
               /\ PollingQueued(t) => booted >= BootNumber(t)
        BY <1>0, <1>1 DEF OnceInv, OneEach
  <1>6. ASSUME NEW t \in Threads, PostsPolling(Main, t)'
        PROVE  n = BootNumber(t) /\ ~PollingQueued(t)
    <2>1. n = BootNumber(t)
          BY <1>0, <1>1, <1>6, BootNumbers DEF PostsPolling
    <2> QED BY <1>0, <1>4, <1>5, <2>1
  <1>7. OneEach'
    <2>1. \A t \in Threads : PollingQueued(t)' => booted' >= BootNumber(t)
          BY <1>0, <1>2, <1>4, <1>5
    <2>2. pc'[Main] # "join"
          BY <1>1
    <2> QED BY <1>0, <1>2, <1>5, <1>6, <2>1, <2>2 DEF OneEach, BootNumber
  <1> QED BY <1>2, <1>3, <1>7 DEF OnceInv

(* task_go: amain has posted every polling task (core.C:260-263).          *)
LEMMA TaskGoOnce ==
  ASSUME SafeInv, OnceInv, TaskGo
  PROVE  OnceInv'
  <1>1. /\ pc[Main] = "run" /\ pc'[Main] = "join" /\ UNCHANGED running
        /\ \A t \in Threads : pc'[t] = "loop"
        /\ UNCHANGED <<headSeg, tailSeg>>
        BY Names DEF TaskGo, listVars
  <1>2. Apart' /\ Reposts'
        BY <1>1 DEF OnceInv, Apart, Reposts, PostsPolling
  <1>3. \A t \in Threads : PollingQueued(t)'
        BY <1>1, TaskGoSafe DEF FlowInv, Polling, InLoop
  <1>4. OneEach'
        BY <1>1, <1>3 DEF OnceInv, OneEach
  <1> QED BY <1>2, <1>4 DEF OnceInv

(* Every step keeps the polling tasks unique.                              *)
LEMMA OnceStep == SafeInv /\ OnceInv /\ [Next]_vars => OnceInv'
  <1> SUFFICES ASSUME SafeInv, OnceInv, [Next]_vars PROVE OnceInv'
      OBVIOUS
  <1>1. CASE UNCHANGED vars
    <2>1. UNCHANGED <<pc, running, posting, headSeg, tailSeg, booted>>
          BY <1>1 DEF vars, listVars, postVars, bootVars
    <2>2. \A b \in Actors, t \in Threads :
            PostsPolling(b, t)' => PostsPolling(b, t)
          BY <2>1 DEF PostsPolling
    <2> QED BY <2>1, <2>2, OnceKept, Names
  <1>2. ASSUME NEW a \in Actors, PostSteps(a) PROVE OnceInv'
        BY <1>2, ReadOnce, RegisterTaskOnce, NotifyOnce DEF PostSteps
  <1>3. ASSUME NEW t \in Threads, NEW c \in Callbacks, Post(t, c)
        PROVE  OnceInv'
        BY <1>3, PostOnce
  <1>4. ASSUME NEW t \in Threads, LoopSteps(t) \/ StealSteps(t)
        PROVE  OnceInv'
        BY <1>4, NextTaskOnce, LoopOnce DEF LoopSteps
  <1>5. ASSUME NEW t \in Threads, PollSteps(t) \/ Event(t) PROVE OnceInv'
        BY <1>5, PollOnce, PostOnce DEF PollSteps
  <1>6. CASE BootPost \/ TaskGo
        BY <1>6, BootPostOnce, TaskGoOnce
  <1> QED BY <1>1, <1>2, <1>3, <1>4, <1>5, <1>6 DEF Next

(* The invariant of the polling tasks.                                     *)
LEMMA OnceInvariant == ASSUME ColorsFit PROVE Spec => []OnceInv
  <1>1. ASSUME Init PROVE OnceInv
    <2>1. /\ \A l \in Lists : headSeg[l] = <<>> /\ tailSeg[l] = <<>>
          /\ \A a \in Actors : pc[a] \notin {"read", "post", "notify", "join"}
          /\ \A t \in Threads : running[t] = "none"
          BY <1>1 DEF Init
    <2>2. Apart
      <3>1. "acheck" \notin ToSet(<<>>) /\ Once(<<>>)
            BY EmptyList DEF Once
      <3> QED BY <2>1, <3>1, Names DEF Apart
    <2>3. Reposts
          BY <2>1, Names DEF Reposts, PostsPolling
    <2>4. OneEach
          BY <2>1, EmptyList, Names DEF OneEach, PollingQueued, PostsPolling
    <2> QED BY <2>2, <2>3, <2>4 DEF OnceInv
  <1> QED BY <1>1, SafeInvariant, OnceStep, PTL DEF Spec

(* Each worker has its polling task exactly once after task_go, queued or  *)
(* running, whoever steals and posts: acheck_task reposts itself last, and *)
(* no steal list holds the list it is in (core.C:220-222, task.lbc.C:177). *)
THEOREM OnePollingTask == ASSUME ColorsFit PROVE Spec => []PollingTaskOnce
  <1>1. SafeInv /\ OnceInv => PollingTaskOnce
    <2> SUFFICES ASSUME SafeInv, OnceInv, pc[Main] = "join", NEW t \in Threads,
                        NEW l, l = NegList(t)
                 PROVE  Cardinality({i \in 1 .. Len(headSeg[l]) :
                                       headSeg[l][i] = "acheck"})
                        + Cardinality({i \in 1 .. Len(tailSeg[l]) :
                                         tailSeg[l][i] = "acheck"})
                        + (IF running[t] = "acheck" THEN 1 ELSE 0) = 1
        BY DEF PollingTaskOnce
    <2>1. /\ l \in Lists
          /\ headSeg[l] \in Seq(Tasks) /\ tailSeg[l] \in Seq(Tasks)
          BY Names DEF SafeInv, TypeInv, TypeOK, ListsOK
    <2>2. {i \in 1 .. Len(headSeg[l]) : headSeg[l][i] = "acheck"} = {}
          BY <2>1, ElementsOf DEF OnceInv, Apart
    <2>3. Cardinality({i \in 1 .. Len(headSeg[l]) :
                         headSeg[l][i] = "acheck"}) = 0
          BY <2>2, FS_EmptySet
    <2>4. CASE running[t] = "acheck"
      <3>1. "acheck" \notin ToSet(tailSeg[l])
            BY <2>4 DEF OnceInv, OneEach, PollingQueued
      <3>2. {i \in 1 .. Len(tailSeg[l]) : tailSeg[l][i] = "acheck"} = {}
            BY <2>1, <3>1, ElementsOf
      <3>3. Cardinality({i \in 1 .. Len(tailSeg[l]) :
                           tailSeg[l][i] = "acheck"}) = 0
            BY <3>2, FS_EmptySet
      <3> QED BY <2>3, <2>4, <3>3
    <2>5. CASE running[t] # "acheck"
      <3>1. "acheck" \in ToSet(tailSeg[l]) /\ Once(tailSeg[l])
            BY <2>5 DEF OnceInv, OneEach, PollingQueued, Apart
      <3>2. PICK j \in 1 .. Len(tailSeg[l]) : tailSeg[l][j] = "acheck"
            BY <2>1, <3>1, ElementsOf
      <3>3. {i \in 1 .. Len(tailSeg[l]) : tailSeg[l][i] = "acheck"} = {j}
            BY <3>1, <3>2 DEF Once
      <3>4. Cardinality({i \in 1 .. Len(tailSeg[l]) :
                           tailSeg[l][i] = "acheck"}) = 1
            BY <3>3, FS_Singleton
      <3> QED BY <2>3, <2>5, <3>4
    <2> QED BY <2>4, <2>5
  <1> QED BY <1>1, SafeInvariant, OnceInvariant, PTL
-----------------------------------------------------------------------------
(* What Total returns *)

(* f follows the recursion of Total up to m.                               *)
Sums(f, w, m) == f[0] = 0 /\ \A n \in 1 .. m : f[n] = f[n - 1] + w[n]

(* The recursive function of Total exists: one more term, one more step.   *)
LEMMA SumsExist ==
  ASSUME NEW w, NEW k \in Nat
  PROVE  \E f : f = [n \in 0 .. k |-> IF n = 0 THEN 0 ELSE f[n - 1] + w[n]]
  <1> DEFINE Upto(m) == \E f : f = [n \in 0 .. m |-> f[n]] /\ Sums(f, w, m)
             Bad == {m \in 0 .. k : ~Upto(m)}
  <1>1. ASSUME Bad # {} PROVE FALSE
    <2>1. PICK m \in Bad : \A j \in Bad : m <= j
      <3>1. Bad \subseteq Nat
            OBVIOUS
      <3> HIDE DEF Bad
      <3> QED BY <1>1, <3>1, MinOfNaturals
    <2>2. m \in 0 .. k /\ ~Upto(m)
          BY <2>1
    <2>3. CASE m = 0
      <3> DEFINE g == [n \in 0 .. 0 |-> 0]
      <3>1. g = [n \in 0 .. 0 |-> g[n]] /\ g[0] = 0
            OBVIOUS
      <3>2. Sums(g, w, 0)
            BY <3>1 DEF Sums
      <3> HIDE DEF g
      <3> QED BY <2>2, <2>3, <3>1, <3>2
    <2>4. CASE m # 0
      <3>1. m - 1 \in 0 .. k /\ ~(m <= m - 1)
            BY <2>2, <2>4
      <3>2. PICK f : f = [n \in 0 .. m - 1 |-> f[n]] /\ Sums(f, w, m - 1)
            BY <2>1, <3>1
      <3> DEFINE g == [n \in 0 .. m |-> IF n < m THEN f[n]
                                        ELSE f[m - 1] + w[m]]
      <3>3. g = [n \in 0 .. m |-> g[n]]
            OBVIOUS
      <3>4. g[0] = 0
            BY <2>2, <2>4, <3>2 DEF Sums
      <3>5. ASSUME NEW n \in 1 .. m PROVE g[n] = g[n - 1] + w[n]
        <4>1. n - 1 \in 0 .. m /\ n \in 0 .. m /\ n - 1 < m
              BY <2>2
        <4>2. g[n - 1] = f[n - 1]
              BY <4>1
        <4>3. CASE n < m
          <5>1. n \in 1 .. m - 1
                BY <2>2, <4>3
          <5> QED BY <3>2, <4>1, <4>2, <4>3, <5>1 DEF Sums
        <4>4. CASE n = m
              BY <4>1, <4>2, <4>4
        <4> QED BY <2>2, <4>3, <4>4
      <3> HIDE DEF g
      <3>6. Sums(g, w, m)
            BY <3>4, <3>5 DEF Sums
      <3> QED BY <2>2, <3>3, <3>6
    <2> QED BY <2>3, <2>4
  <1>2. k \in 0 .. k
        OBVIOUS
  <1>3. PICK f : f = [n \in 0 .. k |-> f[n]] /\ Sums(f, w, k)
        BY <1>1, <1>2
  <1> HIDE DEF Upto, Bad
  <1>4. \A n \in 0 .. k : f[n] = IF n = 0 THEN 0 ELSE f[n - 1] + w[n]
    <2> TAKE n \in 0 .. k
    <2>1. CASE n = 0
          BY <1>3, <2>1 DEF Sums
    <2>2. CASE n # 0
      <3>1. n \in 1 .. k
            BY <2>2
      <3> QED BY <1>3, <2>2, <3>1 DEF Sums
    <2> QED BY <2>1, <2>2
  <1>5. f = [n \in 0 .. k |-> IF n = 0 THEN 0 ELSE f[n - 1] + w[n]]
        BY <1>3, <1>4
  <1> QED BY <1>5

(* Total is the last value of a function that follows its recursion.       *)
LEMMA TotalSums ==
  ASSUME NEW w, NEW k \in Nat
  PROVE  \E f : Total(w, k) = f[k] /\ Sums(f, w, k)
  <1> DEFINE g == CHOOSE f :
               f = [n \in 0 .. k |-> IF n = 0 THEN 0 ELSE f[n - 1] + w[n]]
  <1>1. Total(w, k) = g[k]
        BY DEF Total
  <1>2. g = [n \in 0 .. k |-> IF n = 0 THEN 0 ELSE g[n - 1] + w[n]]
        BY SumsExist
  <1> HIDE DEF g
  <1>3. 0 \in 0 .. k /\ \A n \in 1 .. k : n \in 0 .. k /\ n # 0
        OBVIOUS
  <1>4. g[0] = 0
        BY <1>2, <1>3
  <1>5. ASSUME NEW n \in 1 .. k PROVE g[n] = g[n - 1] + w[n]
        BY <1>2, <1>3
  <1>6. Sums(g, w, k)
        BY <1>4, <1>5 DEF Sums
  <1> QED BY <1>1, <1>6

(* A sum of numbers changes by as much as the one term that changes.       *)
LEMMA TotalOne ==
  ASSUME NEW k \in Nat, NEW w \in [1 .. k -> Int], NEW v \in [1 .. k -> Int],
         NEW j \in 1 .. k, \A n \in 1 .. k : n # j => v[n] = w[n]
  PROVE  /\ Total(w, k) \in Int /\ Total(v, k) \in Int
         /\ Total(v, k) = Total(w, k) - w[j] + v[j]
  <1>1. PICK f : Total(w, k) = f[k] /\ Sums(f, w, k)
        BY TotalSums
  <1>2. PICK g : Total(v, k) = g[k] /\ Sums(g, v, k)
        BY TotalSums
  <1> DEFINE Shifted(n) == /\ f[n] \in Int /\ g[n] \in Int
                           /\ g[n] = f[n] + (IF n < j THEN 0 ELSE v[j] - w[j])
             Bad == {n \in 0 .. k : ~Shifted(n)}
  <1>3. ASSUME Bad # {} PROVE FALSE
    <2>1. PICK n \in Bad : \A i \in Bad : n <= i
      <3>1. Bad \subseteq Nat
            OBVIOUS
      <3> HIDE DEF Bad
      <3> QED BY <1>3, <3>1, MinOfNaturals
    <2>2. n \in 0 .. k /\ ~Shifted(n)
          BY <2>1
    <2>3. n # 0
          BY <1>1, <1>2, <2>2 DEF Sums
    <2>4. n \in 1 .. k /\ n - 1 \in 0 .. k /\ ~(n <= n - 1)
          BY <2>2, <2>3
    <2>5. Shifted(n - 1)
          BY <2>1, <2>4
    <2>6. f[n] = f[n - 1] + w[n] /\ g[n] = g[n - 1] + v[n]
          BY <1>1, <1>2, <2>4 DEF Sums
    <2>7. w[n] \in Int /\ v[n] \in Int /\ w[j] \in Int /\ v[j] \in Int
          BY <2>4
    <2>8. CASE n = j
          BY <2>2, <2>4, <2>5, <2>6, <2>7, <2>8
    <2>9. CASE n # j
      <3>1. v[n] = w[n] /\ (n - 1 < j <=> n < j)
            BY <2>4, <2>9
      <3>2. f[n] \in Int /\ g[n] \in Int
        <4>1. f[n - 1] \in Int /\ g[n - 1] \in Int
              BY <2>5
        <4> HIDE DEF Shifted, Bad
        <4> QED BY <2>6, <2>7, <4>1
      <3>3. CASE n < j
        <4>1. g[n - 1] = f[n - 1]
              BY <2>5, <3>1, <3>3
        <4> QED BY <2>2, <2>6, <3>1, <3>2, <3>3, <4>1
      <3>4. CASE ~(n < j)
        <4>1. g[n - 1] = f[n - 1] + (v[j] - w[j])
              BY <2>5, <3>1, <3>4
        <4>2. g[n] = f[n] + (v[j] - w[j])
              BY <2>5, <2>6, <2>7, <3>1, <4>1
        <4> QED BY <2>2, <3>2, <3>4, <4>2
      <3> QED BY <3>3, <3>4
    <2> QED BY <2>8, <2>9
  <1>4. k \in 0 .. k /\ ~(k < j)
        OBVIOUS
  <1>5. Shifted(k)
        BY <1>3, <1>4
  <1> QED BY <1>1, <1>2, <1>4, <1>5

(* A sum of zeros.                                                         *)
LEMMA TotalZero ==
  ASSUME NEW k \in Nat, NEW w, \A n \in 1 .. k : w[n] = 0
  PROVE  Total(w, k) = 0
  <1>1. PICK f : Total(w, k) = f[k] /\ Sums(f, w, k)
        BY TotalSums
  <1> DEFINE Bad == {n \in 0 .. k : f[n] # 0}
  <1>2. ASSUME Bad # {} PROVE FALSE
    <2>1. PICK n \in Bad : \A i \in Bad : n <= i
      <3>1. Bad \subseteq Nat
            OBVIOUS
      <3> HIDE DEF Bad
      <3> QED BY <1>2, <3>1, MinOfNaturals
    <2>2. n \in 1 .. k /\ n - 1 \in 0 .. k /\ ~(n <= n - 1)
          BY <1>1, <2>1 DEF Sums
    <2>3. f[n - 1] = 0
          BY <2>1, <2>2
    <2> QED BY <1>1, <2>1, <2>2, <2>3 DEF Sums
  <1>3. k \in 0 .. k
        OBVIOUS
  <1> QED BY <1>1, <1>2, <1>3

-----------------------------------------------------------------------------
(* task_count and num_unique_colors                                        *)

(* What a thread chains is a finite set of lists, with numbers of          *)
(* callbacks.                                                              *)
LEMMA HoldsType ==
  ASSUME ListsOK, NEW t \in Threads
  PROVE  /\ ToSet(colorList[t]) \subseteq Lists
         /\ \A l \in Lists : /\ NbCallbacks(l) \in Nat /\ Holds(t, l) \in Nat
                             /\ Holds(t, l) = IF l \in ToSet(colorList[t])
                                              THEN NbCallbacks(l) ELSE 0
  <1>1. colorList[t] \in Seq(Lists)
        BY DEF ListsOK
  <1>2. \A l \in Lists : NbCallbacks(l) \in Nat
        BY NbCallbacksType
  <1> QED BY <1>1, <1>2, ElementsOf DEF Holds

(* The index of a list in the sum.                                         *)
LEMMA ListNumbers ==
  /\ NbLists \in Nat
  /\ \A n \in 1 .. NbLists : n - NThreads - 1 \in Lists
  /\ \A l \in Lists : /\ l + NThreads + 1 \in 1 .. NbLists
                      /\ (l + NThreads + 1) - NThreads - 1 = l
                      /\ \A n \in 1 .. NbLists :
                           n - NThreads - 1 = l => n = l + NThreads + 1
  BY SchedulerAssumption DEF SchedulerAssumption, NbLists, Lists

(* task_count follows one list.                                            *)
LEMMA QueuedOne ==
  ASSUME ListsOK, ListsOK', NEW t \in Threads, NEW l \in Lists,
         \A x \in Lists : x # l => Holds(t, x)' = Holds(t, x)
  PROVE  /\ NbQueued(t) \in Int
         /\ NbQueued(t)' = NbQueued(t) - Holds(t, l) + Holds(t, l)'
  <1>1. PICK w : w = [n \in 1 .. NbLists |-> Holds(t, n - NThreads - 1)]
        OBVIOUS
  <1>2. PICK v : v = [n \in 1 .. NbLists |-> Holds(t, n - NThreads - 1)']
        OBVIOUS
  <1>3. NbQueued(t) = Total(w, NbLists)
        BY <1>1 DEF NbQueued
  <1>4. NbQueued(t)' = Total(v, NbLists)
        BY <1>2 DEF NbQueued, NbLists
  <1>5. \A x \in Lists : Holds(t, x) \in Int
        BY HoldsType
  <1>6. \A x \in Lists : Holds(t, x)' \in Int
    <2>1. \A x \in Lists : NbCallbacks(x)' \in Nat
      <3> TAKE x \in Lists
      <3>1. headSeg'[x] \in Seq(Tasks) /\ tailSeg'[x] \in Seq(Tasks)
            BY DEF ListsOK
      <3>2. PICK h, k : h = Len(headSeg'[x]) /\ k = Len(tailSeg'[x])
            OBVIOUS
      <3>3. h \in Nat /\ k \in Nat
            BY <3>1, <3>2, ElementsOf
      <3>4. NbCallbacks(x)' = h + k
            BY <3>2 DEF NbCallbacks
      <3> QED BY <3>3, <3>4
    <2> QED BY <2>1 DEF Holds
  <1>7. w \in [1 .. NbLists -> Int] /\ v \in [1 .. NbLists -> Int]
        BY <1>1, <1>2, <1>5, <1>6, ListNumbers
  <1>8. PICK j \in 1 .. NbLists : j = l + NThreads + 1
        BY ListNumbers
  <1>9. w[j] = Holds(t, l) /\ v[j] = Holds(t, l)'
        BY <1>1, <1>2, <1>8, ListNumbers
  <1>10. \A n \in 1 .. NbLists : n # j => v[n] = w[n]
         BY <1>1, <1>2, <1>8, ListNumbers
  <1>11. NbLists \in Nat
         BY ListNumbers
  <1>12. /\ Total(w, NbLists) \in Int
         /\ Total(v, NbLists) = Total(w, NbLists) - w[j] + v[j]
         BY <1>7, <1>10, <1>11, TotalOne
  <1> QED BY <1>3, <1>4, <1>9, <1>12

TasksCounted(t) == taskCount[t] = NbQueued(t)
UniqueOf(t)     == {l \in ToSet(colorList[t]) : l >= 0}
UniqueCounted(t) == numUnique[t] = Cardinality(UniqueOf(t))

(* num_unique_colors follows one list, chained or unlinked.                *)
LEMMA UniqueOne ==
  ASSUME ListsOK, NEW t \in Threads, NEW l \in Lists, UniqueCounted(t)
  PROVE  /\ /\ ToSet(colorList[t])' = ToSet(colorList[t]) \cup {l}
            /\ l \notin ToSet(colorList[t])
            /\ numUnique'[t] = numUnique[t] + Unique(l)
            => UniqueCounted(t)'
         /\ /\ ToSet(colorList[t])' = ToSet(colorList[t]) \ {l}
            /\ l \in ToSet(colorList[t])
            /\ numUnique'[t] = numUnique[t] - Unique(l)
            => UniqueCounted(t)'
  <1>1. IsFiniteSet(UniqueOf(t)) /\ Cardinality(UniqueOf(t)) \in Nat
    <2>1. UniqueOf(t) \subseteq 0 .. MaxColors - 1
          BY HoldsType, SchedulerAssumption
          DEF UniqueOf, Lists, SchedulerAssumption
    <2>2. IsFiniteSet(0 .. MaxColors - 1)
          BY SchedulerAssumption, FS_Interval DEF SchedulerAssumption
    <2> QED BY <2>1, <2>2, FS_Subset, FS_CardinalityType
  <1>2. ASSUME ToSet(colorList[t])' = ToSet(colorList[t]) \cup {l},
               l \notin ToSet(colorList[t]),
               numUnique'[t] = numUnique[t] + Unique(l)
        PROVE  UniqueCounted(t)'
    <2>1. CASE l >= 0
      <3>1. UniqueOf(t)' = UniqueOf(t) \cup {l} /\ l \notin UniqueOf(t)
            BY <1>2, <2>1 DEF UniqueOf
      <3>2. Cardinality(UniqueOf(t) \cup {l}) = Cardinality(UniqueOf(t)) + 1
            BY <1>1, <3>1, FS_AddElement
      <3> QED BY <1>2, <2>1, <3>1, <3>2 DEF UniqueCounted, Unique
    <2>2. CASE ~(l >= 0)
      <3>1. UniqueOf(t)' = UniqueOf(t)
            BY <1>2, <2>2 DEF UniqueOf
      <3> QED BY <1>1, <1>2, <2>2, <3>1 DEF UniqueCounted, Unique
    <2> QED BY <2>1, <2>2
  <1>3. ASSUME ToSet(colorList[t])' = ToSet(colorList[t]) \ {l},
               l \in ToSet(colorList[t]),
               numUnique'[t] = numUnique[t] - Unique(l)
        PROVE  UniqueCounted(t)'
    <2>1. CASE l >= 0
      <3>1. UniqueOf(t)' = UniqueOf(t) \ {l} /\ l \in UniqueOf(t)
            BY <1>3, <2>1 DEF UniqueOf
      <3>2. Cardinality(UniqueOf(t) \ {l}) = Cardinality(UniqueOf(t)) - 1
            BY <1>1, <3>1, FS_RemoveElement
      <3> QED BY <1>3, <2>1, <3>1, <3>2 DEF UniqueCounted, Unique
    <2>2. CASE ~(l >= 0)
      <3>1. UniqueOf(t)' = UniqueOf(t)
            BY <1>3, <2>2 DEF UniqueOf
      <3> QED BY <1>1, <1>3, <2>2, <3>1 DEF UniqueCounted, Unique
    <2> QED BY <2>1, <2>2
  <1> QED BY <1>2, <1>3

(* Nothing changes for a thread whose chain is the same and whose lists    *)
(* hold as much.                                                           *)
LEMMA CountsSame ==
  ASSUME NEW t \in Threads, TasksCounted(t), UniqueCounted(t),
         ListsOK, ListsOK',
         colorList'[t] = colorList[t], taskCount'[t] = taskCount[t],
         numUnique'[t] = numUnique[t],
         \A l \in ToSet(colorList[t]) : NbCallbacks(l)' = NbCallbacks(l)
  PROVE  TasksCounted(t)' /\ UniqueCounted(t)'
  <1>1. UniqueOf(t)' = UniqueOf(t)
        BY DEF UniqueOf
  <1>2. \A l \in Lists : Holds(t, l)' = Holds(t, l)
    <2>1. colorList[t] \in Seq(Lists)
          BY DEF ListsOK
    <2> QED BY <2>1, ElementsOf DEF Holds
  <1>3. NegList(t) \in Lists
        BY Names
  <1>4. Holds(t, NegList(t)) \in Int
        BY <1>3, HoldsType
  <1>5. NbQueued(t)' = NbQueued(t) - Holds(t, NegList(t))
                       + Holds(t, NegList(t)) /\ NbQueued(t) \in Int
    <2>1. Holds(t, NegList(t))' = Holds(t, NegList(t))
          BY <1>2, <1>3
    <2>2. \A x \in Lists : x # NegList(t) => Holds(t, x)' = Holds(t, x)
          BY <1>2
    <2> QED BY <1>3, <2>1, <2>2, QueuedOne
  <1> QED BY <1>1, <1>4, <1>5 DEF TasksCounted, UniqueCounted

(* A step that touches neither lists nor counters.                         *)
LEMMA CountsKept ==
  ASSUME TypeInv, TypeInv', CountersExact,
         UNCHANGED <<colorList, headSeg, tailSeg, taskCount, numUnique>>
  PROVE  CountersExact'
  <1> SUFFICES ASSUME NEW t \in Threads
               PROVE  TasksCounted(t)' /\ UniqueCounted(t)'
      BY DEF CountersExact, TasksCounted, UniqueCounted, UniqueOf
  <1>1. TasksCounted(t) /\ UniqueCounted(t)
        BY DEF CountersExact, TasksCounted, UniqueCounted, UniqueOf
  <1>2. \A l : NbCallbacks(l)' = NbCallbacks(l)
        BY DEF NbCallbacks
  <1> QED BY <1>1, <1>2, CountsSame DEF TypeInv, TypeOK

(* A step about one list l of one thread d, that other threads do not      *)
(* chain.                                                                  *)
LEMMA CountsMoved ==
  ASSUME TypeInv, TypeInv', CountersExact, NEW d \in Threads, NEW l \in Lists,
         \A t \in Threads :
           t # d => /\ colorList'[t] = colorList[t]
                    /\ taskCount'[t] = taskCount[t]
                    /\ numUnique'[t] = numUnique[t]
                    /\ l \notin ToSet(colorList[t]),
         \A x \in Lists : x # l => /\ NbCallbacks(x)' = NbCallbacks(x)
                                   /\ Holds(d, x)' = Holds(d, x),
         taskCount'[d] = taskCount[d] - Holds(d, l) + Holds(d, l)',
         UniqueCounted(d)'
  PROVE  CountersExact'
  <1>1. \A t \in Threads : TasksCounted(t) /\ UniqueCounted(t)
        BY DEF CountersExact, TasksCounted, UniqueCounted, UniqueOf
  <1> SUFFICES ASSUME NEW t \in Threads
               PROVE  TasksCounted(t)' /\ UniqueCounted(t)'
      BY DEF CountersExact, TasksCounted, UniqueCounted, UniqueOf
  <1>2. ListsOK /\ ListsOK'
        BY DEF TypeInv, TypeOK
  <1>3. CASE t # d
    <2>1. \A x \in ToSet(colorList[t]) : NbCallbacks(x)' = NbCallbacks(x)
          BY <1>2, <1>3, HoldsType
    <2> QED BY <1>1, <1>2, <1>3, <2>1, CountsSame
  <1>4. CASE t = d
    <2>1. NbQueued(d)' = NbQueued(d) - Holds(d, l) + Holds(d, l)'
          BY <1>2, QueuedOne
    <2> QED BY <1>1, <1>4, <2>1 DEF TasksCounted
  <1> QED BY <1>3, <1>4

(* register_task counts the callback, and the color if it chains it.       *)
LEMMA RegisterCounts ==
  ASSUME SafeInv, CountersExact, NEW a \in Actors, RegisterTask(a)
  PROVE  CountersExact'
  <1> USE DEF SafeInv
  <1>0. PICK d, l : d = dest[a] /\ l = ListOf(posting[a].color, d)
        OBVIOUS
  <1>1. /\ TypeInv' /\ ListsOK /\ ListsOK'
        BY RegisterTaskType DEF TypeInv, TypeOK
  <1>2. /\ d \in Threads /\ l \in Lists /\ HomeOf(l, d)
        /\ \A t \in Threads : t # d => colorList'[t] = colorList[t]
        /\ ToSet(colorList'[d]) = ToSet(colorList[d]) \cup {l}
        /\ \A x \in Lists : x # l => /\ headSeg'[x] = headSeg[x]
                                     /\ tailSeg'[x] = tailSeg[x]
        /\ \/ /\ tailSeg'[l] = Append(tailSeg[l], posting[a].cb)
              /\ headSeg'[l] = headSeg[l]
           \/ /\ headSeg'[l] = Append(headSeg[l], posting[a].cb)
              /\ tailSeg'[l] = tailSeg[l]
    <2>1. /\ d \in Threads /\ l \in Lists /\ HomeOf(l, d)
          /\ \A t \in Threads : t # d => colorList'[t] = colorList[t]
          /\ ToSet(colorList'[d]) = ToSet(colorList[d]) \cup {l}
          BY <1>0, RegisteredLists
    <2>2. \A x \in Lists : x # l => /\ headSeg'[x] = headSeg[x]
                                    /\ tailSeg'[x] = tailSeg[x]
          BY <1>0, RegisteredLists
    <2>3. IF posting[a].last
          THEN /\ tailSeg'[l] = Append(tailSeg[l], posting[a].cb)
               /\ headSeg'[l] = headSeg[l]
          ELSE /\ headSeg'[l] = Append(headSeg[l], posting[a].cb)
               /\ tailSeg'[l] = tailSeg[l]
          BY <1>0, RegisteredLists
    <2> QED BY <2>1, <2>2, <2>3
  <1>3. RegisterCb(d, posting[a]) /\ UNCHANGED acolor
        BY <1>0 DEF RegisterTask
  <1>4. /\ taskCount'[d] = taskCount[d] + 1
        /\ numUnique'[d] = numUnique[d] + (IF Fresh(d, l) THEN Unique(l) ELSE 0)
        /\ \A t \in Threads : t # d => /\ taskCount'[t] = taskCount[t]
                                       /\ numUnique'[t] = numUnique[t]
        BY <1>0, <1>2, <1>3 DEF RegisterCb, TypeInv, TypeOK, CountsOK
  <1>5. NbCallbacks(l) \in Nat /\ NbCallbacks(l)' = NbCallbacks(l) + 1
    <2>1. /\ headSeg[l] \in Seq(Tasks) /\ tailSeg[l] \in Seq(Tasks)
          /\ NbCallbacks(l) \in Nat
          BY <1>1, <1>2, NbCallbacksType
    <2>2. PICK h, k : h = Len(headSeg[l]) /\ k = Len(tailSeg[l])
          OBVIOUS
    <2>3. h \in Nat /\ k \in Nat /\ NbCallbacks(l) = h + k
          BY <2>1, <2>2, ElementsOf DEF NbCallbacks
    <2>4. /\ Len(Append(headSeg[l], posting[a].cb)) = h + 1
          /\ Len(Append(tailSeg[l], posting[a].cb)) = k + 1
      <3>1. \A s \in Seq(Tasks) :
              Len(Append(s, posting[a].cb)) = Len(s) + 1
            OBVIOUS
      <3> QED BY <2>1, <2>2, <3>1
    <2>5. NbCallbacks(l)' = Len(headSeg'[l]) + Len(tailSeg'[l])
          BY DEF NbCallbacks
    <2>6. NbCallbacks(l)' = (h + 1) + k \/ NbCallbacks(l)' = h + (k + 1)
          BY <1>2, <2>2, <2>4, <2>5
    <2> QED BY <2>1, <2>3, <2>6
  <1>6. Fresh(d, l) <=> l \notin ToSet(colorList[d])
        BY <1>2, FreshUnchained
  <1>7. Holds(d, l) = NbCallbacks(l) /\ Holds(d, l)' = NbCallbacks(l)'
    <2>1. l \notin ToSet(colorList[d]) => NbCallbacks(l) = 0
          BY <1>6 DEF Fresh
    <2>2. colorList'[d] \in Seq(Lists)
          BY <1>1, <1>2 DEF ListsOK
    <2> QED BY <1>1, <1>2, <2>1, <2>2, HoldsType, ElementsOf DEF Holds
  <1>8. \A x \in Lists : x # l => /\ NbCallbacks(x)' = NbCallbacks(x)
                                  /\ Holds(d, x)' = Holds(d, x)
    <2>1. \A x \in Lists : x # l => NbCallbacks(x)' = NbCallbacks(x)
          BY <1>2 DEF NbCallbacks
    <2>2. colorList[d] \in Seq(Lists) /\ colorList'[d] \in Seq(Lists)
          BY <1>1, <1>2 DEF ListsOK
    <2> QED BY <1>2, <2>1, <2>2, ElementsOf DEF Holds
  <1>9. UniqueCounted(d)'
    <2>1. UniqueCounted(d)
          BY <1>2 DEF CountersExact, UniqueCounted, UniqueOf
    <2>2. CASE Fresh(d, l)
          BY <1>1, <1>2, <1>4, <1>6, <2>1, <2>2, UniqueOne
    <2>3. CASE ~Fresh(d, l)
      <3>1. ToSet(colorList'[d]) = ToSet(colorList[d])
            BY <1>2, <1>6, <2>3
      <3>2. numUnique'[d] = numUnique[d]
            BY <1>2, <1>4, <2>3 DEF TypeInv, TypeOK, CountsOK
      <3> QED BY <2>1, <3>1, <3>2 DEF UniqueCounted, UniqueOf
    <2> QED BY <2>2, <2>3
  <1>10. taskCount'[d] = taskCount[d] - Holds(d, l) + Holds(d, l)'
    <2>1. taskCount[d] \in Int
          BY <1>2 DEF TypeInv, TypeOK, CountsOK
    <2> QED BY <1>4, <1>5, <1>7, <2>1
  <1>11. \A t \in Threads : t # d => l \notin ToSet(colorList[t])
         BY <1>2, HomeIsOne DEF ListInv, AtHome
  <1> QED BY <1>1, <1>2, <1>4, <1>8, <1>9, <1>10, <1>11, CountsMoved

(* steal_work: the victim loses the color and its callbacks.               *)
LEMMA StealCounts ==
  ASSUME SafeInv, CountersExact, NEW t \in Threads, StealColor(t)
  PROVE  CountersExact'
  <1>0. PICK v, l : v = victim[t] /\ l = stealList[v][Min(Stealable(v))]
        OBVIOUS
  <1> USE DEF SafeInv
  <1>1. /\ TypeInv' /\ ListsOK /\ ListsOK'
        BY StealColorType DEF TypeInv, TypeOK
  <1>2. /\ v \in Threads /\ l \in ToSet(stealList[v]) /\ l \in Lists
        /\ l \in Colors
        BY <1>0, <1>1, StolenList DEF StealColor, TypeInv, TypeOK, ControlOK
  <1>3. NbCallbacks(l) > 0 /\ l \in ToSet(colorList[v]) /\ l >= 0
        BY <1>2, SchedulerAssumption
        DEF ListInv, StealIn, Colors, SchedulerAssumption
  <1>4. /\ colorList' = [colorList EXCEPT ![v] = Unlinked(@, l)]
        /\ numUnique' = [numUnique EXCEPT ![v] = @ - 1]
        /\ taskCount' = [taskCount EXCEPT ![v] = @ - NbCallbacks(l)]
        /\ UNCHANGED <<headSeg, tailSeg>>
        BY <1>0, <1>3 DEF StealColor
  <1>5. /\ \A u \in Threads : u # v => /\ colorList'[u] = colorList[u]
                                       /\ taskCount'[u] = taskCount[u]
                                       /\ numUnique'[u] = numUnique[u]
                                       /\ l \notin ToSet(colorList[u])
        /\ taskCount'[v] = taskCount[v] - NbCallbacks(l)
        /\ numUnique'[v] = numUnique[v] - 1
    <2>1. /\ colorList \in [Threads -> Seq(Lists)]
          /\ taskCount \in [Threads -> Int] /\ numUnique \in [Threads -> Int]
          BY DEF TypeInv, TypeOK, ListsOK, CountsOK
    <2>2. \A u \in Threads : u # v => l \notin ToSet(colorList[u])
          BY <1>2, <1>3, HomeIsOne DEF ListInv, AtHome
    <2> QED BY <1>2, <1>4, <2>1, <2>2
  <1>6. ToSet(colorList'[v]) = ToSet(colorList[v]) \ {l}
    <2>1. colorList[v] \in Seq(Lists) /\ IsInjective(colorList[v])
          BY <1>1, <1>2 DEF ListsOK, ListInv, NoDuplicates
    <2>2. colorList'[v] = Unlinked(colorList[v], l)
          BY <1>1, <1>2, <1>4 DEF ListsOK
    <2> QED BY <2>1, <2>2, UnlinkedList
  <1>7. \A x : NbCallbacks(x)' = NbCallbacks(x)
        BY <1>4 DEF NbCallbacks
  <1>8. /\ \A x \in Lists : x # l => Holds(v, x)' = Holds(v, x)
        /\ Holds(v, l) = NbCallbacks(l) /\ Holds(v, l)' = 0
    <2>1. colorList[v] \in Seq(Lists) /\ colorList'[v] \in Seq(Lists)
          BY <1>1, <1>2 DEF ListsOK
    <2> QED BY <1>2, <1>3, <1>6, <1>7, <2>1, ElementsOf DEF Holds
  <1>9. UniqueCounted(v)'
    <2>1. UniqueCounted(v)
          BY <1>2 DEF CountersExact, UniqueCounted, UniqueOf
    <2>2. numUnique'[v] = numUnique[v] - Unique(l)
          BY <1>3, <1>5 DEF Unique
    <2> QED BY <1>1, <1>2, <1>3, <1>6, <2>1, <2>2, UniqueOne
  <1>10. taskCount'[v] = taskCount[v] - Holds(v, l) + Holds(v, l)'
    <2>1. taskCount[v] \in Int /\ NbCallbacks(l) \in Nat
          BY <1>1, <1>2, NbCallbacksType DEF TypeInv, TypeOK, CountsOK
    <2> QED BY <1>5, <1>8, <2>1
  <1> QED BY <1>1, <1>2, <1>5, <1>7, <1>8, <1>9, <1>10, CountsMoved

(* The thief counts what it chains.                                        *)
LEMMA InsertCounts ==
  ASSUME SafeInv, CountersExact, NEW t \in Threads, InsertStolen(t)
  PROVE  CountersExact'
  <1>0. PICK l, s : /\ l = Head(loot[t])
                    /\ s = Slot(colorList[t], prio[l], 0, acolor[t] = NoList)
        OBVIOUS
  <1> USE DEF SafeInv
  <1>1. /\ TypeInv' /\ ListsOK /\ ListsOK'
        BY InsertStolenType DEF TypeInv, TypeOK
  <1>2. l \in ToSet(loot[t]) /\ l \in Colors /\ l \in Lists /\ l >= 0
    <2>1. loot[t] \in Seq(Colors) /\ loot[t] # <<>>
          BY <1>1 DEF InsertStolen, ListsOK
    <2> QED BY <1>0, <2>1, HeadOf, ElementsOf, Names, SchedulerAssumption
            DEF Colors, SchedulerAssumption
  <1>3. \A u \in Threads : l \notin ToSet(colorList[u])
    <2>1. queueOf[l] = Nobody
          BY <1>2 DEF ListInv, Looted
    <2> QED BY <1>2, <2>1, Names DEF ListInv, AtHome, HomeOf
  <1>4. /\ colorList' = [colorList EXCEPT ![t] = Linked(@, s, l)]
        /\ numUnique' = [numUnique EXCEPT ![t] = @ + 1]
        /\ taskCount' = [taskCount EXCEPT ![t] = @ + NbCallbacks(l)]
        /\ UNCHANGED <<headSeg, tailSeg>>
        BY <1>0 DEF InsertStolen
  <1>5. /\ \A u \in Threads : u # t => /\ colorList'[u] = colorList[u]
                                       /\ taskCount'[u] = taskCount[u]
                                       /\ numUnique'[u] = numUnique[u]
        /\ taskCount'[t] = taskCount[t] + NbCallbacks(l)
        /\ numUnique'[t] = numUnique[t] + 1
    <2>1. /\ colorList \in [Threads -> Seq(Lists)]
          /\ taskCount \in [Threads -> Int] /\ numUnique \in [Threads -> Int]
          BY DEF TypeInv, TypeOK, ListsOK, CountsOK
    <2> QED BY <1>4, <2>1
  <1>6. ToSet(colorList'[t]) = ToSet(colorList[t]) \cup {l}
    <2>1. colorList[t] \in Seq(Lists)
          BY <1>1 DEF ListsOK
    <2>2. s \in 0 .. Len(colorList[t])
          BY <1>0, <2>1, SlotRange
    <2>3. colorList'[t] = Linked(colorList[t], s, l)
          BY <1>1, <1>4 DEF ListsOK
    <2> QED BY <1>2, <2>1, <2>2, <2>3, LinkedList
  <1>7. \A x : NbCallbacks(x)' = NbCallbacks(x)
        BY <1>4 DEF NbCallbacks
  <1>8. /\ \A x \in Lists : x # l => Holds(t, x)' = Holds(t, x)
        /\ Holds(t, l) = 0 /\ Holds(t, l)' = NbCallbacks(l)
    <2>1. colorList[t] \in Seq(Lists) /\ colorList'[t] \in Seq(Lists)
          BY <1>1 DEF ListsOK
    <2> QED BY <1>2, <1>3, <1>6, <1>7, <2>1, ElementsOf DEF Holds
  <1>9. UniqueCounted(t)'
    <2>1. UniqueCounted(t)
          BY DEF CountersExact, UniqueCounted, UniqueOf
    <2>2. numUnique'[t] = numUnique[t] + Unique(l)
          BY <1>2, <1>5 DEF Unique
    <2> QED BY <1>1, <1>2, <1>3, <1>6, <2>1, <2>2, UniqueOne
  <1>10. taskCount'[t] = taskCount[t] - Holds(t, l) + Holds(t, l)'
    <2>1. taskCount[t] \in Int /\ NbCallbacks(l) \in Nat
          BY <1>1, <1>2, NbCallbacksType DEF TypeInv, TypeOK, CountsOK
    <2> QED BY <1>5, <1>8, <2>1
  <1> QED BY <1>1, <1>2, <1>3, <1>5, <1>7, <1>8, <1>9, <1>10, CountsMoved

(* choose_task forgets the list that ran last when it is empty, and counts *)
(* down for the callback it takes.                                         *)
LEMMA NextTaskCounts ==
  ASSUME SafeInv, CountersExact, NEW t \in Threads, NextTask(t)
  PROVE  CountersExact'
  <1>0. PICK l, k, list : /\ l = Head(Retired(t).list) /\ k = acolor[t]
                          /\ list = Retired(t).list
        OBVIOUS
  <1>1. /\ l \in Lists /\ l \in ToSet(colorList[t]) /\ l \in ToSet(list)
        /\ NbCallbacks(l) > 0 /\ Run(t, l)
        BY <1>0, NextTaskRuns
  <1> USE DEF SafeInv
  <1>2. /\ TypeInv' /\ ListsOK /\ ListsOK' /\ CountsOK
        BY NextTaskType DEF TypeInv, TypeOK
  <1>3. /\ \A x \in Lists : x # l => /\ headSeg'[x] = headSeg[x]
                                     /\ tailSeg'[x] = tailSeg[x]
        /\ NbCallbacks(l)' = NbCallbacks(l) - 1
        BY <1>1, <1>2, RunLists
  <1>4. /\ colorList'[t] = list
        /\ numUnique'[t] = Retired(t).uniq
        /\ taskCount'[t] = taskCount[t] - 1
        /\ \A u \in Threads : u # t => /\ colorList'[u] = colorList[u]
                                       /\ taskCount'[u] = taskCount[u]
                                       /\ numUnique'[u] = numUnique[u]
    <2>1. /\ colorList' = [colorList EXCEPT ![t] = list]
          /\ numUnique' = [numUnique EXCEPT ![t] = Retired(t).uniq]
          /\ taskCount' = [taskCount EXCEPT ![t] = @ - 1]
          BY <1>0, <1>1 DEF NextTask, Run
    <2>2. /\ colorList \in [Threads -> Seq(Lists)]
          /\ taskCount \in [Threads -> Int] /\ numUnique \in [Threads -> Int]
          BY <1>2 DEF ListsOK, CountsOK
    <2> QED BY <2>1, <2>2
  <1>5. /\ k = NoList \/ k \in ToSet(colorList[t])
        /\ k \in Lists \cup {NoList}
        BY <1>0, <1>2 DEF ListInv, Current, ListsOK
  <1>6. /\ list \in Seq(Lists) /\ ToSet(list) \subseteq ToSet(colorList[t])
        /\ \A x \in ToSet(colorList[t]) :
             x # k \/ NbCallbacks(x) > 0 => x \in ToSet(list)
        /\ \A x \in Lists :
             x = k /\ NbCallbacks(x) = 0 => x \notin ToSet(list)
        BY <1>0, <1>2, <1>5, RetiredList DEF ListInv, NoDuplicates
  <1>7. \A x \in Lists : x # l => NbCallbacks(x)' = NbCallbacks(x)
        BY <1>3 DEF NbCallbacks
  <1>8. colorList[t] \in Seq(Lists)
        BY <1>2 DEF ListsOK
  <1>9. /\ \A x \in Lists : x # l => Holds(t, x)' = Holds(t, x)
        /\ Holds(t, l) = NbCallbacks(l) /\ Holds(t, l)' = NbCallbacks(l) - 1
    <2>1. \A x : /\ Holds(t, x)' = IF x \in ToSet(list)
                                   THEN NbCallbacks(x)' ELSE 0
                 /\ Holds(t, x) = IF x \in ToSet(colorList[t])
                                  THEN NbCallbacks(x) ELSE 0
          BY <1>4, <1>6, <1>8, ElementsOf DEF Holds
    <2>2. ASSUME NEW x \in Lists, x # l PROVE Holds(t, x)' = Holds(t, x)
      <3>1. NbCallbacks(x) \in Nat /\ NbCallbacks(x)' = NbCallbacks(x)
            BY <1>2, <1>7, <2>2, NbCallbacksType
      <3>2. x \in ToSet(colorList[t]) /\ x \notin ToSet(list)
              => NbCallbacks(x) = 0
            BY <1>6, <3>1
      <3> QED BY <1>6, <2>1, <3>1, <3>2
    <2> QED BY <1>1, <1>3, <2>1, <2>2
  <1>10. UniqueCounted(t)'
    <2>1. UniqueCounted(t)
          BY DEF CountersExact, UniqueCounted, UniqueOf
    <2>2. CASE k # NoList /\ NbCallbacks(k) = 0
      <3>1. Retired(t).uniq = numUnique[t] - Unique(k)
            BY <1>0, <2>2 DEF Retired
      <3>2. ToSet(list) = ToSet(colorList[t]) \ {k}
            BY <1>5, <1>6, <2>2
      <3> QED BY <1>2, <1>4, <1>5, <2>1, <2>2, <3>1, <3>2, UniqueOne
    <2>3. CASE ~(k # NoList /\ NbCallbacks(k) = 0)
      <3>1. Retired(t).uniq = numUnique[t]
            BY <1>0, <2>3 DEF Retired
      <3>2. ToSet(list) = ToSet(colorList[t])
        <4>1. \A x \in ToSet(colorList[t]) : x \in Lists
              BY <1>8, ElementsOf
        <4>2. \A x \in Lists : NbCallbacks(x) \in Nat /\ x # NoList
              BY <1>2, NbCallbacksType, Names
        <4>3. \A x \in ToSet(colorList[t]) : x # k \/ NbCallbacks(x) > 0
              BY <2>3, <4>1, <4>2
        <4> QED BY <1>6, <4>3
      <3> QED BY <1>4, <2>1, <3>1, <3>2 DEF UniqueCounted, UniqueOf
    <2> QED BY <2>2, <2>3
  <1>11. taskCount'[t] = taskCount[t] - Holds(t, l) + Holds(t, l)'
    <2>1. taskCount[t] \in Int /\ NbCallbacks(l) \in Nat
          BY <1>1, <1>2, NbCallbacksType DEF CountsOK
    <2> QED BY <1>4, <1>9, <2>1
  <1>12. \A u \in Threads : u # t => l \notin ToSet(colorList[u])
         BY <1>1, HomeIsOne DEF ListInv, AtHome
  <1> QED BY <1>1, <1>2, <1>4, <1>7, <1>9, <1>10, <1>11, <1>12, CountsMoved

-----------------------------------------------------------------------------
(* Every step keeps the counters exact.                                    *)
LEMMA CountsStep == SafeInv /\ CountersExact /\ [Next]_vars => CountersExact'
  <1> SUFFICES ASSUME SafeInv, CountersExact, [Next]_vars
               PROVE  CountersExact'
      OBVIOUS
  <1>0. TypeInv /\ TypeInv'
        BY TypeInvStep DEF SafeInv
  <1>1. CASE UNCHANGED vars
        BY <1>0, <1>1, CountsKept DEF vars, listVars, countVars
  <1>2. ASSUME NEW a \in Actors, PostSteps(a) PROVE CountersExact'
    <2>1. CASE RegisterTask(a)
          BY <2>1, RegisterCounts
    <2>2. CASE ReadOwner(a) \/ RetryPost(a) \/ Notify(a)
          BY <1>0, <2>2, CountsKept
          DEF ReadOwner, RetryPost, Notify, listVars, countVars
    <2> QED BY <1>2, <2>1, <2>2 DEF PostSteps
  <1>3. ASSUME NEW t \in Threads, NEW c \in Callbacks, Post(t, c)
        PROVE  CountersExact'
        BY <1>0, <1>3, CountsKept DEF Post, listVars, countVars
  <1>4. ASSUME NEW t \in Threads, LoopSteps(t) PROVE CountersExact'
    <2>1. CASE NextTask(t)
          BY <2>1, NextTaskCounts
    <2>2. CASE BeginSteal(t) \/ EndCallback(t)
          BY <1>0, <2>2, CountsKept
          DEF BeginSteal, EndCallback, listVars, countVars
    <2> QED BY <1>4, <2>1, <2>2 DEF LoopSteps
  <1>5. ASSUME NEW t \in Threads, StealSteps(t) PROVE CountersExact'
    <2>1. CASE StealColor(t)
          BY <2>1, StealCounts
    <2>2. CASE InsertStolen(t)
          BY <2>2, InsertCounts
    <2>3. CASE CheckVictim(t) \/ LockVictim(t) \/ LeaveVictim(t) \/ Relock(t)
          BY <1>0, <2>3, CountsKept
          DEF CheckVictim, LockVictim, LeaveVictim, Relock, listVars, countVars
    <2> QED BY <1>5, <2>1, <2>2, <2>3 DEF StealSteps
  <1>6. ASSUME NEW t \in Threads, PollSteps(t) \/ Event(t)
        PROVE  CountersExact'
        BY <1>0, <1>6, CountsKept
        DEF PollSteps, Poll, Repost, Event, listVars, countVars
  <1>7. CASE BootPost \/ TaskGo
        BY <1>0, <1>7, CountsKept DEF BootPost, TaskGo, listVars, countVars
  <1> QED BY <1>1, <1>2, <1>3, <1>4, <1>5, <1>6, <1>7 DEF Next

(* task_count and num_unique_colors of every thread are what its lists     *)
(* hold, at each step of a post, a steal or an insertion: what a thread    *)
(* decides by task_count (to steal, task.lbc.C:945, or not to wait, 1024)  *)
(* is decided by its queue.                                                *)
THEOREM CountersTrue == ASSUME ColorsFit PROVE Spec => []CountersExact
  <1>1. ASSUME Init PROVE CountersExact
    <2> SUFFICES ASSUME NEW t \in Threads
                 PROVE  TasksCounted(t) /\ UniqueCounted(t)
        BY DEF CountersExact, TasksCounted, UniqueCounted, UniqueOf
    <2>1. colorList[t] = <<>> /\ taskCount[t] = 0 /\ numUnique[t] = 0
          BY <1>1 DEF Init
    <2>2. \A x : Holds(t, x) = 0
          BY <2>1 DEF Holds, Contains
    <2>3. NbQueued(t) = 0
          BY <2>2, ListNumbers, TotalZero DEF NbQueued
    <2>4. UniqueOf(t) = {}
          BY <2>1, EmptyList DEF UniqueOf
    <2> QED BY <2>1, <2>3, <2>4, FS_EmptySet DEF TasksCounted, UniqueCounted
  <1> QED BY <1>1, SafeInvariant, CountsStep, PTL DEF Spec

-----------------------------------------------------------------------------
(* What Selected returns *)

Step(q, e, S) == IF e \in S THEN Append(q, e) ELSE q

(* f follows the recursion of Selected up to m.                            *)
Follows(f, s, S, m) ==
  f[0] = <<>> /\ \A n \in 1 .. m : f[n] = Step(f[n - 1], s[n], S)

(* The recursive function of Selected exists: one more element, one more   *)
(* step.                                                                   *)
LEMMA SelectionExists ==
  ASSUME NEW s, NEW S, NEW k \in Nat
  PROVE  \E f : /\ f = [n \in 0 .. k |-> IF n = 0 THEN <<>>
                                         ELSE Step(f[n - 1], s[n], S)]
                /\ Follows(f, s, S, k)
  <1> DEFINE Upto(m) ==
               \E f : f = [n \in 0 .. m |-> f[n]] /\ Follows(f, s, S, m)
             Bad == {m \in 0 .. k : ~Upto(m)}
  <1>1. ASSUME Bad # {} PROVE FALSE
    <2>1. PICK m \in Bad : \A j \in Bad : m <= j
      <3>1. Bad \subseteq Nat
            OBVIOUS
      <3> HIDE DEF Bad
      <3> QED BY <1>1, <3>1, MinOfNaturals
    <2>2. m \in 0 .. k /\ ~Upto(m)
          BY <2>1
    <2>3. CASE m = 0
      <3> DEFINE g == [n \in 0 .. 0 |-> <<>>]
      <3>1. g = [n \in 0 .. 0 |-> g[n]] /\ g[0] = <<>>
            OBVIOUS
      <3>2. Follows(g, s, S, 0)
            BY <3>1 DEF Follows
      <3> HIDE DEF g
      <3> QED BY <2>2, <2>3, <3>1, <3>2
    <2>4. CASE m # 0
      <3>1. m - 1 \in 0 .. k /\ ~(m <= m - 1)
            BY <2>2, <2>4
      <3>2. Upto(m - 1)
            BY <2>1, <3>1
      <3>3. PICK f : f = [n \in 0 .. m - 1 |-> f[n]] /\ Follows(f, s, S, m - 1)
            BY <3>2
      <3> DEFINE g == [n \in 0 .. m |-> IF n < m THEN f[n]
                                        ELSE Step(f[m - 1], s[m], S)]
      <3>4. g = [n \in 0 .. m |-> g[n]]
            OBVIOUS
      <3>5. g[0] = <<>>
            BY <2>2, <2>4, <3>3 DEF Follows
      <3>6. ASSUME NEW n \in 1 .. m PROVE g[n] = Step(g[n - 1], s[n], S)
        <4>1. n - 1 \in 0 .. m /\ n \in 0 .. m /\ n - 1 < m
              BY <2>2
        <4>2. g[n - 1] = f[n - 1]
              BY <4>1
        <4>3. CASE n < m
          <5>1. n \in 1 .. m - 1
                BY <2>2, <4>3
          <5> QED BY <3>3, <4>1, <4>2, <4>3, <5>1 DEF Follows
        <4>4. CASE n = m
              BY <4>1, <4>2, <4>4
        <4> QED BY <2>2, <4>3, <4>4
      <3> HIDE DEF g
      <3>7. Follows(g, s, S, m)
            BY <3>5, <3>6 DEF Follows
      <3> QED BY <2>2, <3>4, <3>7
    <2> QED BY <2>3, <2>4
  <1>2. k \in 0 .. k
        OBVIOUS
  <1>3. Upto(k)
        BY <1>1, <1>2
  <1>4. PICK f : f = [n \in 0 .. k |-> f[n]] /\ Follows(f, s, S, k)
        BY <1>3
  <1> HIDE DEF Upto, Bad
  <1>5. \A n \in 0 .. k :
          f[n] = IF n = 0 THEN <<>> ELSE Step(f[n - 1], s[n], S)
    <2> TAKE n \in 0 .. k
    <2>1. CASE n = 0
          BY <1>4, <2>1 DEF Follows
    <2>2. CASE n # 0
      <3>1. n \in 1 .. k
            BY <2>2
      <3> QED BY <1>4, <2>2, <3>1 DEF Follows
    <2> QED BY <2>1, <2>2
  <1>6. f = [n \in 0 .. k |-> IF n = 0 THEN <<>>
                              ELSE Step(f[n - 1], s[n], S)]
        BY <1>4, <1>5
  <1> QED BY <1>4, <1>6

(* Two functions that follow the recursion are equal.                      *)
LEMMA OneSelection ==
  ASSUME NEW s, NEW S, NEW k \in Nat,
         NEW f, Follows(f, s, S, k), NEW g, Follows(g, s, S, k)
  PROVE  f[k] = g[k]
  <1> DEFINE Bad == {n \in 0 .. k : f[n] # g[n]}
  <1>1. ASSUME Bad # {} PROVE FALSE
    <2>1. PICK n \in Bad : \A j \in Bad : n <= j
      <3>1. Bad \subseteq Nat
            OBVIOUS
      <3> HIDE DEF Bad
      <3> QED BY <1>1, <3>1, MinOfNaturals
    <2>2. n \in 1 .. k
          BY <2>1 DEF Follows
    <2>3. n - 1 \in 0 .. k /\ ~(n <= n - 1)
          BY <2>2
    <2>4. f[n - 1] = g[n - 1]
          BY <2>1, <2>3
    <2> QED BY <2>1, <2>2, <2>4 DEF Follows
  <1> QED BY <1>1

(* Selected is the value of every function that follows its recursion.     *)
LEMMA SelectedFollows ==
  ASSUME NEW T, NEW s \in Seq(T), NEW S, NEW f, Follows(f, s, S, Len(s))
  PROVE  Selected(s, S) = f[Len(s)]
  <1> DEFINE g == CHOOSE u : u = [n \in 0 .. Len(s) |->
                    IF n = 0 THEN <<>>
                    ELSE IF s[n] \in S THEN Append(u[n - 1], s[n])
                         ELSE u[n - 1]]
  <1>1. Selected(s, S) = g[Len(s)]
        BY DEF Selected
  <1>2. Len(s) \in Nat
        BY LenProperties
  <1>3. \E u : u = [n \in 0 .. Len(s) |->
                    IF n = 0 THEN <<>>
                    ELSE IF s[n] \in S THEN Append(u[n - 1], s[n])
                         ELSE u[n - 1]]
    <2>1. PICK u : /\ u = [n \in 0 .. Len(s) |-> IF n = 0 THEN <<>>
                                     ELSE Step(u[n - 1], s[n], S)]
                   /\ Follows(u, s, S, Len(s))
          BY <1>2, SelectionExists
    <2>2. u = [n \in 0 .. Len(s) |->
                 IF n = 0 THEN <<>>
                 ELSE IF s[n] \in S THEN Append(u[n - 1], s[n]) ELSE u[n - 1]]
          BY <2>1 DEF Step
    <2> QED BY <2>2
  <1>4. g = [n \in 0 .. Len(s) |->
                    IF n = 0 THEN <<>>
                    ELSE IF s[n] \in S THEN Append(g[n - 1], s[n])
                         ELSE g[n - 1]]
        BY <1>3
  <1> HIDE DEF g
  <1>5. g[0] = <<>>
    <2>1. 0 \in 0 .. Len(s)
          BY <1>2
    <2> QED BY <1>4, <2>1
  <1>6. ASSUME NEW n \in 1 .. Len(s) PROVE g[n] = Step(g[n - 1], s[n], S)
    <2>1. n \in 0 .. Len(s) /\ n # 0
          BY <1>2
    <2>2. g[n] = IF s[n] \in S THEN Append(g[n - 1], s[n]) ELSE g[n - 1]
          BY <1>4, <2>1
    <2> QED BY <2>2 DEF Step
  <1>7. Follows(g, s, S, Len(s))
        BY <1>5, <1>6 DEF Follows
  <1> QED BY <1>1, <1>2, <1>7, OneSelection

(* Selected of a list with one more element at its end,                    *)
LEMMA SelectedAppend ==
  ASSUME NEW T, NEW s \in Seq(T), NEW e \in T, NEW S
  PROVE  Selected(Append(s, e), S) =
           IF e \in S THEN Append(Selected(s, S), e) ELSE Selected(s, S)
  <1> DEFINE u == Append(s, e)
  <1>1. /\ u \in Seq(T) /\ Len(u) = Len(s) + 1 /\ Len(s) \in Nat
        /\ \A i \in 1 .. Len(s) : u[i] = s[i]
        /\ u[Len(s) + 1] = e
        BY AppendProperties, LenProperties
  <1> HIDE DEF u
  <1>2. PICK f : Follows(f, u, S, Len(u))
    <2>1. Len(u) \in Nat
          BY <1>1
    <2> QED BY <2>1, SelectionExists
  <1>3. Follows(f, s, S, Len(s))
        BY <1>1, <1>2 DEF Follows
  <1>4. Selected(s, S) = f[Len(s)] /\ Selected(u, S) = f[Len(s) + 1]
        BY <1>1, <1>2, <1>3, SelectedFollows
  <1>5. f[Len(s) + 1] = Step(f[(Len(s) + 1) - 1], e, S)
        BY <1>1, <1>2 DEF Follows
  <1>6. (Len(s) + 1) - 1 = Len(s)
        BY <1>1
  <1> QED BY <1>4, <1>5, <1>6 DEF Step, u

(* and of one whose head is removed.                                       *)
LEMMA SelectedTail ==
  ASSUME NEW T, NEW s \in Seq(T), s # <<>>, NEW S
  PROVE  /\ Selected(Tail(s), S) \in Seq(T)
         /\ Selected(s, S) = IF Head(s) \in S
                             THEN <<Head(s)>> \o Selected(Tail(s), S)
                             ELSE Selected(Tail(s), S)
  <1> DEFINE u == Tail(s)
             k == Len(u)
             x == Head(s)
  <1>1. /\ u \in Seq(T) /\ k \in Nat /\ Len(s) = k + 1 /\ x \in T
        /\ x = s[1] /\ \A i \in 1 .. k : u[i] = s[i + 1] /\ u[i] \in T
        BY HeadTailProperties, LenProperties, HeadOf, ElementOfSeq, ElementsOf
  <1>2. PICK f : Follows(f, s, S, k + 1)
    <2>1. k + 1 \in Nat
          BY <1>1
    <2> QED BY <2>1, SelectionExists
  <1>3. PICK h : Follows(h, u, S, k)
        BY <1>1, SelectionExists
  <1>4. Selected(s, S) = f[k + 1] /\ Selected(u, S) = h[k]
        BY <1>1, <1>2, <1>3, SelectedFollows
  <1> HIDE DEF u, k, x
  <1> DEFINE Good(n) == /\ h[n] \in Seq(T)
                        /\ f[n + 1] = IF x \in S THEN <<x>> \o h[n] ELSE h[n]
             Bad == {n \in 0 .. k : ~Good(n)}
  <1>5. ASSUME Bad # {} PROVE FALSE
    <2>1. PICK n \in Bad : \A j \in Bad : n <= j
      <3>1. Bad \subseteq Nat
            OBVIOUS
      <3> HIDE DEF Bad
      <3> QED BY <1>5, <3>1, MinOfNaturals
    <2>2. n \in 0 .. k /\ ~Good(n)
          BY <2>1
    <2>3. CASE n = 0
      <3>1. h[0] = <<>> /\ f[0] = <<>> /\ f[1] = Step(f[1 - 1], s[1], S)
            BY <1>1, <1>2, <1>3 DEF Follows
      <3>2. f[1] = Step(<<>>, x, S)
            BY <1>1, <3>1
      <3>3. Append(<<>>, x) = <<x>> \o <<>> /\ <<>> \in Seq(T)
            BY <1>1
      <3> QED BY <2>2, <2>3, <3>1, <3>2, <3>3 DEF Step
    <2>4. CASE n # 0
      <3>1. n \in 1 .. k /\ n - 1 \in 0 .. k /\ ~(n <= n - 1)
            BY <1>1, <2>2, <2>4
      <3>2. Good(n - 1) /\ (n - 1) + 1 = n
            BY <2>1, <3>1
      <3>3. PICK q \in Seq(T) : q = h[n - 1]
            BY <3>2
      <3>4. PICK y \in T : y = u[n] /\ y = s[n + 1]
            BY <1>1, <3>1
      <3>5. h[n] = Step(q, y, S)
            BY <1>3, <3>1, <3>3, <3>4 DEF Follows
      <3>6. f[n + 1] = Step(f[n], y, S)
        <4>1. n + 1 \in 1 .. k + 1 /\ (n + 1) - 1 = n
              BY <1>1, <3>1
        <4> QED BY <1>2, <3>4, <4>1 DEF Follows
      <3>7. f[n] = IF x \in S THEN <<x>> \o q ELSE q
            BY <3>2, <3>3
      <3>8. Append(<<x>> \o q, y) = <<x>> \o Append(q, y)
            BY <1>1
      <3>9. h[n] \in Seq(T)
            BY <3>5 DEF Step
      <3>10. f[n + 1] = IF x \in S THEN <<x>> \o h[n] ELSE h[n]
            BY <3>5, <3>6, <3>7, <3>8 DEF Step
      <3> QED BY <2>2, <3>9, <3>10
    <2> QED BY <2>3, <2>4
  <1>6. k \in 0 .. k
        BY <1>1
  <1>7. Good(k)
        BY <1>5, <1>6
  <1> QED BY <1>4, <1>7 DEF u, x

(* Nothing is selected from an empty list.                                 *)
LEMMA SelectedEmpty ==
  ASSUME NEW S
  PROVE  Selected(<<>>, S) = <<>>
  <1>1. <<>> \in Seq(S) /\ Len(<<>>) = 0
        OBVIOUS
  <1>2. PICK f : Follows(f, <<>>, S, 0)
        BY SelectionExists
  <1>3. Selected(<<>>, S) = f[0]
        BY <1>1, <1>2, SelectedFollows
  <1> QED BY <1>2, <1>3 DEF Follows

-----------------------------------------------------------------------------
(* The list of the color of a callback. *)
ListFor(c) == ListOf(ColorOf[c], -ColorOf[c] - 1)

(* A callback is queued in the list of its color, in the segment that      *)
(* cpucb or cpucb_tail uses, at one position.                              *)
Filed ==
  \A l \in Lists, c \in Callbacks :
    /\ c \in ToSet(headSeg[l]) => l = ListFor(c) /\ c \notin AtTail
    /\ c \in ToSet(tailSeg[l]) => l = ListFor(c) /\ c \in AtTail

NoTwice(s) ==
  \A i, j \in 1 .. Len(s) : s[i] = s[j] /\ s[i] \in Callbacks => i = j

FiledOnce == \A l \in Lists : NoTwice(headSeg[l]) /\ NoTwice(tailSeg[l])

(* What register_task is called with.  Once it holds the lock to write in  *)
(* the pipe, the callback is queued at the thread it has locked.           *)
Registers(a) == pc[a] \in {"read", "post", "notify"}

Carried ==
  \A a \in Actors :
    /\ ~Registers(a) => posting[a].cb = "none"
    /\ posting[a].cb \in Callbacks => posting[a] = Posted(posting[a].cb)
    /\ pc[a] = "notify" /\ posting[a].cb \in Callbacks =>
         Queued(posting[a].cb) /\ HomeOf(ListFor(posting[a].cb), dest[a])

(* A thread runs a callback from the list of its color. *)
RunsOwn ==
  \A t \in Threads :
    running[t] \in Callbacks =>
      /\ Executing(t) /\ acolor[t] = ListFor(running[t])
      /\ posting[t].cb # "acheck"

(* A callback is in one place: to be posted, being posted, queued, or      *)
(* running.                                                                *)
ToPost(c) == c \in unposted \cup Unbooted

InOnePlace ==
  \A c \in Callbacks :
    /\ Queued(c) => ~Runs(c) /\ ~ToPost(c)
    /\ Runs(c) => ~ToPost(c)
    /\ c \in unposted => c \notin Unbooted
    /\ \A a \in Actors :
         posting[a].cb = c => /\ ~Runs(c) /\ ~ToPost(c)
                              /\ Queued(c) => pc[a] = "notify"
                              /\ \A b \in Actors : posting[b].cb = c => a = b
    /\ \A t, u \in Threads : running[t] = c /\ running[u] = c => t = u

PlaceInv == Filed /\ FiledOnce /\ Carried /\ RunsOwn /\ InOnePlace

-----------------------------------------------------------------------------
(* What a program sees                                                     *)

ProgramColors == {ColorOf[c] : c \in Callbacks}

(* The polling task, the first callback and none are no callbacks of the   *)
(* program.                                                                *)
LEMMA NoneIsNoCallback ==
  /\ "none" \notin Callbacks /\ "acheck" \notin Callbacks
  /\ "ainit" \notin Callbacks
  /\ Callbacks \subseteq Tasks
  BY SchedulerAssumption DEF SchedulerAssumption, Tasks

(* The list where register_task puts a color (task.lbc.C:419-424).         *)
LEMMA ListForType ==
  ASSUME NEW k \in ProgramColors
  PROVE  /\ ListOf(k, -k - 1) \in Lists
         /\ k < 0 => ListOf(k, -k - 1) = k
         /\ k >= 0 => ListOf(k, -k - 1) = k % MaxColors
  <1>1. k \in Int /\ k >= -NThreads /\ NThreads \in Nat \ {0}
        BY SchedulerAssumption DEF SchedulerAssumption, ProgramColors
  <1>2. CASE k < 0
    <2>1. ListOf(k, -k - 1) = k
          BY <1>1, <1>2 DEF ListOf, NegList
    <2>2. k \in Lists
          BY <1>1, <1>2, SchedulerAssumption DEF SchedulerAssumption, Lists
    <2> QED BY <1>1, <1>2, <2>1, <2>2
  <1>3. CASE k >= 0
    <2>1. ListOf(k, -k - 1) = k % MaxColors /\ ~(k < 0)
          BY <1>1, <1>3 DEF ListOf
    <2>2. k % MaxColors \in Colors
          BY <1>1, SchedulerAssumption, ModRange DEF SchedulerAssumption, Colors
    <2> QED BY <2>1, <2>2, Names
  <1> QED BY <1>1, <1>2, <1>3

(* So every callback of the program has its list.                          *)
LEMMA ListForCallback ==
  ASSUME NEW c \in Callbacks
  PROVE  ListFor(c) \in Lists /\ ColorOf[c] \in ProgramColors
  <1>1. ColorOf[c] \in ProgramColors
        BY DEF ProgramColors
  <1> QED BY <1>1, ListForType DEF ListFor

(* A queued callback is in a segment of a list.                            *)
LEMMA QueuedIn ==
  ASSUME ListsOK, NEW c
  PROVE  Queued(c) <=> \E l \in Lists : \/ c \in ToSet(headSeg[l])
                                        \/ c \in ToSet(tailSeg[l])
  <1>1. ASSUME NEW l \in Lists
        PROVE  /\ Contains(headSeg[l], c) <=> c \in ToSet(headSeg[l])
               /\ Contains(tailSeg[l], c) <=> c \in ToSet(tailSeg[l])
    <2>1. headSeg[l] \in Seq(Tasks) /\ tailSeg[l] \in Seq(Tasks)
          BY DEF ListsOK
    <2> QED BY <2>1, ElementsOf
  <1> QED BY <1>1 DEF Queued

(* A step that changes no status and no queue of callbacks is a stutter.   *)
LEMMA SameView ==
  ASSUME \A c \in Callbacks : StatusOf(c)' = StatusOf(c),
         \A k \in ProgramColors :
           /\ OfColor(headSeg', k) = OfColor(headSeg, k)
           /\ OfColor(tailSeg', k) = OfColor(tailSeg, k)
  PROVE  UNCHANGED Promise!vars
  <1>1. [c \in Callbacks |-> StatusOf(c)]' = [c \in Callbacks |-> StatusOf(c)]
        OBVIOUS
  <1>2. \A k \in ProgramColors :
          /\ OfColor(headSeg, k)' = OfColor(headSeg, k)
          /\ OfColor(tailSeg, k)' = OfColor(tailSeg, k)
        BY DEF OfColor
  <1>3. [k \in ProgramColors |-> OfColor(headSeg, k)]'
          = [k \in ProgramColors |-> OfColor(headSeg, k)]
        BY <1>2 DEF ProgramColors
  <1>4. [k \in ProgramColors |-> OfColor(tailSeg, k)]'
          = [k \in ProgramColors |-> OfColor(tailSeg, k)]
        BY <1>2 DEF ProgramColors
  <1> QED BY <1>1, <1>3, <1>4 DEF Promise!vars, ProgramColors

(* A segment of a list after register_task and when a callback is taken.   *)
Lengthened(seg, new, l, e) ==
  /\ seg \in [Lists -> Seq(Tasks)] /\ l \in Lists /\ e \in Tasks
  /\ e \in Callbacks => l = ListFor(e)
  /\ \A x \in Lists : new[x] = IF x = l THEN Append(seg[l], e) ELSE seg[x]
Shortened(seg, new, l, e) ==
  /\ seg \in [Lists -> Seq(Tasks)] /\ l \in Lists
  /\ seg[l] # <<>> /\ e = Head(seg[l])
  /\ e \in Callbacks => l = ListFor(e)
  /\ \A x \in Lists : new[x] = IF x = l THEN Tail(seg[l]) ELSE seg[x]

(* A callback at the end of a segment comes after those of its color and   *)
(* does not concern the other colors.                                      *)
LEMMA ColorAppend ==
  ASSUME NEW seg, NEW new, NEW l, NEW e, Lengthened(seg, new, l, e),
         NEW k \in ProgramColors
  PROVE  OfColor(new, k) = IF e \in Callbacks /\ ColorOf[e] = k
                           THEN Append(OfColor(seg, k), e) ELSE OfColor(seg, k)
  <1> DEFINE m == ListOf(k, -k - 1)
             S == {c \in Callbacks : ColorOf[c] = k}
  <1>1. m \in Lists /\ l \in Lists
        BY ListForType DEF Lengthened
  <1>2. OfColor(new, k) = Selected(new[m], S)
        /\ OfColor(seg, k) = Selected(seg[m], S)
        BY DEF OfColor
  <1>3. e \in S <=> e \in Callbacks /\ ColorOf[e] = k
        OBVIOUS
  <1>4. e \in S => m = l
        BY <1>3 DEF ListFor, Lengthened
  <1> HIDE DEF m, S
  <1>5. CASE m = l
    <2>1. new[m] = Append(seg[m], e) /\ seg[m] \in Seq(Tasks) /\ e \in Tasks
          BY <1>1, <1>5 DEF Lengthened
    <2>2. Selected(new[m], S) = IF e \in S THEN Append(Selected(seg[m], S), e)
                                ELSE Selected(seg[m], S)
      <3>1. ASSUME NEW q \in Seq(Tasks)
            PROVE  Selected(Append(q, e), S) =
                     IF e \in S THEN Append(Selected(q, S), e)
                     ELSE Selected(q, S)
            BY <2>1, SelectedAppend
      <3> QED BY <2>1, <3>1
    <2> QED BY <1>2, <1>3, <2>2
  <1>6. CASE m # l
    <2>1. new[m] = seg[m]
          BY <1>1, <1>6 DEF Lengthened
    <2> QED BY <1>2, <1>3, <1>4, <1>6, <2>1
  <1> QED BY <1>5, <1>6

(* The first callback of a segment is the first of its color.              *)
LEMMA ColorTail ==
  ASSUME NEW seg, NEW new, NEW l, NEW e, Shortened(seg, new, l, e),
         NEW k \in ProgramColors
  PROVE  /\ e \in Callbacks /\ ColorOf[e] = k =>
              /\ OfColor(seg, k) # <<>> /\ Head(OfColor(seg, k)) = e
              /\ OfColor(new, k) = Tail(OfColor(seg, k))
         /\ ~(e \in Callbacks /\ ColorOf[e] = k) =>
              OfColor(new, k) = OfColor(seg, k)
  <1> DEFINE m == ListOf(k, -k - 1)
             S == {c \in Callbacks : ColorOf[c] = k}
  <1>1. m \in Lists /\ l \in Lists
        BY ListForType DEF Shortened
  <1>2. OfColor(new, k) = Selected(new[m], S)
        /\ OfColor(seg, k) = Selected(seg[m], S)
        BY DEF OfColor
  <1>3. e \in S <=> e \in Callbacks /\ ColorOf[e] = k
        OBVIOUS
  <1>4. e \in S => m = l
        BY <1>3 DEF ListFor, Shortened
  <1> HIDE DEF m, S
  <1>5. CASE m = l
    <2>1. /\ new[m] = Tail(seg[m]) /\ seg[m] \in Seq(Tasks)
          /\ seg[m] # <<>> /\ e = Head(seg[m])
          BY <1>1, <1>5 DEF Shortened
    <2>2. PICK q \in Seq(Tasks) : q = Selected(new[m], S)
          BY <2>1, SelectedTail
    <2>3. Selected(seg[m], S) = IF e \in S THEN <<e>> \o q ELSE q
      <3>1. ASSUME NEW s \in Seq(Tasks), s # <<>>
            PROVE  Selected(s, S) = IF Head(s) \in S
                                    THEN <<Head(s)>> \o Selected(Tail(s), S)
                                    ELSE Selected(Tail(s), S)
            BY <3>1, SelectedTail
      <3>2. Selected(seg[m], S) =
              IF Head(seg[m]) \in S
              THEN <<Head(seg[m])>> \o Selected(Tail(seg[m]), S)
              ELSE Selected(Tail(seg[m]), S)
            BY <2>1, <3>1
      <3> QED BY <2>1, <2>2, <3>2
    <2>4. /\ <<e>> \o q # <<>> /\ Head(<<e>> \o q) = e
          /\ Tail(<<e>> \o q) = q
      <3>1. e \in Tasks
            BY <1>5, <2>1, HeadOf, ElementsOf DEF Shortened
      <3> QED BY <3>1
    <2> QED BY <1>2, <1>3, <2>2, <2>3, <2>4
  <1>6. CASE m # l
    <2>1. new[m] = seg[m]
          BY <1>1, <1>6 DEF Shortened
    <2> QED BY <1>2, <1>3, <1>4, <1>6, <2>1
  <1> QED BY <1>5, <1>6

-----------------------------------------------------------------------------
(* Steps that a program does not see                                       *)

(* A step that queues and posts nothing, starts no callback and ends none.  *)
LEMMA QuietPlace ==
  ASSUME PlaceInv,
         UNCHANGED <<headSeg, tailSeg, posting, unposted, booted>>,
         \A t \in Threads : \/ running'[t] = running[t]
                            \/ /\ running[t] \notin Callbacks
                               /\ running'[t] \notin Callbacks,
         \A a \in Actors :
           /\ Registers(a)' <=> Registers(a)
           /\ pc'[a] = "notify" <=> pc[a] = "notify"
           /\ pc[a] = "notify" =>
                /\ dest'[a] = dest[a]
                /\ \A l \in Lists : HomeOf(l, dest[a]) => HomeOf(l, dest[a])',
         \A t \in Threads :
           running[t] \in Callbacks => Executing(t)' /\ acolor'[t] = acolor[t]
  PROVE  PlaceInv' /\ UNCHANGED Promise!vars
  <1> USE DEF PlaceInv
  <1>1. \A c \in Callbacks : /\ Queued(c)' <=> Queued(c)
                             /\ Runs(c)' <=> Runs(c)
                             /\ ToPost(c)' <=> ToPost(c)
        BY DEF Queued, Runs, ToPost, Unbooted
  <1>2. Filed' /\ FiledOnce'
        BY DEF Filed, FiledOnce, NoTwice
  <1>3. Carried'
    <2> SUFFICES ASSUME NEW a \in Actors
                 PROVE  /\ ~Registers(a) => posting[a].cb = "none"
                        /\ posting[a].cb \in Callbacks =>
                             posting[a] = Posted(posting[a].cb)
                        /\ pc[a] = "notify" /\ posting[a].cb \in Callbacks =>
                             /\ Queued(posting[a].cb)
                             /\ HomeOf(ListFor(posting[a].cb), dest[a])'
        BY <1>1 DEF Carried, HomeOf
    <2> QED BY ListForCallback DEF Carried
  <1>4. \A t \in Threads, c \in Callbacks :
          running'[t] = c <=> running[t] = c
        OBVIOUS
  <1>5. RunsOwn'
    <2> SUFFICES ASSUME NEW t \in Threads, running'[t] \in Callbacks
                 PROVE  /\ Executing(t)' /\ posting'[t].cb # "acheck"
                        /\ acolor'[t] = ListFor(running'[t])
        BY DEF RunsOwn, ListFor
    <2>1. running[t] = running'[t]
          BY <1>4
    <2> QED BY <2>1 DEF RunsOwn
  <1>6. InOnePlace'
    <2> SUFFICES ASSUME NEW c \in Callbacks
        PROVE /\ Queued(c) => ~Runs(c) /\ ~ToPost(c)
              /\ Runs(c) => ~ToPost(c)
              /\ c \in unposted => c \notin Unbooted
              /\ \A a \in Actors :
                   posting[a].cb = c => /\ ~Runs(c) /\ ~ToPost(c)
                                        /\ Queued(c) => pc'[a] = "notify"
                                        /\ \A b \in Actors :
                                             posting[b].cb = c => a = b
              /\ \A t, u \in Threads : running'[t] = c /\ running'[u] = c
                                         => t = u
        BY <1>1 DEF InOnePlace, Unbooted
    <2> QED BY <1>4 DEF InOnePlace
  <1>7. \A c \in Callbacks : StatusOf(c)' = StatusOf(c)
        BY <1>1 DEF StatusOf, ToPost
  <1>8. UNCHANGED Promise!vars
        BY <1>7, SameView
  <1> QED BY <1>2, <1>3, <1>5, <1>6, <1>8

(* The two reads of COLOR_TO_QUEUE.                                        *)
LEMMA ReadPlace ==
  ASSUME TypeInv, PlaceInv, NEW a \in Actors, ReadOwner(a) \/ RetryPost(a)
  PROVE  PlaceInv' /\ UNCHANGED Promise!vars
  <1>1. /\ pc[a] \in {"read", "post"} /\ pc'[a] \in {"read", "post"}
        /\ \A b \in Actors : b # a => pc'[b] = pc[b] /\ dest'[b] = dest[b]
        /\ UNCHANGED <<headSeg, tailSeg, posting, unposted, booted, running,
                       queueOf, acolor>>
        BY DEF ReadOwner, RetryPost, listVars, bootVars, TypeInv, TypeOK,
               ControlOK
  <1>2. \A b \in Actors : /\ Registers(b)' <=> Registers(b)
                          /\ pc'[b] = "notify" <=> pc[b] = "notify"
                          /\ pc[b] = "notify" => dest'[b] = dest[b]
        BY <1>1 DEF Registers
  <1>3. \A t \in Threads : Executing(t) => Executing(t)'
        BY <1>1, Names DEF Executing
  <1> QED BY <1>1, <1>2, <1>3, QuietPlace DEF HomeOf, PlaceInv, RunsOwn

(* A step of the loop of a thread, or of steal_work, before it takes a     *)
(* callback: a thief gives and takes lists that no poster has locked.      *)
LEMMA LoopPlace ==
  ASSUME SafeInv, CalmInv, PlaceInv, NEW t \in Threads,
         \/ BeginSteal(t) \/ StealSteps(t)
         \/ EndCallback(t) /\ running[t] \notin Callbacks
  PROVE  PlaceInv' /\ UNCHANGED Promise!vars
  <1>0. TypeInv /\ t \in Actors
        BY Names DEF SafeInv
  <1>1. /\ pc'[t] \notin {"run", "read", "post", "notify"}
        /\ pc[t] \notin {"read", "post", "notify"}
        /\ \A b \in Actors : b # t => pc'[b] = pc[b]
    <2>1. pc[t] \notin {"read", "post", "notify"}
          BY DEF BeginSteal, EndCallback, StealSteps, CheckVictim, LockVictim,
                 StealColor, LeaveVictim, Relock, InsertStolen
    <2> QED BY <1>0, <2>1, LoopControl
  <1>2. UNCHANGED <<headSeg, tailSeg, posting, unposted, booted, dest, acolor>>
        BY DEF BeginSteal, EndCallback, StealSteps, CheckVictim, LockVictim,
               StealColor, LeaveVictim, Relock, InsertStolen, listVars,
               postVars, bootVars
  <1>3. running[t] \notin Callbacks
    <2>1. CASE EndCallback(t) /\ running[t] \notin Callbacks
          BY <2>1
    <2>2. CASE BeginSteal(t) \/ StealSteps(t)
      <3>1. ~Executing(t)
            BY <2>2
            DEF BeginSteal, StealSteps, CheckVictim, LockVictim, StealColor,
                LeaveVictim, Relock, InsertStolen, Executing
      <3> QED BY <3>1 DEF PlaceInv, RunsOwn
    <2> QED BY <2>1, <2>2
  <1>4. \/ running' = running
        \/ running' = [running EXCEPT ![t] = "none"]
        BY DEF BeginSteal, EndCallback, StealSteps, CheckVictim, LockVictim,
               StealColor, LeaveVictim, Relock, InsertStolen
  <1>5. \A u \in Threads : \/ running'[u] = running[u]
                           \/ /\ running[u] \notin Callbacks
                              /\ running'[u] \notin Callbacks
        BY <1>0, <1>3, <1>4, NoneIsNoCallback DEF TypeInv, TypeOK, ControlOK
  <1>6. \A b \in Actors : /\ Registers(b)' <=> Registers(b)
                          /\ pc'[b] = "notify" <=> pc[b] = "notify"
        BY <1>1 DEF Registers
  <1>7. \A u \in Threads : running[u] \in Callbacks => Executing(u)'
        BY <1>1, <1>3, Names DEF PlaceInv, RunsOwn, Executing
  <1>8. ASSUME NEW b \in Actors, pc[b] = "notify", NEW l \in Lists,
               HomeOf(l, dest[b])
        PROVE  HomeOf(l, dest[b])'
    <2>1. dest[b] \in Threads /\ mu[dest[b]] = b /\ dest[b] # Nobody
          BY <1>0, <1>8, Names DEF TypeInv, PostOK, CalmInv, Holding
    <2>2. CASE queueOf' = queueOf
          BY <1>2, <1>8, <2>2 DEF HomeOf
    <2>3. CASE StealColor(t)
      <3>1. PICK v, m : v = victim[t] /\ m = stealList[v][Min(Stealable(v))]
            OBVIOUS
      <3>2. /\ v \in Threads /\ mu[v] = t /\ m \in ToSet(stealList[v])
            /\ m \in Lists
        <4>1. v \in Threads /\ Stealable(v) # {} /\ mu[v] = t
              BY <1>0, <2>3, <3>1
              DEF StealColor, TypeInv, TypeOK, ControlOK, CalmInv, Holding
        <4> QED BY <1>0, <3>1, <4>1, StolenList DEF TypeInv, TypeOK
      <3>3. HomeOf(m, v)
            BY <3>2 DEF SafeInv, ListInv, StealIn, AtHome
      <3>4. queueOf' = queueOf \/ queueOf' = [queueOf EXCEPT ![m] = Nobody]
            BY <2>3, <3>1 DEF StealColor
      <3>5. l # m
        <4>1. v # dest[b]
              BY <1>1, <1>8, <2>1, <3>2
        <4> QED BY <1>8, <2>1, <3>2, <3>3, <4>1, HomeIsOne
      <3>6. queueOf'[l] = queueOf[l] \/ l < 0
        <4>1. l \in Colors \/ l < 0
              BY Names
        <4> QED BY <1>0, <3>4, <3>5, <4>1 DEF TypeInv, TypeOK, ListsOK
      <3> QED BY <1>2, <1>8, <3>6 DEF HomeOf
    <2>4. CASE InsertStolen(t)
      <3>1. PICK m : m = Head(loot[t])
            OBVIOUS
      <3>2. m \in ToSet(loot[t]) /\ m \in Colors
        <4>1. loot[t] \in Seq(Colors) /\ loot[t] # <<>>
              BY <1>0, <2>4 DEF InsertStolen, TypeInv, TypeOK, ListsOK
        <4> QED BY <3>1, <4>1, HeadOf, ElementsOf
      <3>3. queueOf[m] = Nobody
            BY <3>2 DEF SafeInv, ListInv, Looted
      <3>4. queueOf' = [queueOf EXCEPT ![m] = t]
            BY <2>4, <3>1 DEF InsertStolen
      <3> QED BY <1>0, <1>2, <1>8, <2>1, <3>3, <3>4
              DEF HomeOf, TypeInv, TypeOK, ListsOK
    <2> QED BY <2>2, <2>3, <2>4
            DEF BeginSteal, EndCallback, StealSteps, CheckVictim, LockVictim,
                LeaveVictim, Relock
  <1> QED BY <1>2, <1>5, <1>6, <1>7, <1>8, QuietPlace

(* The steps of acheck_task and ainit in the wait.                         *)
LEMMA PollPlace ==
  ASSUME PlaceInv, NEW t \in Threads, Poll(t) \/ Event(t)
  PROVE  PlaceInv' /\ UNCHANGED Promise!vars
  <1>1. UNCHANGED <<headSeg, tailSeg, posting, unposted, booted, running, pc,
                    dest, queueOf, acolor>>
        BY DEF Poll, Event, listVars, postVars, bootVars
  <1> QED BY <1>1, QuietPlace
          DEF HomeOf, PlaceInv, RunsOwn, Registers, Executing

(* task_go, before which no thread runs.                                   *)
LEMMA TaskGoPlace ==
  ASSUME SafeInv, PlaceInv, TaskGo
  PROVE  PlaceInv' /\ UNCHANGED Promise!vars
  <1>1. UNCHANGED <<headSeg, tailSeg, posting, unposted, booted, running,
                    dest, queueOf>>
        BY DEF TaskGo, listVars, postVars, bootVars
  <1>2. pc[Main] = "run" /\ \A t \in Threads : pc[t] = "off"
        BY DEF TaskGo, SafeInv, FlowInv, Starting
  <1>3. \A a \in Actors : /\ pc[a] \in {"run", "off"}
                          /\ pc'[a] \in {"join", "loop"}
        BY <1>2, Names DEF TaskGo
  <1>4. \A t \in Threads : running[t] \notin Callbacks
        BY <1>2 DEF PlaceInv, RunsOwn, Executing
  <1>5. \A a \in Actors : /\ Registers(a)' <=> Registers(a)
                          /\ pc'[a] = "notify" <=> pc[a] = "notify"
                          /\ pc[a] # "notify"
        BY <1>3 DEF Registers
  <1> QED BY <1>1, <1>4, <1>5, QuietPlace

-----------------------------------------------------------------------------
(* The call of register_task *)

(* A callback to be posted becomes the one its poster registers: it was    *)
(* idle and stays so until it is queued.                                   *)
LEMMA BeginPlace ==
  ASSUME TypeInv, PlaceInv, NEW a \in Actors, NEW p, BeginPost(a, p),
         pc[a] = "run",
         UNCHANGED <<headSeg, tailSeg, running, acolor, queueOf>>,
         p.cb \in Callbacks => p = Posted(p.cb) /\ ToPost(p.cb),
         p.cb = "acheck" /\ a \in Threads => running[a] \notin Callbacks,
         \A c \in Callbacks : /\ ToPost(c)' <=> ToPost(c) /\ c # p.cb
                              /\ c \in unposted' => c \notin Unbooted'
  PROVE  PlaceInv' /\ UNCHANGED Promise!vars
  <1> USE DEF PlaceInv
  <1>1. /\ pc'[a] \in {"read", "post"} /\ posting'[a] = p
        /\ \A b \in Actors : b # a => /\ pc'[b] = pc[b]
                                      /\ posting'[b] = posting[b]
                                      /\ dest'[b] = dest[b]
        BY DEF BeginPost, TypeInv, TypeOK, ControlOK
  <1>2. posting[a].cb = "none" /\ posting[a].cb \notin Callbacks
        BY NoneIsNoCallback DEF Carried, Registers
  <1>3. \A c \in Callbacks : /\ Queued(c)' <=> Queued(c)
                             /\ Runs(c)' <=> Runs(c)
        BY DEF Queued, Runs
  <1>4. Filed' /\ FiledOnce'
        BY DEF Filed, FiledOnce, NoTwice
  <1>5. Carried'
    <2> SUFFICES ASSUME NEW b \in Actors
                 PROVE  /\ ~Registers(b)' => posting'[b].cb = "none"
                        /\ posting'[b].cb \in Callbacks =>
                             posting'[b] = Posted(posting'[b].cb)
                        /\ pc'[b] = "notify" /\ posting'[b].cb \in Callbacks =>
                             /\ Queued(posting'[b].cb)
                             /\ HomeOf(ListFor(posting'[b].cb), dest'[b])
        BY <1>3 DEF Carried, HomeOf, ListFor
    <2>1. CASE b = a
          BY <1>1, <2>1 DEF Registers
    <2>2. CASE b # a
          BY <1>1, <2>2 DEF Registers, Carried
    <2> QED BY <2>1, <2>2
  <1>6. RunsOwn'
    <2> SUFFICES ASSUME NEW t \in Threads, running[t] \in Callbacks
                 PROVE  /\ Executing(t)' /\ posting'[t].cb # "acheck"
                        /\ acolor[t] = ListFor(running[t])
        BY DEF RunsOwn, ListFor
    <2>1. CASE t = a
          BY <1>1, <2>1 DEF RunsOwn, Executing
    <2>2. CASE t # a
          BY <1>1, <2>2, Names DEF RunsOwn, Executing
    <2> QED BY <2>1, <2>2
  <1>7. InOnePlace'
    <2> SUFFICES ASSUME NEW c \in Callbacks
        PROVE /\ Queued(c) => ~Runs(c) /\ ~ToPost(c)'
              /\ Runs(c) => ~ToPost(c)'
              /\ \A b \in Actors :
                   posting'[b].cb = c => /\ ~Runs(c) /\ ~ToPost(c)'
                                         /\ Queued(c) => pc'[b] = "notify"
                                         /\ \A o \in Actors :
                                              posting'[o].cb = c => b = o
              /\ \A t, u \in Threads : running[t] = c /\ running[u] = c
                                         => t = u
        BY <1>3 DEF InOnePlace
    <2>1. CASE c = p.cb
      <3>1. ToPost(c) /\ ~Queued(c) /\ ~Runs(c)
            BY <2>1 DEF InOnePlace
      <3>2. \A b \in Actors : posting[b].cb # c
            BY <3>1 DEF InOnePlace
      <3> QED BY <1>1, <2>1, <3>1, <3>2 DEF InOnePlace
    <2>2. CASE c # p.cb
      <3>1. \A b \in Actors : posting'[b].cb = c =>
              posting[b].cb = c /\ pc'[b] = pc[b]
            BY <1>1, <2>2
      <3>2. ToPost(c)' <=> ToPost(c)
            BY <2>2
      <3> QED BY <3>1, <3>2 DEF InOnePlace
    <2> QED BY <2>1, <2>2
  <1>8. ASSUME NEW c \in Callbacks PROVE StatusOf(c)' = StatusOf(c)
    <2>1. (ToPost(c) \/ \E b \in Actors : posting[b].cb = c)' <=>
             ToPost(c) \/ \E b \in Actors : posting[b].cb = c
          BY <1>1, <1>2
    <2> QED BY <1>3, <2>1 DEF StatusOf, ToPost
  <1>9. UNCHANGED Promise!vars
        BY <1>8, SameView
  <1> QED BY <1>4, <1>5, <1>6, <1>7, <1>9

(* A program starts a post.                                                *)
LEMMA PostPlace ==
  ASSUME TypeInv, PlaceInv, NEW t \in Threads, NEW c \in Callbacks, Post(t, c)
  PROVE  PlaceInv' /\ UNCHANGED Promise!vars
  <1>1. /\ BeginPost(t, Posted(c)) /\ pc[t] = "run" /\ c \in unposted
        /\ unposted' = unposted \ {c} /\ booted' = booted
        /\ UNCHANGED <<headSeg, tailSeg, running, acolor, queueOf>>
        BY DEF Post, listVars
  <1>2. Posted(c).cb = c
        BY DEF Posted
  <1>3. \A x \in Callbacks : x \in unposted => x \notin Unbooted
        BY DEF PlaceInv, InOnePlace
  <1>4. Unbooted' = Unbooted
        BY <1>1 DEF Unbooted
  <1> QED BY <1>1, <1>2, <1>3, <1>4, BeginPlace, Names, NoneIsNoCallback
          DEF ToPost

(* acheck_task posts itself again: no callback of the program moves.       *)
LEMMA RepostPlace ==
  ASSUME TypeInv, PlaceInv, NEW t \in Threads, Repost(t)
  PROVE  PlaceInv' /\ UNCHANGED Promise!vars
  <1>1. PICK p : /\ BeginPost(t, p) /\ p.cb = "acheck"
        BY DEF Repost
  <1>2. /\ pc[t] = "run" /\ running[t] = "acheck"
        /\ UNCHANGED <<headSeg, tailSeg, running, acolor, queueOf, unposted,
                       booted>>
        BY DEF Repost, listVars, bootVars
  <1>3. Unbooted' = Unbooted
        BY <1>2 DEF Unbooted
  <1> QED BY <1>1, <1>2, <1>3, BeginPlace, Names, NoneIsNoCallback
          DEF ToPost, PlaceInv, InOnePlace

(* amain starts the next post of the program, or of a polling task.        *)
LEMMA BootPostPlace ==
  ASSUME TypeInv, PlaceInv, BootPost
  PROVE  PlaceInv' /\ UNCHANGED Promise!vars
  <1> DEFINE n == booted + 1
             k == Len(BootProgram)
             p == BootCallback(n)
  <1>1. /\ BeginPost(Main, p) /\ pc[Main] = "run" /\ booted' = booted + 1
        /\ UNCHANGED <<headSeg, tailSeg, running, acolor, queueOf, unposted>>
        BY DEF BootPost, listVars
  <1>2. /\ BootProgram \in Seq(Callbacks) /\ k \in Nat
        /\ \A i, j \in 1 .. k : BootProgram[i] = BootProgram[j] => i = j
        /\ \A i \in 1 .. k : BootProgram[i] \in Callbacks
        /\ booted \in Nat /\ n \in Nat
    <2>1. BootProgram \in Seq(Callbacks) /\ IsInjective(BootProgram)
          BY SchedulerAssumption DEF SchedulerAssumption
    <2>2. NbBoot \in Int /\ booted \in 0 .. NbBoot
      <3>1. k \in Nat /\ NThreads \in Nat
            BY <2>1, ElementsOf, SchedulerAssumption DEF SchedulerAssumption
      <3> QED BY <3>1 DEF NbBoot, TypeInv, TypeOK, ControlOK
    <2> QED BY <2>1, <2>2, ElementsOf
  <1>3. Unbooted = {BootProgram[i] : i \in n .. k}
        /\ Unbooted' = {BootProgram[i] : i \in n + 1 .. k}
        BY <1>1 DEF Unbooted
  <1>4. CASE n <= k
    <2>1. p = Posted(BootProgram[n]) /\ p.cb = BootProgram[n] /\ n \in 1 .. k
          BY <1>2, <1>4 DEF BootCallback, Posted
    <2>2. \A c \in Callbacks : c \in Unbooted' <=> c \in Unbooted /\ c # p.cb
      <3> TAKE c \in Callbacks
      <3>1. ASSUME c \in Unbooted' PROVE c \in Unbooted /\ c # p.cb
        <4>1. PICK i \in n + 1 .. k : c = BootProgram[i]
              BY <1>3, <3>1
        <4>2. i \in n .. k /\ i \in 1 .. k /\ i # n
              BY <1>2, <4>1
        <4> QED BY <1>2, <1>3, <2>1, <4>1, <4>2
      <3>2. ASSUME c \in Unbooted, c # p.cb PROVE c \in Unbooted'
        <4>1. PICK i \in n .. k : c = BootProgram[i]
              BY <1>3, <3>2
        <4>2. i # n
              BY <2>1, <3>2, <4>1
        <4>3. i \in n + 1 .. k
              BY <1>2, <4>1, <4>2
        <4> QED BY <1>3, <4>1, <4>3
      <3> QED BY <3>1, <3>2
    <2>3. p.cb \in Unbooted /\ p.cb \in Callbacks
      <3>1. n \in n .. k
            BY <1>2, <1>4
      <3> QED BY <1>2, <1>3, <2>1, <3>1
    <2>4. p.cb \notin unposted /\ \A c \in Callbacks :
            c \in unposted => c \notin Unbooted
          BY <2>3 DEF PlaceInv, InOnePlace
    <2> HIDE DEF p
    <2>5. \A c \in Callbacks : /\ ToPost(c)' <=> ToPost(c) /\ c # p.cb
                               /\ c \in unposted' => c \notin Unbooted'
          BY <1>1, <2>2, <2>4 DEF ToPost
    <2> QED BY <1>1, <2>1, <2>3, <2>5, BeginPlace, Names, NoneIsNoCallback
            DEF ToPost
  <1>5. CASE ~(n <= k)
    <2>1. p.cb \in {"ainit", "acheck"}
      <3>1. ~(n - k - 1 < 0)
            BY <1>2, <1>5
      <3> QED BY <3>1 DEF BootCallback
    <2>2. Unbooted = {} /\ Unbooted' = {}
          BY <1>2, <1>3, <1>5
    <2> HIDE DEF p
    <2> QED BY <1>1, <2>1, <2>2, BeginPlace, Names, NoneIsNoCallback
            DEF ToPost
  <1> QED BY <1>4, <1>5

-----------------------------------------------------------------------------
(* What the promised steps do to the view of a program *)

(* The view after a post, *)
LEMMA PromisedPost ==
  ASSUME NEW c \in Callbacks,
         StatusOf(c) = "idle", StatusOf(c)' = "queued",
         \A x \in Callbacks : x # c => StatusOf(x)' = StatusOf(x),
         \A k \in ProgramColors :
           /\ OfColor(headSeg', k) =
                IF k = ColorOf[c] /\ c \notin AtTail
                THEN Append(OfColor(headSeg, k), c) ELSE OfColor(headSeg, k)
           /\ OfColor(tailSeg', k) =
                IF k = ColorOf[c] /\ c \in AtTail
                THEN Append(OfColor(tailSeg, k), c) ELSE OfColor(tailSeg, k)
  PROVE  Promise!Post(c)
  <1>1. \A k \in ProgramColors :
          /\ OfColor(headSeg, k)' = OfColor(headSeg', k)
          /\ OfColor(tailSeg, k)' = OfColor(tailSeg', k)
        BY DEF OfColor
  <1>2. [x \in Callbacks |-> StatusOf(x)]'
          = [[x \in Callbacks |-> StatusOf(x)] EXCEPT ![c] = "queued"]
        OBVIOUS
  <1>3. ColorOf[c] \in ProgramColors
        BY DEF ProgramColors
  <1>4. IF c \in AtTail
        THEN /\ [k \in ProgramColors |-> OfColor(tailSeg, k)]' =
                  [[k \in ProgramColors |-> OfColor(tailSeg, k)]
                     EXCEPT ![ColorOf[c]] = Append(@, c)]
             /\ [k \in ProgramColors |-> OfColor(headSeg, k)]' =
                  [k \in ProgramColors |-> OfColor(headSeg, k)]
        ELSE /\ [k \in ProgramColors |-> OfColor(headSeg, k)]' =
                  [[k \in ProgramColors |-> OfColor(headSeg, k)]
                     EXCEPT ![ColorOf[c]] = Append(@, c)]
             /\ [k \in ProgramColors |-> OfColor(tailSeg, k)]' =
                  [k \in ProgramColors |-> OfColor(tailSeg, k)]
    <2>1. ProgramColors' = ProgramColors
          BY DEF ProgramColors
    <2>2. CASE c \in AtTail
          BY <1>1, <1>3, <2>1, <2>2
    <2>3. CASE c \notin AtTail
          BY <1>1, <1>3, <2>1, <2>3
    <2> QED BY <2>2, <2>3
  <1> QED BY <1>2, <1>4 DEF Promise!Post, ProgramColors

(* after a start,                                                          *)
LEMMA PromisedStart ==
  ASSUME NEW c \in Callbacks, NEW atHead \in BOOLEAN,
         StatusOf(c)' = "running",
         \A x \in Callbacks : StatusOf(x) = "running" => ColorOf[x] # ColorOf[c],
         \A x \in Callbacks : x # c => StatusOf(x)' = StatusOf(x),
         IF atHead
         THEN /\ OfColor(headSeg, ColorOf[c]) # <<>>
              /\ Head(OfColor(headSeg, ColorOf[c])) = c
         ELSE /\ OfColor(headSeg, ColorOf[c]) = <<>>
              /\ OfColor(tailSeg, ColorOf[c]) # <<>>
              /\ Head(OfColor(tailSeg, ColorOf[c])) = c,
         \A k \in ProgramColors :
           /\ OfColor(headSeg', k) =
                IF k = ColorOf[c] /\ atHead
                THEN Tail(OfColor(headSeg, k)) ELSE OfColor(headSeg, k)
           /\ OfColor(tailSeg', k) =
                IF k = ColorOf[c] /\ ~atHead
                THEN Tail(OfColor(tailSeg, k)) ELSE OfColor(tailSeg, k)
  PROVE  Promise!Start(c)
  <1>1. \A k \in ProgramColors :
          /\ OfColor(headSeg, k)' = OfColor(headSeg', k)
          /\ OfColor(tailSeg, k)' = OfColor(tailSeg', k)
        BY DEF OfColor
  <1>2. [x \in Callbacks |-> StatusOf(x)]'
          = [[x \in Callbacks |-> StatusOf(x)] EXCEPT ![c] = "running"]
        OBVIOUS
  <1>3. ColorOf[c] \in ProgramColors /\ ProgramColors' = ProgramColors
        BY DEF ProgramColors
  <1> DEFINE first == [k \in ProgramColors |-> OfColor(headSeg, k)]
             next  == [k \in ProgramColors |-> OfColor(tailSeg, k)]
  <1>4. /\ first[ColorOf[c]] = OfColor(headSeg, ColorOf[c])
        /\ next[ColorOf[c]] = OfColor(tailSeg, ColorOf[c])
        BY <1>3
  <1>5. \/ /\ first[ColorOf[c]] # <<>> /\ c = Head(first[ColorOf[c]])
           /\ first' = [first EXCEPT ![ColorOf[c]] = Tail(@)] /\ next' = next
        \/ /\ first[ColorOf[c]] = <<>> /\ next[ColorOf[c]] # <<>>
           /\ c = Head(next[ColorOf[c]])
           /\ next' = [next EXCEPT ![ColorOf[c]] = Tail(@)] /\ first' = first
    <2>1. CASE atHead
      <3>1. first' = [first EXCEPT ![ColorOf[c]] = Tail(@)] /\ next' = next
            BY <1>1, <1>3, <2>1
      <3> QED BY <1>4, <2>1, <3>1
    <2>2. CASE ~atHead
      <3>1. next' = [next EXCEPT ![ColorOf[c]] = Tail(@)] /\ first' = first
            BY <1>1, <1>3, <2>2
      <3> QED BY <1>4, <2>2, <3>1
    <2> QED BY <2>1, <2>2
  <1>6. \A d \in Callbacks :
          [x \in Callbacks |-> StatusOf(x)][d] = "running" =>
            ColorOf[d] # ColorOf[c]
        OBVIOUS
  <1> QED BY <1>2, <1>5, <1>6 DEF Promise!Start, ProgramColors

(* and after a callback returned.                                          *)
LEMMA PromisedFinish ==
  ASSUME NEW c \in Callbacks,
         StatusOf(c) = "running", StatusOf(c)' = "done",
         \A x \in Callbacks : x # c => StatusOf(x)' = StatusOf(x),
         UNCHANGED <<headSeg, tailSeg>>
  PROVE  Promise!Finish(c)
  <1>1. \A k \in ProgramColors : /\ OfColor(headSeg, k)' = OfColor(headSeg, k)
                                 /\ OfColor(tailSeg, k)' = OfColor(tailSeg, k)
        BY DEF OfColor
  <1>2. [x \in Callbacks |-> StatusOf(x)]'
          = [[x \in Callbacks |-> StatusOf(x)] EXCEPT ![c] = "done"]
        OBVIOUS
  <1>3. /\ [k \in ProgramColors |-> OfColor(headSeg, k)]'
             = [k \in ProgramColors |-> OfColor(headSeg, k)]
        /\ [k \in ProgramColors |-> OfColor(tailSeg, k)]'
             = [k \in ProgramColors |-> OfColor(tailSeg, k)]
        BY <1>1 DEF ProgramColors
  <1> QED BY <1>2, <1>3 DEF Promise!Finish, ProgramColors

-----------------------------------------------------------------------------
(* The end of register_task *)

(* An actor that ended a post posts nothing any more, and runs or loops. *)
LEMMA EndedPost ==
  ASSUME TypeInv, NEW a \in Actors, EndPost(a)
  PROVE  /\ posting' = [posting EXCEPT ![a] = Post0]
         /\ posting'[a].cb = "none"
         /\ pc'[a] \in {"run", "loop"}
         /\ \A b \in Actors : b # a => /\ pc'[b] = pc[b]
                                       /\ posting'[b] = posting[b]
                                       /\ dest'[b] = dest[b]
         /\ \A t \in Threads :
              \/ running'[t] = running[t] /\ (t = a => pc'[t] = "run")
              \/ t = a /\ posting[a].cb = "acheck" /\ running'[t] = "none"
  <1>1. /\ posting' = [posting EXCEPT ![a] = Post0]
        /\ dest' = [dest EXCEPT ![a] = Nobody]
        /\ \/ /\ pc' = [pc EXCEPT ![a] = "run"] /\ running' = running
           \/ /\ pc' = [pc EXCEPT ![a] = "loop"] /\ posting[a].cb = "acheck"
              /\ running' = [running EXCEPT ![a] = "none"]
        BY DEF EndPost
  <1>2. posting'[a].cb = "none" /\ pc'[a] \in {"run", "loop"}
        BY <1>1 DEF Post0, TypeInv, TypeOK, ControlOK
  <1>3. \A b \in Actors : b # a => /\ pc'[b] = pc[b]
                                   /\ posting'[b] = posting[b]
                                   /\ dest'[b] = dest[b]
        BY <1>1 DEF TypeInv, TypeOK, ControlOK
  <1>4. \A t \in Threads :
          \/ running'[t] = running[t] /\ (t = a => pc'[t] = "run")
          \/ t = a /\ posting[a].cb = "acheck" /\ running'[t] = "none"
    <2> TAKE t \in Threads
    <2>1. CASE pc' = [pc EXCEPT ![a] = "run"] /\ running' = running
          BY <2>1 DEF TypeInv, TypeOK, ControlOK
    <2>2. CASE /\ pc' = [pc EXCEPT ![a] = "loop"] /\ posting[a].cb = "acheck"
               /\ running' = [running EXCEPT ![a] = "none"]
          BY <2>2 DEF TypeInv, TypeOK, ControlOK
    <2> QED BY <1>1, <2>1, <2>2
  <1> QED BY <1>1, <1>2, <1>3, <1>4

(* A call of register_task leaves the callbacks that run, and forgets the  *)
(* one it queued unless it still has to write in a pipe.                   *)
Forgets(a) ==
  /\ UNCHANGED <<queueOf, acolor, unposted, booted>>
  /\ \A b \in Actors : b # a => /\ pc'[b] = pc[b]
                                /\ posting'[b] = posting[b]
                                /\ dest'[b] = dest[b]
  /\ \/ pc'[a] \in {"run", "loop"} /\ posting'[a].cb = "none"
     \/ /\ pc'[a] = "notify" /\ posting'[a] = posting[a]
        /\ posting[a].cb \in Callbacks =>
             HomeOf(ListFor(posting[a].cb), dest'[a])
  /\ \A t \in Threads :
       \/ running'[t] = running[t] /\ (t = a => pc'[t] \in {"run", "notify"})
       \/ t = a /\ posting[a].cb = "acheck" /\ running'[t] = "none"

(* The end of a post, whose callback is queued from then on: nobody        *)
(* carries it any more.                                                    *)
LEMMA ForgetsPlace ==
  ASSUME PlaceInv, NEW a \in Actors, pc[a] \in {"post", "notify"}, Forgets(a),
         \A c \in Callbacks : Queued(c)' <=> Queued(c) \/ posting[a].cb = c
  PROVE  /\ Carried' /\ RunsOwn' /\ InOnePlace'
         /\ \A c \in Callbacks :
              /\ Runs(c)' <=> Runs(c)
              /\ ToPost(c)' <=> ToPost(c)
              /\ posting[a].cb # c => StatusOf(c)' = StatusOf(c)
              /\ posting[a].cb = c => StatusOf(c)' = "queued"
  <1> USE DEF PlaceInv
  <1>1. \A t \in Threads :
          posting[a].cb = "acheck" /\ t = a =>
            running[t] \notin Callbacks /\ running'[t] \notin Callbacks
        BY NoneIsNoCallback DEF RunsOwn, Forgets
  <1>2. \A t \in Threads, c \in Callbacks : running'[t] = c <=> running[t] = c
        BY <1>1, NoneIsNoCallback DEF Forgets
  <1>3. \A c \in Callbacks : /\ Runs(c)' <=> Runs(c)
                             /\ ToPost(c)' <=> ToPost(c)
        BY <1>2 DEF Runs, ToPost, Unbooted, Forgets
  <1>4. Carried'
    <2> SUFFICES ASSUME NEW b \in Actors
                 PROVE  /\ ~Registers(b)' => posting'[b].cb = "none"
                        /\ \A c \in Callbacks : posting'[b].cb = c =>
                             /\ posting'[b] = Posted(c)
                             /\ pc'[b] = "notify" =>
                                  Queued(c)' /\ HomeOf(ListFor(c), dest'[b])
        BY DEF Carried, HomeOf, ListFor, Queued, Forgets
    <2>1. CASE b = a
          BY <2>1, NoneIsNoCallback DEF Registers, Forgets, Carried
    <2>2. CASE b # a
          BY <2>2 DEF Registers, Carried, Forgets
    <2> QED BY <2>1, <2>2
  <1>5. RunsOwn'
    <2> SUFFICES ASSUME NEW t \in Threads, running'[t] \in Callbacks
                 PROVE  /\ Executing(t)' /\ posting'[t].cb # "acheck"
                        /\ acolor'[t] = ListFor(running'[t])
        BY DEF RunsOwn, ListFor
    <2>1. running[t] = running'[t]
          BY <1>2
    <2>2. acolor'[t] = ListFor(running'[t])
          BY <2>1 DEF RunsOwn, Forgets
    <2>3. CASE t = a
          BY <2>1, <2>2, <2>3 DEF RunsOwn, Executing, Forgets
    <2>4. CASE t # a
          BY <2>1, <2>2, <2>4, Names DEF RunsOwn, Executing, Forgets
    <2> QED BY <2>3, <2>4
  <1>6. InOnePlace'
    <2> SUFFICES ASSUME NEW c \in Callbacks
        PROVE /\ Queued(c)' => ~Runs(c) /\ ~ToPost(c)
              /\ Runs(c) => ~ToPost(c)
              /\ c \in unposted => c \notin Unbooted
              /\ \A b \in Actors :
                   posting'[b].cb = c => /\ ~Runs(c) /\ ~ToPost(c)
                                         /\ Queued(c)' => pc'[b] = "notify"
                                         /\ \A o \in Actors :
                                              posting'[o].cb = c => b = o
              /\ \A t, u \in Threads : running'[t] = c /\ running'[u] = c
                                         => t = u
        BY <1>3 DEF InOnePlace, Unbooted, Forgets
    <2>1. Queued(c)' => ~Runs(c) /\ ~ToPost(c)
          BY DEF InOnePlace
    <2>2. ASSUME NEW b \in Actors, posting'[b].cb = c
          PROVE  /\ posting[b].cb = c
                 /\ Queued(c)' => pc'[b] = "notify"
      <3>1. posting[b].cb = c /\ (b = a => pc'[b] = "notify")
            BY <2>2, NoneIsNoCallback DEF Forgets
      <3>2. CASE b = a
            BY <3>1, <3>2
      <3>3. CASE b # a
        <4>1. posting[a].cb # c /\ pc'[b] = pc[b]
              BY <3>1, <3>3 DEF InOnePlace, Forgets
        <4> QED BY <3>1, <4>1 DEF InOnePlace
      <3> QED BY <3>2, <3>3
    <2> QED BY <1>2, <2>1, <2>2 DEF InOnePlace
  <1>7. ASSUME NEW c \in Callbacks
        PROVE  /\ posting[a].cb # c => StatusOf(c)' = StatusOf(c)
               /\ posting[a].cb = c => StatusOf(c)' = "queued"
    <2>1. CASE posting[a].cb = c
          BY <2>1 DEF StatusOf
    <2>2. CASE posting[a].cb # c
      <3>1. (\E b \in Actors : posting[b].cb = c)' <=>
               \E b \in Actors : posting[b].cb = c
            BY <2>2, NoneIsNoCallback DEF Forgets
      <3>2. Queued(c)' <=> Queued(c)
            BY <2>2
      <3> QED BY <1>3, <2>2, <3>1, <3>2 DEF StatusOf, ToPost
    <2> QED BY <2>1, <2>2
  <1> QED BY <1>3, <1>4, <1>5, <1>6, <1>7

(* The write in the pipe, at which the post ends.                          *)
LEMMA NotifyPlace ==
  ASSUME TypeInv, PlaceInv, NEW a \in Actors, Notify(a)
  PROVE  PlaceInv' /\ UNCHANGED Promise!vars
  <1>1. /\ pc[a] = "notify" /\ EndPost(a)
        /\ UNCHANGED <<queueOf, acolor, headSeg, tailSeg, unposted, booted>>
        BY DEF Notify, listVars, bootVars
  <1>2. posting[a].cb \in Callbacks => Queued(posting[a].cb)
        BY <1>1 DEF PlaceInv, Carried
  <1>3. \A c \in Callbacks : Queued(c)' <=> Queued(c)
        BY <1>1 DEF Queued
  <1>4. Forgets(a)
    <2>1. /\ pc'[a] \in {"run", "loop"} /\ posting'[a].cb = "none"
          /\ \A b \in Actors : b # a => /\ pc'[b] = pc[b]
                                        /\ posting'[b] = posting[b]
                                        /\ dest'[b] = dest[b]
          /\ \A t \in Threads :
               \/ running'[t] = running[t] /\ (t = a => pc'[t] = "run")
               \/ t = a /\ posting[a].cb = "acheck" /\ running'[t] = "none"
          BY <1>1, EndedPost
    <2> QED BY <1>1, <2>1 DEF Forgets
  <1>5. \A c \in Callbacks : Queued(c)' <=> Queued(c) \/ posting[a].cb = c
        BY <1>2, <1>3
  <1>6. Filed' /\ FiledOnce'
        BY <1>1 DEF Filed, FiledOnce, NoTwice, PlaceInv
  <1>7. /\ Carried' /\ RunsOwn' /\ InOnePlace'
        /\ \A c \in Callbacks :
             /\ posting[a].cb # c => StatusOf(c)' = StatusOf(c)
             /\ posting[a].cb = c => StatusOf(c)' = "queued"
        BY <1>1, <1>4, <1>5, ForgetsPlace
  <1>8. \A c \in Callbacks : StatusOf(c)' = StatusOf(c)
        BY <1>2, <1>7 DEF StatusOf
  <1>9. UNCHANGED Promise!vars
        BY <1>1, <1>8, SameView
  <1> QED BY <1>6, <1>7, <1>9 DEF PlaceInv

-----------------------------------------------------------------------------
(* The queues after register_task and choose_task *)

(* Appending a callback that is not there yet keeps each of them once. *)
LEMMA NoTwiceAppend ==
  ASSUME NEW s \in Seq(Tasks), NEW e \in Tasks, NoTwice(s),
         e \in Callbacks => e \notin ToSet(s)
  PROVE  NoTwice(Append(s, e))
  <1>1. /\ Len(Append(s, e)) = Len(s) + 1 /\ Len(s) \in Nat
        /\ \A i \in 1 .. Len(s) : Append(s, e)[i] = s[i] /\ s[i] \in ToSet(s)
        /\ Append(s, e)[Len(s) + 1] = e
        BY AppendProperties, ElementsOf
  <1> QED BY <1>1 DEF NoTwice

(* What is taken at the head is no longer in the list.                     *)
LEMMA NoTwiceTail ==
  ASSUME NEW s \in Seq(Tasks), s # <<>>, NoTwice(s)
  PROVE  /\ NoTwice(Tail(s))
         /\ Head(s) \in Callbacks => Head(s) \notin ToSet(Tail(s))
  <1>0. PICK u, n : u = Tail(s) /\ n = Len(u)
        OBVIOUS
  <1>1. u \in Seq(Tasks) /\ n \in Nat /\ Len(s) = n + 1
    <2>1. u \in Seq(Tasks) /\ n = Len(s) - 1 /\ Len(s) \in Nat
          BY <1>0, TailElements, ElementsOf
    <2>2. n \in Nat
          BY <1>0, <2>1, ElementsOf
    <2> QED BY <2>1, <2>2
  <1>2. \A i \in 1 .. n : u[i] = s[i + 1]
        BY <1>0, <1>1, HeadTailProperties
  <1>3. Head(s) = s[1] /\ ToSet(u) = {u[i] : i \in 1 .. n}
    <2>1. Head(s) = s[1]
          BY HeadOf
    <2>2. ToSet(u) = {u[i] : i \in 1 .. Len(u)}
          BY <1>1, ElementsOf
    <2> QED BY <1>0, <2>1, <2>2
  <1>4. \A i, j \in 1 .. n + 1 : s[i] = s[j] /\ s[i] \in Callbacks => i = j
        BY <1>1 DEF NoTwice
  <1>5. NoTwice(u)
    <2> SUFFICES ASSUME NEW i \in 1 .. n, NEW j \in 1 .. n,
                        u[i] = u[j], u[i] \in Callbacks
                 PROVE  i = j
        BY <1>0 DEF NoTwice
    <2>1. /\ i + 1 \in 1 .. n + 1 /\ j + 1 \in 1 .. n + 1
          /\ s[i + 1] = s[j + 1] /\ s[i + 1] \in Callbacks
          BY <1>1, <1>2
    <2>2. i + 1 = j + 1
          BY <1>4, <2>1
    <2> QED BY <2>2
  <1>6. ASSUME s[1] \in Callbacks, s[1] \in ToSet(u) PROVE FALSE
    <2>1. PICK i \in 1 .. n : u[i] = s[1]
          BY <1>3, <1>6
    <2>2. s[i + 1] = s[1] /\ i + 1 \in 1 .. n + 1 /\ 1 \in 1 .. n + 1
          BY <1>1, <1>2, <2>1
    <2>3. i + 1 = 1
          BY <1>4, <1>6, <2>2
    <2> QED BY <2>1, <2>3
  <1> QED BY <1>0, <1>3, <1>5, <1>6

(* QueuedIn after the step.                                                *)
LEMMA QueuedNext ==
  ASSUME headSeg' \in [Lists -> Seq(Tasks)], tailSeg' \in [Lists -> Seq(Tasks)],
         NEW c
  PROVE  Queued(c)' <=> \E l \in Lists : \/ c \in ToSet(headSeg'[l])
                                         \/ c \in ToSet(tailSeg'[l])
  <1>1. ASSUME NEW l \in Lists
        PROVE  /\ Contains(headSeg'[l], c) <=> c \in ToSet(headSeg'[l])
               /\ Contains(tailSeg'[l], c) <=> c \in ToSet(tailSeg'[l])
    <2>1. headSeg'[l] \in Seq(Tasks) /\ tailSeg'[l] \in Seq(Tasks)
          OBVIOUS
    <2> QED BY <2>1, ElementsOf
  <1> QED BY <1>1 DEF Queued

(* One more callback at the end of a segment of its list.                  *)
Enqueues(l, e, last) ==
  /\ l \in Lists /\ e \in Tasks /\ last \in BOOLEAN
  /\ e \in Callbacks => /\ l = ListFor(e) /\ (last <=> e \in AtTail)
                        /\ ~Queued(e)
  /\ headSeg' \in [Lists -> Seq(Tasks)] /\ tailSeg' \in [Lists -> Seq(Tasks)]
  /\ \A x \in Lists :
       /\ headSeg'[x] = IF x = l /\ ~last THEN Append(headSeg[l], e)
                        ELSE headSeg[x]
       /\ tailSeg'[x] = IF x = l /\ last THEN Append(tailSeg[l], e)
                        ELSE tailSeg[x]

(* An insertion at the end of the head or of the tail segment.             *)
LEMMA SegAppend ==
  ASSUME ListsOK, Filed, FiledOnce, NEW l, NEW e, NEW last,
         Enqueues(l, e, last)
  PROVE  /\ Filed' /\ FiledOnce'
         /\ \A c \in Callbacks : Queued(c)' <=> Queued(c) \/ c = e
         /\ \A k \in ProgramColors :
              /\ OfColor(headSeg', k) =
                   IF e \in Callbacks /\ k = ColorOf[e] /\ ~last
                   THEN Append(OfColor(headSeg, k), e) ELSE OfColor(headSeg, k)
              /\ OfColor(tailSeg', k) =
                   IF e \in Callbacks /\ k = ColorOf[e] /\ last
                   THEN Append(OfColor(tailSeg, k), e) ELSE OfColor(tailSeg, k)
  <1> USE DEF Enqueues
  <1>1. /\ headSeg \in [Lists -> Seq(Tasks)]
        /\ tailSeg \in [Lists -> Seq(Tasks)]
        /\ headSeg[l] \in Seq(Tasks) /\ tailSeg[l] \in Seq(Tasks)
        BY DEF ListsOK
  <1>2. \A s \in Seq(Tasks) : /\ Append(s, e) \in Seq(Tasks)
                              /\ ToSet(Append(s, e)) = ToSet(s) \cup {e}
        BY AppendedElements
  <1>3. \A x \in Lists :
          /\ ToSet(headSeg'[x]) = ToSet(headSeg[x])
                                    \cup (IF x = l /\ ~last THEN {e} ELSE {})
          /\ ToSet(tailSeg'[x]) = ToSet(tailSeg[x])
                                    \cup (IF x = l /\ last THEN {e} ELSE {})
    <2>1. CASE last
          BY <1>1, <1>2, <2>1
    <2>2. CASE ~last
          BY <1>1, <1>2, <2>2
    <2> QED BY <2>1, <2>2
  <1>4. \A c \in Callbacks : Queued(c)' <=> Queued(c) \/ c = e
        BY <1>3, QueuedIn, QueuedNext
  <1>5. Filed'
    <2>1. ASSUME NEW x \in Lists, NEW c \in Callbacks
          PROVE  /\ c \in ToSet(headSeg'[x]) => x = ListFor(c) /\ c \notin AtTail
                 /\ c \in ToSet(tailSeg'[x]) => x = ListFor(c) /\ c \in AtTail
          BY <1>3 DEF Filed
    <2> QED BY <2>1 DEF Filed, ListFor
  <1>6. FiledOnce'
    <2>1. e \in Callbacks => e \notin ToSet(headSeg[l]) /\ e \notin ToSet(tailSeg[l])
          BY QueuedIn
    <2>2. NoTwice(Append(headSeg[l], e)) /\ NoTwice(Append(tailSeg[l], e))
          BY <1>1, <2>1, NoTwiceAppend DEF FiledOnce
    <2>3. ASSUME NEW x \in Lists
          PROVE  NoTwice(headSeg'[x]) /\ NoTwice(tailSeg'[x])
      <3>1. CASE last
            BY <1>1, <2>2, <3>1 DEF FiledOnce
      <3>2. CASE ~last
            BY <1>1, <2>2, <3>2 DEF FiledOnce
      <3> QED BY <3>1, <3>2
    <2> QED BY <2>3 DEF FiledOnce, NoTwice
  <1>7. ASSUME NEW k \in ProgramColors
        PROVE  /\ OfColor(headSeg', k) =
                    IF e \in Callbacks /\ k = ColorOf[e] /\ ~last
                    THEN Append(OfColor(headSeg, k), e) ELSE OfColor(headSeg, k)
               /\ OfColor(tailSeg', k) =
                    IF e \in Callbacks /\ k = ColorOf[e] /\ last
                    THEN Append(OfColor(tailSeg, k), e) ELSE OfColor(tailSeg, k)
    <2>1. CASE last
      <3>1. /\ Lengthened(tailSeg, tailSeg', l, e)
            /\ \A x \in Lists : headSeg'[x] = headSeg[x]
            BY <1>1, <2>1 DEF Lengthened
      <3>2. OfColor(tailSeg', k) =
              IF e \in Callbacks /\ ColorOf[e] = k
              THEN Append(OfColor(tailSeg, k), e) ELSE OfColor(tailSeg, k)
            BY <3>1, ColorAppend
      <3>3. OfColor(headSeg', k) = OfColor(headSeg, k)
            BY <3>1, ListForType DEF OfColor
      <3> QED BY <2>1, <3>2, <3>3
    <2>2. CASE ~last
      <3>1. /\ Lengthened(headSeg, headSeg', l, e)
            /\ \A x \in Lists : tailSeg'[x] = tailSeg[x]
            BY <1>1, <2>2 DEF Lengthened
      <3>2. OfColor(headSeg', k) =
              IF e \in Callbacks /\ ColorOf[e] = k
              THEN Append(OfColor(headSeg, k), e) ELSE OfColor(headSeg, k)
            BY <3>1, ColorAppend
      <3>3. OfColor(tailSeg', k) = OfColor(tailSeg, k)
            BY <3>1, ListForType DEF OfColor
      <3> QED BY <2>2, <3>2, <3>3
    <2> QED BY <2>1, <2>2
  <1> QED BY <1>4, <1>5, <1>6, <1>7

(* One callback less: the first of a list.                                 *)
Dequeues(l, e, atHead) ==
  /\ l \in Lists /\ NbCallbacks(l) > 0 /\ e = First(l)
  /\ atHead \in BOOLEAN /\ (atHead <=> headSeg[l] # <<>>)
  /\ headSeg' \in [Lists -> Seq(Tasks)] /\ tailSeg' \in [Lists -> Seq(Tasks)]
  /\ \A x \in Lists :
       /\ headSeg'[x] = IF x = l /\ atHead THEN Tail(headSeg[l])
                        ELSE headSeg[x]
       /\ tailSeg'[x] = IF x = l /\ ~atHead THEN Tail(tailSeg[l])
                        ELSE tailSeg[x]

(* A removal at the head of the list, which holds the tail segment when the *)
(* head segment is empty.                                                  *)
LEMMA SegTail ==
  ASSUME ListsOK, Filed, FiledOnce, NEW l, NEW e, NEW atHead,
         Dequeues(l, e, atHead)
  PROVE  /\ Filed' /\ FiledOnce'
         /\ e \in Callbacks => Queued(e) /\ l = ListFor(e)
         /\ \A c \in Callbacks : Queued(c)' <=> Queued(c) /\ c # e
         /\ e \in Callbacks =>
              IF atHead
              THEN /\ OfColor(headSeg, ColorOf[e]) # <<>>
                   /\ Head(OfColor(headSeg, ColorOf[e])) = e
              ELSE /\ OfColor(headSeg, ColorOf[e]) = <<>>
                   /\ OfColor(tailSeg, ColorOf[e]) # <<>>
                   /\ Head(OfColor(tailSeg, ColorOf[e])) = e
         /\ \A k \in ProgramColors :
              /\ OfColor(headSeg', k) =
                   IF e \in Callbacks /\ k = ColorOf[e] /\ atHead
                   THEN Tail(OfColor(headSeg, k)) ELSE OfColor(headSeg, k)
              /\ OfColor(tailSeg', k) =
                   IF e \in Callbacks /\ k = ColorOf[e] /\ ~atHead
                   THEN Tail(OfColor(tailSeg, k)) ELSE OfColor(tailSeg, k)
  <1> USE DEF Dequeues
  <1>1. /\ headSeg \in [Lists -> Seq(Tasks)]
        /\ tailSeg \in [Lists -> Seq(Tasks)]
        /\ headSeg[l] \in Seq(Tasks) /\ tailSeg[l] \in Seq(Tasks)
        /\ ~atHead => tailSeg[l] # <<>>
        BY NbCallbacksType DEF ListsOK
  <1>2. PICK s \in Seq(Tasks) :
          /\ s # <<>> /\ e = Head(s)
          /\ s = IF atHead THEN headSeg[l] ELSE tailSeg[l]
        BY <1>1 DEF First
  <1>3. /\ Tail(s) \in Seq(Tasks) /\ ToSet(Tail(s)) \subseteq ToSet(s)
        /\ \A x \in ToSet(s) : x # e => x \in ToSet(Tail(s))
        /\ NoTwice(Tail(s))
        /\ e \in Callbacks => e \notin ToSet(Tail(s))
        /\ e \in ToSet(s)
    <2>1. NoTwice(s)
          BY <1>2 DEF FiledOnce
    <2> QED BY <1>2, <2>1, TailElements, NoTwiceTail, HeadOf
  <1>4. \A x \in Lists : /\ headSeg'[x] = IF x = l /\ atHead THEN Tail(s)
                                          ELSE headSeg[x]
                         /\ tailSeg'[x] = IF x = l /\ ~atHead THEN Tail(s)
                                          ELSE tailSeg[x]
        BY <1>2
  <1>5. Filed' /\ FiledOnce'
    <2>1. ASSUME NEW x \in Lists, NEW c \in Callbacks
          PROVE  /\ c \in ToSet(headSeg'[x]) => x = ListFor(c) /\ c \notin AtTail
                 /\ c \in ToSet(tailSeg'[x]) => x = ListFor(c) /\ c \in AtTail
          BY <1>2, <1>3, <1>4 DEF Filed
    <2>2. \A x \in Lists : NoTwice(headSeg'[x]) /\ NoTwice(tailSeg'[x])
          BY <1>3, <1>4 DEF FiledOnce
    <2> QED BY <2>1, <2>2 DEF Filed, ListFor, FiledOnce, NoTwice
  <1>6. e \in Callbacks => /\ Queued(e) /\ l = ListFor(e)
                           /\ atHead <=> e \notin AtTail
        BY <1>2, <1>3, QueuedIn DEF Filed
  <1>7. ASSUME NEW c \in Callbacks PROVE Queued(c)' <=> Queued(c) /\ c # e
    <2>1. Queued(c)' <=> \E x \in Lists : \/ c \in ToSet(headSeg'[x])
                                          \/ c \in ToSet(tailSeg'[x])
          BY <1>4, QueuedNext
    <2>2. Queued(c) <=> \E x \in Lists : \/ c \in ToSet(headSeg[x])
                                         \/ c \in ToSet(tailSeg[x])
          BY QueuedIn
    <2>3. ASSUME Queued(c)' PROVE Queued(c) /\ c # e
      <3>1. PICK x \in Lists : \/ c \in ToSet(headSeg'[x])
                               \/ c \in ToSet(tailSeg'[x])
            BY <2>1, <2>3
      <3>2. Queued(c)
            BY <1>2, <1>3, <1>4, <2>2, <3>1
      <3>3. ASSUME c = e PROVE FALSE
        <4>1. x = l
              BY <1>5, <1>6, <3>1, <3>3 DEF Filed, ListFor
        <4>2. IF atHead THEN c \in ToSet(headSeg'[l]) ELSE c \in ToSet(tailSeg'[l])
              BY <1>5, <1>6, <3>1, <3>3, <4>1 DEF Filed
        <4> QED BY <1>3, <1>4, <3>3, <4>2
      <3> QED BY <3>2, <3>3
    <2>4. ASSUME Queued(c), c # e PROVE Queued(c)'
      <3>1. PICK x \in Lists : \/ c \in ToSet(headSeg[x])
                               \/ c \in ToSet(tailSeg[x])
            BY <2>2, <2>4
      <3> QED BY <1>2, <1>3, <1>4, <2>1, <2>4, <3>1
    <2> QED BY <2>3, <2>4
  <1>8. ASSUME NEW k \in ProgramColors
        PROVE  /\ e \in Callbacks /\ k = ColorOf[e] =>
                    IF atHead
                    THEN /\ OfColor(headSeg, k) # <<>>
                         /\ Head(OfColor(headSeg, k)) = e
                    ELSE /\ OfColor(headSeg, k) = <<>>
                         /\ OfColor(tailSeg, k) # <<>>
                         /\ Head(OfColor(tailSeg, k)) = e
               /\ OfColor(headSeg', k) =
                    IF e \in Callbacks /\ k = ColorOf[e] /\ atHead
                    THEN Tail(OfColor(headSeg, k)) ELSE OfColor(headSeg, k)
               /\ OfColor(tailSeg', k) =
                    IF e \in Callbacks /\ k = ColorOf[e] /\ ~atHead
                    THEN Tail(OfColor(tailSeg, k)) ELSE OfColor(tailSeg, k)
    <2>1. CASE atHead
      <3>1. /\ headSeg[l] # <<>> /\ e = Head(headSeg[l])
            /\ Shortened(headSeg, headSeg', l, e)
            /\ \A x \in Lists : tailSeg'[x] = tailSeg[x]
            BY <1>1, <1>2, <1>6, <2>1 DEF Shortened
      <3>2. /\ e \in Callbacks /\ ColorOf[e] = k =>
                 /\ OfColor(headSeg, k) # <<>> /\ Head(OfColor(headSeg, k)) = e
                 /\ OfColor(headSeg', k) = Tail(OfColor(headSeg, k))
            /\ ~(e \in Callbacks /\ ColorOf[e] = k) =>
                 OfColor(headSeg', k) = OfColor(headSeg, k)
            BY <3>1, ColorTail
      <3>3. OfColor(tailSeg', k) = OfColor(tailSeg, k)
            BY <3>1, ListForType DEF OfColor
      <3> QED BY <2>1, <3>2, <3>3
    <2>2. CASE ~atHead
      <3>1. /\ tailSeg[l] # <<>> /\ e = Head(tailSeg[l]) /\ headSeg[l] = <<>>
            /\ Shortened(tailSeg, tailSeg', l, e)
            /\ \A x \in Lists : headSeg'[x] = headSeg[x]
            BY <1>1, <1>2, <1>6, <2>2 DEF Shortened
      <3>2. /\ e \in Callbacks /\ ColorOf[e] = k =>
                 /\ OfColor(tailSeg, k) # <<>> /\ Head(OfColor(tailSeg, k)) = e
                 /\ OfColor(tailSeg', k) = Tail(OfColor(tailSeg, k))
            /\ ~(e \in Callbacks /\ ColorOf[e] = k) =>
                 OfColor(tailSeg', k) = OfColor(tailSeg, k)
            BY <3>1, ColorTail
      <3>3. e \in Callbacks /\ ColorOf[e] = k => OfColor(headSeg, k) = <<>>
            BY <1>6, <3>1, SelectedEmpty DEF OfColor, ListFor
      <3>4. OfColor(headSeg', k) = OfColor(headSeg, k)
            BY <3>1, ListForType DEF OfColor
      <3> QED BY <2>2, <3>2, <3>3, <3>4
    <2> QED BY <2>1, <2>2
  <1>9. e \in Callbacks => ColorOf[e] \in ProgramColors
        BY DEF ProgramColors
  <1> QED BY <1>5, <1>6, <1>7, <1>8, <1>9

-----------------------------------------------------------------------------
(* The steps that a program sees *)

(* register_task queues a callback in the list of its color, at the thread *)
(* it locked.                                                              *)
LEMMA RegistersInOwn ==
  ASSUME SafeInv, PlaceInv, NEW a \in Actors, pc[a] = "post",
         NEW c \in Callbacks, posting[a].cb = c
  PROVE  /\ ListOf(posting[a].color, dest[a]) = ListFor(c)
         /\ posting[a].last <=> c \in AtTail
  <1>1. posting[a] = Posted(c)
        BY DEF PlaceInv, Carried
  <1>2. posting[a].color = ColorOf[c] /\ (posting[a].last <=> c \in AtTail)
    <2>1. /\ Posted(c).color = ColorOf[c]
          /\ Posted(c).last = (c \in AtTail)
          BY DEF Posted
    <2> QED BY <1>1, <2>1
  <1>3. ColorOf[c] \in Int
        BY SchedulerAssumption DEF SchedulerAssumption
  <1>4. CASE ColorOf[c] < 0
    <2>1. ColorOf[c] = NegList(dest[a])
          BY <1>2, <1>4 DEF SafeInv, FlowInv, Posting, GoesHome
    <2>2. ListFor(c) = ColorOf[c]
          BY <1>4, ListForType DEF ListFor, ProgramColors
    <2> QED BY <1>2, <1>4, <2>1, <2>2 DEF ListOf
  <1>5. CASE ~(ColorOf[c] < 0)
        BY <1>2, <1>5 DEF ListOf, ListFor
  <1> QED BY <1>2, <1>3, <1>4, <1>5

(* register_task goes on to wake the owner up, or returns.                 *)
LEMMA RegisterForgets ==
  ASSUME SafeInv, PlaceInv, NEW a \in Actors, RegisterTask(a)
  PROVE  Forgets(a)
  <1> DEFINE c == posting[a].cb
  <1>0. TypeInv /\ pc[a] = "post"
        BY DEF SafeInv, RegisterTask
  <1>1. UNCHANGED <<queueOf, acolor, unposted, booted>>
        BY DEF RegisterTask, bootVars
  <1>2. CASE writes' = writes
    <2>1. EndPost(a)
          BY <1>2 DEF RegisterTask
    <2>2. /\ pc'[a] \in {"run", "loop"} /\ posting'[a].cb = "none"
          /\ \A b \in Actors : b # a => /\ pc'[b] = pc[b]
                                        /\ posting'[b] = posting[b]
                                        /\ dest'[b] = dest[b]
          /\ \A t \in Threads :
               \/ running'[t] = running[t] /\ (t = a => pc'[t] = "run")
               \/ t = a /\ posting[a].cb = "acheck" /\ running'[t] = "none"
          BY <1>0, <2>1, EndedPost
    <2> QED BY <1>1, <2>2 DEF Forgets
  <1>3. CASE writes' # writes
    <2>1. /\ pc' = [pc EXCEPT ![a] = "notify"]
          /\ UNCHANGED <<running, posting, dest>>
          BY <1>3 DEF RegisterTask, postVars
    <2>2. /\ pc'[a] = "notify"
          /\ \A b \in Actors : b # a => pc'[b] = pc[b]
          BY <1>0, <2>1 DEF TypeInv, TypeOK, ControlOK
    <2>3. c \in Callbacks => HomeOf(ListFor(c), dest[a])
      <3>1. StillOwner(a)
            BY DEF RegisterTask
      <3>2. HomeOf(ListOf(posting[a].color, dest[a]), dest[a])
            BY <1>0, <3>1, RegisterHome
      <3> QED BY <1>0, <3>2, RegistersInOwn
    <2> QED BY <1>1, <2>1, <2>2, <2>3 DEF Forgets
  <1> QED BY <1>2, <1>3

(* A step of register_task under the lock posts a callback, or is not seen *)
(* when it queues a polling task or ainit.                                 *)
LEMMA RegisterPlace ==
  ASSUME SafeInv, PlaceInv, NEW a \in Actors, RegisterTask(a)
  PROVE  PlaceInv' /\ [Promise!Next]_(Promise!vars)
  <1>0. PICK e, l, last : /\ e = posting[a].cb /\ last = posting[a].last
                          /\ l = ListOf(posting[a].color, dest[a])
        OBVIOUS
  <1>1. /\ TypeInv /\ ListsOK /\ pc[a] = "post" /\ StillOwner(a) /\ TypeInv'
        BY RegisterTaskType DEF SafeInv, RegisterTask, TypeInv, TypeOK
  <1>2. /\ l \in Lists /\ e \in Tasks /\ last \in BOOLEAN
    <2>1. l \in Lists
          BY <1>0, <1>1, RegisterHome
    <2>2. posting[a] \in Posts /\ e \in Tasks
          BY <1>0, <1>1 DEF TypeInv, TypeOK, ControlOK, PostOK
    <2> QED BY <1>0, <2>1, <2>2 DEF Posts
  <1>3. e \in Callbacks =>
          /\ l = ListFor(e) /\ (last <=> e \in AtTail)
          /\ ~Queued(e) /\ ~Runs(e) /\ ~ToPost(e)
        BY <1>0, <1>1, RegistersInOwn DEF PlaceInv, InOnePlace
  <1>4. /\ headSeg' \in [Lists -> Seq(Tasks)]
        /\ tailSeg' \in [Lists -> Seq(Tasks)]
        BY <1>1 DEF TypeInv, TypeOK, ListsOK
  <1>5. \A x \in Lists :
          /\ headSeg'[x] = IF x = l /\ ~last THEN Append(headSeg[l], e)
                           ELSE headSeg[x]
          /\ tailSeg'[x] = IF x = l /\ last THEN Append(tailSeg[l], e)
                           ELSE tailSeg[x]
    <2>1. \A x \in Lists : x # l => /\ headSeg'[x] = headSeg[x]
                                    /\ tailSeg'[x] = tailSeg[x]
          BY <1>0, RegisteredLists
    <2>2. IF last
          THEN /\ tailSeg'[l] = Append(tailSeg[l], e)
               /\ headSeg'[l] = headSeg[l]
          ELSE /\ headSeg'[l] = Append(headSeg[l], e)
               /\ tailSeg'[l] = tailSeg[l]
          BY <1>0, RegisteredLists
    <2> QED BY <2>1, <2>2
  <1>6. /\ Filed' /\ FiledOnce'
        /\ \A c \in Callbacks : Queued(c)' <=> Queued(c) \/ c = e
        /\ \A k \in ProgramColors :
             /\ OfColor(headSeg', k) =
                  IF e \in Callbacks /\ k = ColorOf[e] /\ ~last
                  THEN Append(OfColor(headSeg, k), e) ELSE OfColor(headSeg, k)
             /\ OfColor(tailSeg', k) =
                  IF e \in Callbacks /\ k = ColorOf[e] /\ last
                  THEN Append(OfColor(tailSeg, k), e) ELSE OfColor(tailSeg, k)
    <2>1. Filed /\ FiledOnce
          BY DEF PlaceInv
    <2>2. Enqueues(l, e, last)
          BY <1>2, <1>3, <1>4, <1>5 DEF Enqueues
    <2> QED BY <1>1, <2>1, <2>2, SegAppend
  <1>7. /\ Carried' /\ RunsOwn' /\ InOnePlace'
        /\ \A c \in Callbacks :
             /\ e # c => StatusOf(c)' = StatusOf(c)
             /\ e = c => StatusOf(c)' = "queued"
        BY <1>0, <1>1, <1>6, RegisterForgets, ForgetsPlace
  <1>8. PlaceInv'
        BY <1>6, <1>7 DEF PlaceInv
  <1>9. CASE e \in Callbacks
    <2>1. StatusOf(e) = "idle"
          BY <1>0, <1>3, <1>9 DEF StatusOf
    <2>2. \A k \in ProgramColors :
            /\ OfColor(headSeg', k) =
                 IF k = ColorOf[e] /\ e \notin AtTail
                 THEN Append(OfColor(headSeg, k), e) ELSE OfColor(headSeg, k)
            /\ OfColor(tailSeg', k) =
                 IF k = ColorOf[e] /\ e \in AtTail
                 THEN Append(OfColor(tailSeg, k), e) ELSE OfColor(tailSeg, k)
          BY <1>3, <1>6, <1>9
    <2>3. Promise!Post(e)
          BY <1>7, <1>9, <2>1, <2>2, PromisedPost
    <2> QED BY <1>8, <1>9, <2>3 DEF Promise!Next
  <1>10. CASE e \notin Callbacks
    <2>1. UNCHANGED Promise!vars
          BY <1>6, <1>7, <1>10, SameView
    <2> QED BY <1>8, <2>1
  <1> QED BY <1>9, <1>10

(* No poster holds a callback that choose_task takes: the one that queued  *)
(* it holds the lock of the thread until it has written in its pipe.       *)
LEMMA TakenAlone ==
  ASSUME SafeInv, CalmInv, PlaceInv, NEW t \in Threads, NextTask(t),
         NEW l \in Lists, l \in ToSet(colorList[t]),
         NEW c \in Callbacks, Queued(c), l = ListFor(c), NEW a \in Actors
  PROVE  posting[a].cb # c
  <1> SUFFICES ASSUME posting[a].cb = c PROVE FALSE
      OBVIOUS
  <1>1. pc[a] = "notify"
        BY DEF PlaceInv, InOnePlace
  <1>2. /\ HomeOf(l, dest[a]) /\ dest[a] \in Threads
        /\ mu[dest[a]] = a
        BY <1>1 DEF PlaceInv, Carried, SafeInv, TypeInv, PostOK, CalmInv,
                    Holding
  <1>3. HomeOf(l, t)
        BY DEF SafeInv, ListInv, AtHome
  <1>4. mu[t] = a
        BY <1>2, <1>3, HomeIsOne
  <1>5. mu[t] = Nobody \/ (mu[t] = t /\ pc[t] = "insert")
        BY DEF NextTask, CalmInv, Holding
  <1> QED BY <1>1, <1>4, <1>5, Names

(* No other thread runs a callback of the color.                           *)
LEMMA RunsAlone ==
  ASSUME SafeInv, PlaceInv, NEW t \in Threads, ~Executing(t),
         NEW l \in Lists, l \in ToSet(colorList[t]),
         NEW d \in Callbacks, Runs(d)
  PROVE  ListFor(d) # l
  <1> SUFFICES ASSUME ListFor(d) = l PROVE FALSE
      OBVIOUS
  <1>1. PICK u \in Threads : running[u] = d
        BY DEF Runs
  <1>2. Executing(u) /\ acolor[u] = l
        BY <1>1 DEF PlaceInv, RunsOwn
  <1>3. l \in ToSet(colorList[u])
        BY <1>2, Names DEF SafeInv, ListInv, Current
  <1>4. HomeOf(l, u) /\ HomeOf(l, t)
        BY <1>3 DEF SafeInv, ListInv, AtHome
  <1> QED BY <1>2, <1>4, HomeIsOne

(* choose_task starts the next callback of a color of which nothing runs.  *)
LEMMA NextTaskPlace ==
  ASSUME SafeInv, CalmInv, PlaceInv, NEW t \in Threads, NextTask(t)
  PROVE  PlaceInv' /\ [Promise!Next]_(Promise!vars)
  <1>0. PICK l, e, atHead : /\ l = Head(Retired(t).list) /\ e = First(l)
                            /\ atHead = (headSeg[l] # <<>>)
        OBVIOUS
  <1>1. /\ InLoop(t) /\ l \in Lists /\ l \in ToSet(colorList[t])
        /\ NbCallbacks(l) > 0 /\ Run(t, l) /\ pc' = [pc EXCEPT ![t] = "run"]
        BY <1>0, NextTaskRuns
  <1>2. /\ TypeInv /\ ListsOK /\ CountsOK /\ TypeInv' /\ t \in Actors
        /\ UNCHANGED <<queueOf, posting, dest, unposted, booted>>
        BY NextTaskType, Names
        DEF SafeInv, TypeInv, TypeOK, NextTask, postVars, bootVars
  <1>3. /\ running' = [running EXCEPT ![t] = e]
        /\ acolor' = [acolor EXCEPT ![t] = l]
        /\ ~Executing(t) /\ ~Registers(t) /\ posting[t].cb = "none"
        /\ running[t] \notin Callbacks
    <2>1. ~Executing(t) /\ ~Registers(t)
          BY <1>1 DEF InLoop, Executing, Registers
    <2> QED BY <1>0, <1>1, <1>2, <2>1 DEF Run, PlaceInv, Carried, RunsOwn
  <1>4. /\ pc'[t] = "run" /\ acolor'[t] = l /\ running'[t] = e
        /\ \A b \in Actors : b # t => pc'[b] = pc[b]
        /\ \A u \in Threads : u # t => /\ acolor'[u] = acolor[u]
                                       /\ running'[u] = running[u]
        BY <1>1, <1>2, <1>3 DEF TypeInv, TypeOK, ControlOK, ListsOK
  <1>5. Dequeues(l, e, atHead)
    <2>1. /\ headSeg \in [Lists -> Seq(Tasks)]
          /\ tailSeg \in [Lists -> Seq(Tasks)]
          /\ headSeg' \in [Lists -> Seq(Tasks)]
          /\ tailSeg' \in [Lists -> Seq(Tasks)]
          BY <1>2 DEF TypeInv, TypeOK, ListsOK
    <2>2. \A x \in Lists :
            /\ headSeg'[x] = IF x = l /\ atHead THEN Tail(headSeg[l])
                             ELSE headSeg[x]
            /\ tailSeg'[x] = IF x = l /\ ~atHead THEN Tail(tailSeg[l])
                             ELSE tailSeg[x]
      <3>1. CASE headSeg[l] # <<>>
        <4>1. headSeg' = [headSeg EXCEPT ![l] = Tail(@)] /\ tailSeg' = tailSeg
              BY <1>1, <3>1 DEF Run
        <4> QED BY <1>0, <2>1, <3>1, <4>1
      <3>2. CASE headSeg[l] = <<>>
        <4>1. tailSeg' = [tailSeg EXCEPT ![l] = Tail(@)] /\ headSeg' = headSeg
              BY <1>1, <3>2 DEF Run
        <4> QED BY <1>0, <2>1, <3>2, <4>1
      <3> QED BY <3>1, <3>2
    <2> QED BY <1>0, <1>1, <2>1, <2>2 DEF Dequeues
  <1>6. /\ Filed' /\ FiledOnce'
        /\ e \in Callbacks => Queued(e) /\ l = ListFor(e)
        /\ \A c \in Callbacks : Queued(c)' <=> Queued(c) /\ c # e
        /\ e \in Callbacks =>
             IF atHead
             THEN /\ OfColor(headSeg, ColorOf[e]) # <<>>
                  /\ Head(OfColor(headSeg, ColorOf[e])) = e
             ELSE /\ OfColor(headSeg, ColorOf[e]) = <<>>
                  /\ OfColor(tailSeg, ColorOf[e]) # <<>>
                  /\ Head(OfColor(tailSeg, ColorOf[e])) = e
        /\ \A k \in ProgramColors :
             /\ OfColor(headSeg', k) =
                  IF e \in Callbacks /\ k = ColorOf[e] /\ atHead
                  THEN Tail(OfColor(headSeg, k)) ELSE OfColor(headSeg, k)
             /\ OfColor(tailSeg', k) =
                  IF e \in Callbacks /\ k = ColorOf[e] /\ ~atHead
                  THEN Tail(OfColor(tailSeg, k)) ELSE OfColor(tailSeg, k)
    <2>1. Filed /\ FiledOnce
          BY DEF PlaceInv
    <2> QED BY <1>2, <1>5, <2>1, SegTail
  <1>7. /\ \A u \in Threads, c \in Callbacks :
             running'[u] = c <=> running[u] = c \/ (u = t /\ c = e)
        /\ \A c \in Callbacks : (Runs(c)' <=> Runs(c) \/ c = e)
                                /\ (ToPost(c)' <=> ToPost(c))
    <2>1. \A u \in Threads, c \in Callbacks :
             running'[u] = c <=> running[u] = c \/ (u = t /\ c = e)
          BY <1>3, <1>4
    <2> QED BY <1>2, <2>1 DEF Runs, ToPost, Unbooted
  <1>8. e \in Callbacks => \A b \in Actors : posting[b].cb # e
        BY <1>1, <1>6, TakenAlone
  <1>9. Carried'
    <2> SUFFICES ASSUME NEW b \in Actors
                 PROVE  /\ ~Registers(b)' => posting[b].cb = "none"
                        /\ \A c \in Callbacks : posting[b].cb = c =>
                             /\ posting[b] = Posted(c)
                             /\ pc'[b] = "notify" =>
                                  Queued(c)' /\ HomeOf(ListFor(c), dest[b])
        BY <1>2 DEF Carried, HomeOf, ListFor, Queued
    <2>1. CASE b = t
          BY <1>3, <1>4, <2>1, NoneIsNoCallback DEF Registers
    <2>2. CASE b # t
          BY <1>4, <1>6, <1>8, <2>2 DEF Registers, PlaceInv, Carried
    <2> QED BY <2>1, <2>2
  <1>10. RunsOwn'
    <2> SUFFICES ASSUME NEW u \in Threads, running'[u] \in Callbacks
                 PROVE  /\ Executing(u)' /\ posting[u].cb # "acheck"
                        /\ acolor'[u] = ListFor(running'[u])
        BY <1>2 DEF RunsOwn, ListFor
    <2>1. CASE u = t
          BY <1>3, <1>4, <1>6, <2>1 DEF Executing
    <2>2. CASE u # t
          BY <1>4, <2>2, Names DEF PlaceInv, RunsOwn, Executing
    <2> QED BY <2>1, <2>2
  <1>11. InOnePlace'
    <2> SUFFICES ASSUME NEW c \in Callbacks
        PROVE /\ Queued(c)' => ~Runs(c)' /\ ~ToPost(c)
              /\ Runs(c)' => ~ToPost(c)
              /\ c \in unposted => c \notin Unbooted
              /\ \A b \in Actors :
                   posting[b].cb = c => /\ ~Runs(c)' /\ ~ToPost(c)
                                        /\ Queued(c)' => pc'[b] = "notify"
                                        /\ \A o \in Actors :
                                             posting[o].cb = c => b = o
              /\ \A u, v \in Threads : running'[u] = c /\ running'[v] = c
                                         => u = v
        BY <1>2, <1>7 DEF InOnePlace, Unbooted
    <2>1. CASE c = e
      <3>1. Queued(c) /\ ~Queued(c)' /\ ~Runs(c) /\ ~ToPost(c)
            BY <1>6, <2>1 DEF PlaceInv, InOnePlace
      <3>2. \A u \in Threads : running[u] # c
            BY <3>1 DEF Runs
      <3> QED BY <1>7, <1>8, <2>1, <3>1, <3>2 DEF PlaceInv, InOnePlace
    <2>2. CASE c # e
      <3>1. \A b \in Actors : posting[b].cb = c => pc'[b] = pc[b]
            BY <1>3, <1>4, NoneIsNoCallback
      <3> QED BY <1>6, <1>7, <2>2, <3>1 DEF PlaceInv, InOnePlace
    <2> QED BY <2>1, <2>2
  <1>12. PlaceInv'
        BY <1>6, <1>9, <1>10, <1>11 DEF PlaceInv
  <1>13. \A c \in Callbacks : /\ c # e => StatusOf(c)' = StatusOf(c)
                              /\ c = e => StatusOf(c)' = "running"
        BY <1>2, <1>6, <1>7 DEF StatusOf, ToPost
  <1>14. CASE e \in Callbacks
    <2>1. \A d \in Callbacks :
            StatusOf(d) = "running" => ColorOf[d] # ColorOf[e]
      <3>1. ASSUME NEW d \in Callbacks, StatusOf(d) = "running"
            PROVE  ColorOf[d] # ColorOf[e]
        <4>1. Runs(d)
              BY <3>1 DEF StatusOf
        <4>2. ListFor(d) # ListFor(e)
              BY <1>1, <1>3, <1>6, <1>14, <4>1, RunsAlone
        <4> QED BY <4>2 DEF ListFor
      <3> QED BY <3>1
    <2>2. atHead \in BOOLEAN
          BY <1>0
    <2>3. Promise!Start(e)
      <3>1. IF atHead
            THEN /\ OfColor(headSeg, ColorOf[e]) # <<>>
                 /\ Head(OfColor(headSeg, ColorOf[e])) = e
            ELSE /\ OfColor(headSeg, ColorOf[e]) = <<>>
                 /\ OfColor(tailSeg, ColorOf[e]) # <<>>
                 /\ Head(OfColor(tailSeg, ColorOf[e])) = e
            BY <1>6, <1>14
      <3>2. \A k \in ProgramColors :
              /\ OfColor(headSeg', k) =
                   IF k = ColorOf[e] /\ atHead
                   THEN Tail(OfColor(headSeg, k)) ELSE OfColor(headSeg, k)
              /\ OfColor(tailSeg', k) =
                   IF k = ColorOf[e] /\ ~atHead
                   THEN Tail(OfColor(tailSeg, k)) ELSE OfColor(tailSeg, k)
            BY <1>6, <1>14
      <3>3. /\ StatusOf(e)' = "running"
            /\ \A c \in Callbacks : c # e => StatusOf(c)' = StatusOf(c)
            BY <1>13, <1>14
      <3> QED BY <1>14, <2>1, <2>2, <3>1, <3>2, <3>3, PromisedStart
    <2> QED BY <1>12, <1>14, <2>3 DEF Promise!Next
  <1>15. CASE e \notin Callbacks
    <2>1. \A c \in Callbacks : StatusOf(c)' = StatusOf(c)
          BY <1>13, <1>15
    <2>2. \A k \in ProgramColors :
            /\ OfColor(headSeg', k) = OfColor(headSeg, k)
            /\ OfColor(tailSeg', k) = OfColor(tailSeg, k)
          BY <1>6, <1>15
    <2>3. UNCHANGED Promise!vars
          BY <2>1, <2>2, SameView
    <2> QED BY <1>12, <2>3
  <1> QED BY <1>14, <1>15

(* A callback of the program returns.                                      *)
LEMMA EndCallbackPlace ==
  ASSUME SafeInv, PlaceInv, NEW t \in Threads, EndCallback(t),
         NEW e \in Callbacks, running[t] = e
  PROVE  PlaceInv' /\ [Promise!Next]_(Promise!vars)
  <1>1. /\ pc[t] = "run" /\ pc' = [pc EXCEPT ![t] = "loop"]
        /\ running' = [running EXCEPT ![t] = "none"]
        /\ UNCHANGED <<headSeg, tailSeg, posting, dest, unposted, booted,
                       queueOf, acolor>>
        BY DEF EndCallback, listVars, postVars, bootVars
  <1>2. /\ t \in Actors /\ pc'[t] = "loop" /\ running'[t] = "none"
        /\ \A b \in Actors : b # t => pc'[b] = pc[b]
        /\ \A u \in Threads : u # t => running'[u] = running[u]
        BY <1>1, Names DEF SafeInv, TypeInv, TypeOK, ControlOK
  <1>3. ~Registers(t) /\ ~Registers(t)' /\ posting[t].cb = "none"
        BY <1>1, <1>2 DEF Registers, PlaceInv, Carried
  <1>4. \A u \in Threads, c \in Callbacks :
          running'[u] = c <=> running[u] = c /\ c # e
        BY <1>2, NoneIsNoCallback DEF PlaceInv, InOnePlace
  <1>5. \A c \in Callbacks : /\ Queued(c)' <=> Queued(c)
                             /\ ToPost(c)' <=> ToPost(c)
                             /\ Runs(c)' <=> Runs(c) /\ c # e
        BY <1>1, <1>4 DEF Queued, ToPost, Runs, Unbooted
  <1>6. Filed' /\ FiledOnce'
        BY <1>1 DEF PlaceInv, Filed, FiledOnce, NoTwice
  <1>7. Carried'
    <2> SUFFICES ASSUME NEW b \in Actors
                 PROVE  /\ ~Registers(b)' => posting[b].cb = "none"
                        /\ \A c \in Callbacks : posting[b].cb = c =>
                             /\ posting[b] = Posted(c)
                             /\ pc'[b] = "notify" =>
                                  Queued(c) /\ HomeOf(ListFor(c), dest[b])
        BY <1>1, <1>5 DEF Carried, HomeOf, ListFor, Queued
    <2>1. CASE b = t
          BY <1>3, <2>1, NoneIsNoCallback
    <2>2. CASE b # t
          BY <1>2, <2>2 DEF Registers, PlaceInv, Carried
    <2> QED BY <2>1, <2>2
  <1>8. RunsOwn'
    <2> SUFFICES ASSUME NEW u \in Threads, running'[u] \in Callbacks
                 PROVE  /\ Executing(u)' /\ posting[u].cb # "acheck"
                        /\ acolor[u] = ListFor(running'[u])
        BY <1>1 DEF RunsOwn, ListFor
    <2>1. u # t /\ running'[u] = running[u] /\ pc'[u] = pc[u]
          BY <1>2, NoneIsNoCallback, Names
    <2> QED BY <2>1 DEF PlaceInv, RunsOwn, Executing
  <1>9. Runs(e) /\ ~Queued(e) /\ ~ToPost(e) /\ \A b \in Actors : posting[b].cb # e
    <2>1. Runs(e)
          BY DEF Runs
    <2> QED BY <2>1 DEF PlaceInv, InOnePlace
  <1>10. InOnePlace'
    <2> SUFFICES ASSUME NEW c \in Callbacks
        PROVE /\ Queued(c) => ~Runs(c)' /\ ~ToPost(c)
              /\ Runs(c)' => ~ToPost(c)
              /\ c \in unposted => c \notin Unbooted
              /\ \A b \in Actors :
                   posting[b].cb = c => /\ ~Runs(c)' /\ ~ToPost(c)
                                        /\ Queued(c) => pc'[b] = "notify"
                                        /\ \A o \in Actors :
                                             posting[o].cb = c => b = o
              /\ \A u, v \in Threads : running'[u] = c /\ running'[v] = c
                                         => u = v
        BY <1>1, <1>5 DEF InOnePlace, Unbooted
    <2>1. \A b \in Actors : posting[b].cb = c => pc'[b] = pc[b]
          BY <1>2, <1>3, NoneIsNoCallback
    <2> QED BY <1>4, <1>5, <2>1 DEF PlaceInv, InOnePlace
  <1>11. PlaceInv'
        BY <1>6, <1>7, <1>8, <1>10 DEF PlaceInv
  <1>12. \A c \in Callbacks : c # e => StatusOf(c)' = StatusOf(c)
        BY <1>1, <1>5 DEF StatusOf, ToPost
  <1>13. StatusOf(e) = "running" /\ StatusOf(e)' = "done"
        BY <1>1, <1>5, <1>9 DEF StatusOf, ToPost
  <1>14. Promise!Finish(e)
        BY <1>1, <1>12, <1>13, PromisedFinish
  <1> QED BY <1>11, <1>14 DEF Promise!Next

-----------------------------------------------------------------------------
(* The refinement *)

(* The initial states map to the initial state of the promise. *)
LEMMA PromisedInit == Init => PlaceInv /\ Promise!Init
  <1> SUFFICES ASSUME Init PROVE PlaceInv /\ Promise!Init
      OBVIOUS
  <1> USE DEF Init
  <1>1. /\ \A l \in Lists : headSeg[l] = <<>> /\ tailSeg[l] = <<>>
        /\ \A a \in Actors : posting[a].cb = "none" /\ pc[a] \in {"run", "off"}
        /\ \A t \in Threads : running[t] = "none"
        BY DEF Post0
  <1>2. \A c \in Callbacks : ~Queued(c) /\ ~Runs(c)
    <2>1. ListsOK
          BY TypeInvInit DEF TypeInv, TypeOK
    <2> QED BY <1>1, <2>1, QueuedIn, EmptyList, NoneIsNoCallback DEF Runs
  <1>3. Unbooted = ToSet(BootProgram) /\ unposted = Callbacks \ Unbooted
    <2>1. BootProgram \in Seq(Callbacks)
          BY SchedulerAssumption DEF SchedulerAssumption
    <2>2. /\ ToSet(BootProgram) = {BootProgram[i] : i \in 1 .. Len(BootProgram)}
          /\ 0 + 1 = 1
          BY <2>1, ElementsOf
    <2> QED BY <2>2 DEF Unbooted
  <1>4. PlaceInv
    <2>1. Filed
          BY <1>1, EmptyList DEF Filed
    <2>2. FiledOnce
          BY <1>1, EmptyList DEF FiledOnce, NoTwice
    <2>3. Carried /\ RunsOwn
          BY <1>1, NoneIsNoCallback DEF Carried, RunsOwn
    <2>4. InOnePlace
          BY <1>1, <1>2, <1>3, NoneIsNoCallback DEF InOnePlace
    <2> QED BY <2>1, <2>2, <2>3, <2>4 DEF PlaceInv
  <1>5. \A c \in Callbacks : StatusOf(c) = "idle"
        BY <1>2, <1>3 DEF StatusOf
  <1>6. \A k \in ProgramColors : /\ OfColor(headSeg, k) = <<>>
                                 /\ OfColor(tailSeg, k) = <<>>
        BY <1>1, ListForType, SelectedEmpty DEF OfColor
  <1>7. /\ [c \in Callbacks |-> StatusOf(c)] = [c \in Callbacks |-> "idle"]
        /\ [k \in ProgramColors |-> OfColor(headSeg, k)]
             = [k \in ProgramColors |-> <<>>]
        /\ [k \in ProgramColors |-> OfColor(tailSeg, k)]
             = [k \in ProgramColors |-> <<>>]
        BY <1>5, <1>6
  <1>8. Promise!Init
        BY <1>7 DEF Promise!Init, Promise!Colors, ProgramColors
  <1> QED BY <1>4, <1>8

(* Each step is one of ColoredTasks, or changes nothing that it shows.     *)
LEMMA PromisedStep ==
  SafeInv /\ CalmInv /\ PlaceInv /\ [Next]_vars
    => PlaceInv' /\ [Promise!Next]_(Promise!vars)
  <1> SUFFICES ASSUME SafeInv, CalmInv, PlaceInv, [Next]_vars
               PROVE  PlaceInv' /\ [Promise!Next]_(Promise!vars)
      OBVIOUS
  <1>0. TypeInv
        BY DEF SafeInv
  <1>1. CASE UNCHANGED vars
    <2>1. /\ UNCHANGED <<headSeg, tailSeg, posting, unposted, booted, running,
                         pc, dest, queueOf, acolor>>
          BY <1>1 DEF vars, listVars, postVars, bootVars
    <2> QED BY <2>1, QuietPlace
            DEF HomeOf, PlaceInv, RunsOwn, Registers, Executing
  <1>2. ASSUME NEW a \in Actors, PostSteps(a)
        PROVE  PlaceInv' /\ [Promise!Next]_(Promise!vars)
        BY <1>0, <1>2, ReadPlace, RegisterPlace, NotifyPlace DEF PostSteps
  <1>3. ASSUME NEW t \in Threads, NEW c \in Callbacks, Post(t, c)
        PROVE  PlaceInv' /\ [Promise!Next]_(Promise!vars)
        BY <1>0, <1>3, PostPlace
  <1>4. ASSUME NEW t \in Threads, LoopSteps(t)
        PROVE  PlaceInv' /\ [Promise!Next]_(Promise!vars)
    <2>1. CASE BeginSteal(t)
          BY <2>1, LoopPlace
    <2>2. CASE NextTask(t)
          BY <2>2, NextTaskPlace
    <2>3. CASE EndCallback(t) /\ running[t] \in Callbacks
          BY <2>3, EndCallbackPlace
    <2>4. CASE EndCallback(t) /\ running[t] \notin Callbacks
          BY <2>4, LoopPlace
    <2> QED BY <1>4, <2>1, <2>2, <2>3, <2>4 DEF LoopSteps
  <1>5. ASSUME NEW t \in Threads, StealSteps(t)
        PROVE  PlaceInv' /\ [Promise!Next]_(Promise!vars)
        BY <1>5, LoopPlace
  <1>6. ASSUME NEW t \in Threads, PollSteps(t) \/ Event(t)
        PROVE  PlaceInv' /\ [Promise!Next]_(Promise!vars)
        BY <1>0, <1>6, PollPlace, RepostPlace DEF PollSteps
  <1>7. CASE BootPost
        BY <1>0, <1>7, BootPostPlace
  <1>8. CASE TaskGo
        BY <1>8, TaskGoPlace
  <1> QED BY <1>1, <1>2, <1>3, <1>4, <1>5, <1>6, <1>7, <1>8 DEF Next

(* The promise of Mely to a program (the global view of task.lbc.C:25-31): *)
(* whatever the number of threads and colors, and whatever posts, steals   *)
(* and insertions interleave, a posted callback runs once, in the order of *)
(* its color and never together with another one of its color.             *)
THEOREM PromiseKept == ASSUME ColorsFit PROVE Spec => ImplementsColoredTasks
  <1>1. Init => PlaceInv /\ Promise!Init
        BY PromisedInit
  <1>2. SafeInv /\ CalmInv /\ PlaceInv /\ [Next]_vars
          => PlaceInv' /\ [Promise!Next]_(Promise!vars)
        BY PromisedStep
  <1>3. Spec => []SafeInv
        BY SafeInvariant
  <1>4. Spec => []CalmInv
        BY CalmInvariant
  <1> QED BY <1>1, <1>2, <1>3, <1>4, PTL
          DEF Spec, ImplementsColoredTasks, Promise!Spec
=============================================================================
