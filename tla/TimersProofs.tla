----------------------------- MODULE TimersProofs -----------------------------
(***************************************************************************)
(* What holds of the timers for every number of threads, of colors and of  *)
(* timers, and for every program that sets and cancels them.               *)
(***************************************************************************)
EXTENDS Timers, ListLemmas, FiniteSetTheorems

Steps == {"loop", "wake", "timer", "steal", "fill", "lock", "scan", "refill",
          "compare", "subtract", "enter", "asleep", "late", "fault"}

TreesOK ==
  /\ timecbs \in Seq(Timers)
  /\ active \subseteq Timers /\ cancel \subseteq Timers
  /\ freed \subseteq Timers /\ ran \subseteq Timers
  /\ date \in [Timers -> Dates \cup {-1}]
  /\ nb \in Int
  /\ ahead \subseteq Timers \X Timers

PlacesOK ==
  /\ lock \in Threads \cup {Nobody}
  /\ owner \in [Colors -> Threads \cup {Nobody}]
  /\ queue \in [Colors -> Seq(Timers)]
  /\ asked \in [Threads -> BOOLEAN]
  /\ loot \in [Threads -> Colors \cup {Nobody}]

ThreadsOK ==
  /\ pc \in [Threads -> Steps]
  /\ got \in [Threads -> Nat]
  /\ left \in [Threads -> SUBSET Fields]
  /\ first \in [Threads -> Timers \cup {None}]
  /\ ots \in [Threads -> -1 .. MaxClock]
  /\ wait \in [Threads -> Int]
  /\ \A t \in Threads : pc[t] \in {"wake", "timer"} => first[t] \in Timers
  /\ \A t \in Threads : pc[t] = "steal" => loot[t] \in Colors

TimeOK ==
  /\ program \in Programs
  /\ clock \in Nat
  /\ tsnow \in [Fields -> Nat]

TypeOK == TreesOK /\ PlacesOK /\ ThreadsOK /\ TimeOK

-----------------------------------------------------------------------------
(* The inductive invariant *)

(* A color in flight has no owner and one thief; a callback runs on the    *)
(* thread that owns its color.                                             *)
OneOwner ==
  /\ \A t \in Threads : pc[t] = "timer" => owner[ColorOf[first[t]]] = t
  /\ \A t \in Threads : pc[t] = "steal" => owner[loot[t]] = Nobody
  /\ \A t \in Threads : pc[t] # "steal" => loot[t] = Nobody
  /\ \A t, u \in Threads :
       pc[t] = "steal" /\ pc[u] = "steal" /\ loot[t] = loot[u] => t = u

(* cb_mu_global is held by the thread that scans, and by no other; what it *)
(* read first is still true.                                               *)
LockHeld ==
  /\ \A t \in Threads : pc[t] = "scan" <=> lock = t
  /\ \A t \in Threads : pc[t] = "scan" /\ first[t] = None => timecbs = <<>>

Posted(x) == x \in ToSet(queue[ColorOf[x]])
Waits(x)  == x \in ToSet(timecbs)
Runs(x)   == \E t \in Threads : pc[t] = "timer" /\ first[t] = x

(* The lists hold nothing twice, and a do_timecb is queued on the color of *)
(* its timer.                                                              *)
ListsSound ==
  /\ IsInjective(timecbs)
  /\ \A c \in Colors : IsInjective(queue[c])
  /\ \A c \in Colors : \A x \in ToSet(queue[c]) : ColorOf[x] = c

PlaceOf(x) ==
  /\ Waits(x) => ~Posted(x) /\ ~Runs(x) /\ x \in Known \ cancel
  /\ Posted(x) => ~Runs(x) /\ x \in Known
  /\ Runs(x) => x \in Known
  /\ x \in Known => Waits(x) \/ Posted(x) \/ Runs(x)
  /\ x \in freed => x \notin Known
  /\ x \in cancel => x \in Known \cup freed
  /\ x \in active <=> Posted(x) /\ x \notin cancel
  /\ x \in ran => x \in freed /\ x \notin cancel

EachPlaced == \A x \in Timers : PlaceOf(x)

(* nb_timecbs may only be too large: a cancelled timer stays counted.      *)
NeverTooSmall == nb >= Len(timecbs)

(* The tree is in the order of the dates. *)
ByDate ==
  \A i, j \in 1 .. Len(timecbs) :
    i < j => date[timecbs[i]] <= date[timecbs[j]]

(* What waited in front of x is still in front of it, on its way to its    *)
(* callback, until x runs.                                                 *)
KeptOrder(y, x) ==
  /\ y \in Known \cup freed /\ x \in Known \cup freed
  /\ Waits(x) /\ Waits(y) => Before(timecbs, y, x)
  /\ ColorOf[x] = ColorOf[y] /\ Posted(x) =>
       \/ y \in freed \cup cancel \/ Runs(y)
       \/ Before(queue[ColorOf[x]], y, x)
  /\ ColorOf[x] = ColorOf[y] /\ Runs(x) => y \in freed \cup cancel

OrderKept == \A y, x \in Timers : <<y, x>> \in ahead => KeptOrder(y, x)

(* A thread that has still to look at the tree, or that waits no longer    *)
(* than for the first timer it saw there.  If a thread is lost in          *)
(* wakeup_fdwatcher(-1), the others may all wait for ever.                 *)
WillLook(t) ==
  \/ pc[t] \in Steps \ {"subtract", "enter", "asleep", "late", "fault"}
  \/ pc[t] = "subtract" /\ ots[t] >= Tsnow
  \/ pc[t] = "enter" /\ 0 <= wait[t] /\ wait[t] < Long
  \/ Waiting(t) /\ (asked[t] \/ wait[t] < Long)

SomebodyLooks ==
  timecbs # <<>> /\ WakesAThread => \E t \in Threads : WillLook(t)

-----------------------------------------------------------------------------
(* Constants, numbers, lists *)

(* Threads and timers are numbers, Nobody and None are others; a timer has *)
(* the color of its callback.                                              *)
LEMMA Constants ==
  /\ Nobody \notin Threads /\ None \notin Timers
  /\ Threads \subseteq Nat /\ Colors \subseteq Nat
  /\ Nobody \notin Colors
  /\ \A x \in Timers : ColorOf[x] \in Colors
  /\ Dates \subseteq 0 .. MaxClock /\ MaxClock \in Nat
  /\ Second \in Nat /\ Second > 0
  /\ \A p \in Programs : /\ p.timers \subseteq Timers /\ p.dates \subseteq Dates
                         /\ p.last \in 0 .. MaxClock
  BY TimersAssumption DEF TimersAssumption, Threads, Nobody, None

(* A number is its quotient and its remainder. *)
LEMMA TwoFields ==
  ASSUME NEW n \in Int
  PROVE  /\ FieldOf(n, "sec") \in Int /\ FieldOf(n, "nsec") \in Nat
         /\ FieldOf(n, "sec") * Second + FieldOf(n, "nsec") = n
         /\ n \in Nat => FieldOf(n, "sec") \in Nat
  BY Constants DEF FieldOf

(* Arithmetic of dates in ticks. *)
LEMMA Distribute ==
  ASSUME NEW a \in Int, NEW b \in Int, NEW s \in Int
  PROVE  /\ (a - b) * s = a * s - b * s
         /\ (a - b - 1) * s = a * s - b * s - s
         /\ a * s \in Int
  OBVIOUS

(* The instant in tsnow is a number of ticks, torn or not. *)
LEMMA TsnowType ==
  ASSUME tsnow \in [Fields -> Nat]
  PROVE  Tsnow \in Nat
  <1>1. tsnow["sec"] \in Nat /\ tsnow["nsec"] \in Nat
        BY DEF Fields
  <1>2. \A a, b \in Nat : a * b \in Nat
        OBVIOUS
  <1>3. tsnow["sec"] * Second \in Nat
        BY <1>1, <1>2, Constants
  <1> QED BY <1>1, <1>3 DEF Tsnow

(* timecb puts the timer behind those that are not later. *)
LEMMA InsertedSorted ==
  ASSUME NEW S, NEW l \in Seq(S), NEW ks, NEW e \in S
  PROVE  \E i \in 1 .. Len(l) + 1 :
           /\ Keyed!InsertSorted(l, ks, e) = InsertAt(l, i, e)
           /\ \A j \in 1 .. Len(l) : j < i => ~(ks[l[j]] > ks[e])
           /\ i <= Len(l) => ks[l[i]] > ks[e]
  <1> DEFINE T == {j \in 1 .. Len(l) : ks[l[j]] > ks[e]}
             larger == IF T # {} THEN Min(T) ELSE 0
  <1>1. Len(l) \in Nat
        BY ElementsOf
  <1>2. Keyed!InsertSorted(l, ks, e)
          = InsertAt(l, IF larger = 0 THEN Len(l) + 1 ELSE larger, e)
        BY DEF Keyed!InsertSorted, Keyed!SelectInSeq, Keyed!InsertAt,
               InsertAt, Keyed!Min, Min
  <1>3. CASE T = {}
    <2>1. larger = 0
          BY <1>3
    <2> QED BY <1>1, <1>2, <1>3, <2>1
  <1>4. CASE T # {}
    <2>0. T \subseteq 1 .. Len(l)
          OBVIOUS
    <2> HIDE DEF T
    <2>1. Min(T) \in T /\ \A j \in T : Min(T) <= j
          BY <1>1, <1>4, <2>0, MinOfBounded
    <2> USE DEF T
    <2>2. larger = Min(T) /\ Min(T) \in 1 .. Len(l) /\ ks[l[Min(T)]] > ks[e]
          BY <1>4, <2>1
    <2>3. \A j \in 1 .. Len(l) : j < Min(T) => ~(ks[l[j]] > ks[e])
          BY <2>1, <2>2, <1>1
    <2>4. /\ Keyed!InsertSorted(l, ks, e) = InsertAt(l, larger, e)
          /\ larger \in 1 .. Len(l) + 1
      <3> HIDE DEF larger
      <3> QED BY <1>1, <1>2, <2>2
    <2> QED BY <1>1, <2>2, <2>3, <2>4
  <1> QED BY <1>3, <1>4

-----------------------------------------------------------------------------
(* The types *)

(* Before any timer is set every variable has its type. *)
LEMMA TypeInit == Init => TypeOK
  <1> SUFFICES ASSUME Init PROVE TypeOK
      OBVIOUS
  <1>1. \A c \in Colors : c % NThreads \in Threads
        BY TimersAssumption DEF TimersAssumption, Threads
  <1>2. MaxClock \in Nat
        BY Constants
  <1> QED BY <1>1, <1>2
          DEF Init, TypeOK, TreesOK, PlacesOK, ThreadsOK, TimeOK, Steps, Fields

(* The program sets and cancels timers. *)
LEMMA TypeProgram ==
  ASSUME TypeOK, UNCHANGED program, NEW t \in Threads,
         NEW x \in program.timers,
         \/ \E d \in program.dates : InsertTimer(t, x, d)
         \/ RemoveTimer(t, x)
  PROVE  TypeOK'
  <1> USE DEF TypeOK, TreesOK, PlacesOK, ThreadsOK, TimeOK
  <1>0. x \in Timers /\ program.dates \subseteq Dates
        BY Constants
  <1>1. ASSUME NEW d \in program.dates, InsertTimer(t, x, d)
        PROVE  TypeOK'
    <2>1. timecbs' \in Seq(Timers)
      <3>1. PICK i \in 1 .. Len(timecbs) + 1 :
              timecbs' = InsertAt(timecbs, i, x)
            BY <1>0, <1>1, InsertedSorted DEF InsertTimer
      <3> QED BY <1>0, <3>1, InsertedAt
    <2>2. TreesOK'
      <3>1. date' \in [Timers -> Dates \cup {-1}]
            BY <1>0, <1>1 DEF InsertTimer
      <3>2. ahead' \subseteq Timers \X Timers /\ nb' \in Int
            BY <1>1 DEF InsertTimer, InOrder
      <3> QED BY <1>1, <2>1, <3>1, <3>2 DEF InsertTimer, doneVars
    <2>3. ThreadsOK'
          BY <1>0, <1>1
          DEF InsertTimer, Goto, Steps, placeVars
    <2> QED BY <1>1, <2>2, <2>3 DEF InsertTimer, placeVars, timeVars
  <1>2. CASE RemoveTimer(t, x)
    <2>1. timecbs' \in Seq(Timers)
      <3>1. CASE timecbs' = RemoveFirst(timecbs, x) /\ x \in ToSet(timecbs)
        <4>1. PICK i \in 1 .. Len(timecbs) :
                RemoveFirst(timecbs, x) = RemoveAt(timecbs, i)
              BY <3>1, RemovedFirst
        <4> QED BY <3>1, <4>1, RemovedAt
      <3>2. CASE timecbs' = RemoveFirst(timecbs, x) /\ x \notin ToSet(timecbs)
        <4>1. RemoveFirst(timecbs, x) = timecbs
              BY <3>2, ElementsOf DEF RemoveFirst
        <4> QED BY <3>2, <4>1
      <3> QED BY <1>2, <3>1, <3>2 DEF RemoveTimer
    <2>2. TreesOK'
          BY <1>0, <1>2, <2>1 DEF RemoveTimer
    <2>3. PlacesOK' /\ ThreadsOK' /\ TimeOK'
          BY <1>2 DEF RemoveTimer, timeVars, placeVars, threadVars
    <2> QED BY <2>2, <2>3
  <1> QED BY <1>1, <1>2

(* A callback starts and ends. *)
LEMMA TypeRun ==
  ASSUME TypeOK, UNCHANGED program, NEW t \in Threads, RunSteps(t)
  PROVE  TypeOK'
  <1> USE DEF TypeOK, TreesOK, PlacesOK, ThreadsOK, TimeOK
  <1>1. CASE RunTimer(t)
    <2>1. TreesOK'
          BY <1>1 DEF RunTimer
    <2>2. ThreadsOK'
          BY <1>1 DEF RunTimer, Goto, Steps, placeVars
    <2> QED BY <1>1, <2>1, <2>2 DEF RunTimer, timeVars, placeVars
  <1>2. CASE WakeOwner(t)
    <2>1. asked' \in [Threads -> BOOLEAN]
          BY <1>2 DEF WakeOwner
    <2>2. ThreadsOK'
      <3>1. /\ \E p \in {"loop", "fault"} : pc' = [pc EXCEPT ![t] = p]
            /\ first' = [first EXCEPT ![t] = None]
            /\ UNCHANGED <<got, left, ots, wait, loot>>
            BY <1>2 DEF WakeOwner, Goto
      <3> QED BY <3>1 DEF Steps
    <2> QED BY <1>2, <2>1, <2>2 DEF WakeOwner, timeVars, treeVars, doneVars
  <1>3. ASSUME NEW c \in Colors, StartTimer(t, c)
        PROVE  TypeOK'
    <2>1. Head(queue[c]) \in Timers /\ Tail(queue[c]) \in Seq(Timers)
          BY <1>3, HeadOf, ElementsOf, TailElements DEF StartTimer
    <2>2. queue' \in [Colors -> Seq(Timers)]
          BY <1>3, <2>1 DEF StartTimer
    <2>3. ThreadsOK'
          BY <1>3, <2>1 DEF StartTimer, Goto, Steps
    <2>4. active' \subseteq Timers
          BY <1>3 DEF StartTimer
    <2> QED BY <1>3, <2>2, <2>3, <2>4 DEF StartTimer, timeVars, doneVars
  <1> QED BY <1>1, <1>2, <1>3 DEF RunSteps

(* The polling task of a thread. *)
LEMMA TypeCheck ==
  ASSUME TypeOK, UNCHANGED program, NEW t \in Threads, CheckSteps(t)
  PROVE  TypeOK'
  <1> USE DEF TypeOK, TreesOK, PlacesOK, ThreadsOK, TimeOK
  <1>0. Long \in Nat /\ MaxClock \in Nat
        BY Constants DEF Long
  <1>1. CASE BeginCheck(t)
    <2>1. CASE nb = 0
      <3>1. /\ pc' = [pc EXCEPT ![t] = "enter"]
            /\ wait' = [wait EXCEPT ![t] = Long]
            /\ UNCHANGED <<got, left, first, ots, loot>>
            BY <1>1, <2>1 DEF BeginCheck, Goto
      <3>2. ThreadsOK'
            BY <1>0, <3>1 DEF Steps
      <3> QED BY <1>1, <3>2
              DEF BeginCheck, timeVars, treeVars, doneVars
    <2>2. CASE nb # 0
      <3>1. /\ pc' = [pc EXCEPT ![t] = "fill"]
            /\ got' = [got EXCEPT ![t] = clock]
            /\ left' = [left EXCEPT ![t] = Fields]
            /\ UNCHANGED <<wait, first, ots, loot>>
            BY <1>1, <2>2 DEF BeginCheck, Goto
      <3>2. ThreadsOK'
            BY <3>1 DEF Steps
      <3> QED BY <1>1, <3>2
              DEF BeginCheck, timeVars, treeVars, doneVars
    <2> QED BY <2>1, <2>2
  <1>2. CASE FillTsnow(t)
    <2>1. PICK f \in left[t] :
            /\ tsnow' = [tsnow EXCEPT ![f] = FieldOf(got[t], f)]
            /\ left' = [left EXCEPT ![t] = @ \ {f}]
          BY <1>2 DEF FillTsnow
    <2>2. f \in {"sec", "nsec"} /\ got[t] \in Nat
          BY DEF Fields
    <2>3. FieldOf(got[t], f) \in Nat
      <3>1. FieldOf(got[t], "sec") \in Nat /\ FieldOf(got[t], "nsec") \in Nat
        <4> HIDE DEF ThreadsOK, TreesOK, PlacesOK, TimeOK, TypeOK
        <4> QED BY <2>2, TwoFields
      <3> QED BY <2>2, <3>1
    <2>4. tsnow' \in [Fields -> Nat]
          BY <2>1, <2>3
    <2>5. ThreadsOK'
      <3>1. /\ \E p \in {"fill", "refill", "lock", "compare"} :
                 pc' = [pc EXCEPT ![t] = p]
            /\ got' \in [Threads -> Nat]
            /\ left' \in [Threads -> SUBSET Fields]
            /\ UNCHANGED <<first, ots, wait, loot>>
        <4>1. pc = [pc EXCEPT ![t] = pc[t]] /\ pc[t] \in {"fill", "refill"}
              BY <1>2 DEF FillTsnow
        <4>2. CASE left'[t] # {}
              BY <1>2, <2>1, <4>1, <4>2 DEF FillTsnow, placeVars
        <4>3. CASE left'[t] = {}
          <5> DEFINE p == IF pc[t] = "fill" THEN "lock" ELSE "compare"
          <5>1. pc' = [pc EXCEPT ![t] = p] /\ p \in {"lock", "compare"}
                BY <1>2, <4>3 DEF FillTsnow, Goto
          <5>2. got' = [got EXCEPT ![t] = 0]
                BY <1>2, <4>3 DEF FillTsnow
          <5> HIDE DEF p
          <5> QED BY <1>2, <2>1, <5>1, <5>2 DEF FillTsnow, placeVars
        <4> QED BY <4>2, <4>3
      <3> QED BY <3>1 DEF Steps
    <2> QED BY <1>2, <2>4, <2>5 DEF FillTsnow, treeVars, doneVars, placeVars
  <1>3. CASE LockTimers(t)
    <2>1. timecbs # <<>> => Head(timecbs) \in Timers
          BY HeadOf, ElementsOf
    <2>2. ThreadsOK'
          BY <1>3, <2>1 DEF LockTimers, Goto, Steps, placeVars
    <2> QED BY <1>3, <2>2
            DEF LockTimers, timeVars, treeVars, doneVars, placeVars
  <1>4. CASE Expire(t)
    <2> DEFINE x == Head(timecbs)
    <2>1. timecbs # <<>>
          BY <1>4 DEF Expire, Expired
    <2>2. x \in Timers /\ Tail(timecbs) \in Seq(Timers)
          BY <2>1, HeadOf, ElementsOf, TailElements
    <2>3. ColorOf[x] \in Colors
          BY <2>2, Constants
    <2> HIDE DEF x
    <2>4. /\ timecbs' = Tail(timecbs) /\ active' = active \cup {x}
          /\ queue' = [queue EXCEPT ![ColorOf[x]] = Append(@, x)]
          /\ owner[ColorOf[x]] # Nobody
          /\ asked' = AskedToRun(owner[ColorOf[x]], t)
          BY <1>4 DEF Expire, x
    <2>5. Append(queue[ColorOf[x]], x) \in Seq(Timers)
          BY <2>2, <2>3, AppendedElements
    <2>6. queue' \in [Colors -> Seq(Timers)]
          BY <2>3, <2>4, <2>5
    <2>7. asked' \in [Threads -> BOOLEAN]
          BY <2>3, <2>4 DEF AskedToRun
    <2>8. TreesOK'
          BY <1>4, <2>2, <2>4 DEF Expire, doneVars
    <2> QED BY <1>4, <2>6, <2>7, <2>8 DEF Expire, timeVars, threadVars
  <1>5. CASE UnlockTimers(t)
    <2>1. first[t] # None => date[first[t]] \in -1 .. MaxClock
      <3>1. first[t] # None => date[first[t]] \in Dates \cup {-1}
            OBVIOUS
      <3>2. Dates \cup {-1} \subseteq -1 .. MaxClock
            BY Constants
      <3> QED BY <3>1, <3>2
    <2>2. ThreadsOK'
      <3>1. /\ \E p \in {"enter", "refill"} : pc' = [pc EXCEPT ![t] = p]
            /\ first' = [first EXCEPT ![t] = None]
            /\ UNCHANGED loot
            BY <1>5 DEF UnlockTimers, Goto, placeVars
      <3>2. CASE first[t] = None
        <4>1. /\ wait' = [wait EXCEPT ![t] = Long]
              /\ UNCHANGED <<ots, got, left>>
              BY <1>5, <3>2 DEF UnlockTimers
        <4> QED BY <1>0, <3>1, <4>1 DEF Steps
      <3>3. CASE first[t] # None
        <4>1. /\ ots' = [ots EXCEPT ![t] = date[first[t]]]
              /\ got' = [got EXCEPT ![t] = clock]
              /\ left' = [left EXCEPT ![t] = Fields]
              /\ UNCHANGED wait
              BY <1>5, <3>3 DEF UnlockTimers
        <4> QED BY <2>1, <3>1, <3>3, <4>1 DEF Steps
      <3> QED BY <3>2, <3>3
    <2> QED BY <1>5, <2>2
            DEF UnlockTimers, timeVars, treeVars, doneVars, placeVars
  <1>6. CASE Compare(t)
    <2>1. /\ \E p \in {"enter", "subtract"} : pc' = [pc EXCEPT ![t] = p]
          /\ wait' \in [Threads -> Int]
          /\ UNCHANGED <<got, left, first, ots, loot>>
          BY <1>6 DEF Compare, Goto, placeVars
    <2>2. ThreadsOK'
          BY <2>1 DEF Steps
    <2> QED BY <1>6, <2>2
            DEF Compare, timeVars, treeVars, doneVars, placeVars
  <1>7. CASE Subtract(t)
    <2> DEFINE sec  == FieldOf(ots[t], "sec") - tsnow["sec"]
               nsec == FieldOf(ots[t], "nsec") - tsnow["nsec"]
    <2>1. sec \in Int /\ nsec \in Int
      <3>1. ots[t] \in Int /\ tsnow["sec"] \in Nat /\ tsnow["nsec"] \in Nat
            BY <1>0 DEF Fields
      <3>2. FieldOf(ots[t], "sec") \in Int /\ FieldOf(ots[t], "nsec") \in Nat
            BY <3>1, TwoFields
      <3> QED BY <3>1, <3>2
    <2>2. \A a, b \in Int : a * b \in Int
          OBVIOUS
    <2> HIDE DEF sec, nsec
    <2>3. sec * Second + nsec \in Int
          /\ (sec - 1) * Second + (Second + nsec) \in Int
          BY <2>1, <2>2, Constants
    <2>4. wait' \in [Threads -> Int]
          BY <1>7, <2>3 DEF Subtract, sec, nsec
    <2>5. ThreadsOK'
          BY <1>7, <2>4 DEF Subtract, Goto, Steps, placeVars
    <2> QED BY <1>7, <2>5
            DEF Subtract, timeVars, treeVars, doneVars, placeVars
  <1>8. CASE EnterEpoll(t)
    <2>1. program.last \in Int /\ clock + wait[t] \in Int
          BY Constants
    <2>2. Min({program.last, clock + wait[t]}) \in Int
          BY <2>1, MinOfTwo
    <2>3. wait' \in [Threads -> Int]
          BY <1>0, <1>8, <2>2 DEF EnterEpoll
    <2>4. ThreadsOK'
      <3>1. /\ \E p \in {"loop", "asleep", "late"} : pc' = [pc EXCEPT ![t] = p]
            /\ ots' = [ots EXCEPT ![t] = 0]
            /\ UNCHANGED <<got, left, first, loot>>
            BY <1>8 DEF EnterEpoll, Goto
      <3> QED BY <1>0, <2>3, <3>1 DEF Steps
    <2> QED BY <1>8, <2>4 DEF EnterEpoll, timeVars, treeVars, doneVars
  <1>9. CASE Return(t)
    <2>1. ThreadsOK'
          BY <1>9 DEF Return, Goto, Steps, placeVars
    <2> QED BY <1>9, <2>1 DEF Return, timeVars, treeVars, doneVars, placeVars
  <1> QED BY <1>1, <1>2, <1>3, <1>4, <1>5, <1>6, <1>7, <1>8, <1>9
          DEF CheckSteps

(* Thefts and the clock. *)
LEMMA TypeOthers ==
  ASSUME TypeOK, UNCHANGED program, NEW t \in Threads,
         Land(t) \/ (\E c \in Colors : Steal(t, c)) \/ Tick
  PROVE  TypeOK'
  <1> USE DEF TypeOK, TreesOK, PlacesOK, ThreadsOK, TimeOK
  <1>1. CASE Land(t)
        BY <1>1 DEF Land, Goto, Steps, timeVars, treeVars, doneVars, threadVars
  <1>2. ASSUME NEW c \in Colors, Steal(t, c)
        PROVE  TypeOK'
        BY <1>2 DEF Steal, Goto, Steps, timeVars, treeVars, doneVars,
                    threadVars
  <1>3. CASE Tick
        BY <1>3 DEF Tick, treeVars, doneVars, placeVars, threadVars
  <1> QED BY <1>1, <1>2, <1>3

(* The type invariant is inductive. *)
LEMMA TypeStep == TypeOK /\ [Next]_vars => TypeOK'
  <1> SUFFICES ASSUME TypeOK, [Next]_vars PROVE TypeOK'
      OBVIOUS
  <1>1. CASE UNCHANGED vars
        BY <1>1 DEF vars, timeVars, treeVars, doneVars, placeVars, threadVars,
                    TypeOK, TreesOK, PlacesOK, ThreadsOK, TimeOK
  <1>2. CASE Next
    <2>1. 0 \in Threads
          BY TimersAssumption DEF TimersAssumption, Threads
    <2> QED BY <1>2, <2>1, TypeProgram, TypeRun, TypeCheck, TypeOthers
            DEF Next, Same, ProgramSteps
  <1> QED BY <1>1, <1>2

(* Whatever the program sets and cancels and whatever the threads race on, *)
(* every variable of the timers keeps its type: a thread about to run or   *)
(* to wake has a timer, a torn tsnow is still a number.                    *)
THEOREM TypeCorrect == Spec => []TypeOK
  BY TypeInit, TypeStep, PTL DEF Spec

(* The steps of the timers, one by one. *)
LEMMA NextCases ==
  ASSUME TypeOK, [Next]_vars
  PROVE  \/ UNCHANGED vars
         \/ \E t \in Threads : CheckSteps(t)
         \/ \E t \in Threads, x \in Timers, d \in Dates : InsertTimer(t, x, d)
         \/ \E t \in Threads, x \in Timers : RemoveTimer(t, x)
         \/ \E t \in Threads : RunTimer(t)
         \/ \E t \in Threads : WakeOwner(t)
         \/ \E t \in Threads, c \in Colors : StartTimer(t, c)
         \/ \E t \in Threads : Land(t)
         \/ \E t \in Threads, c \in Colors : Steal(t, c)
         \/ Tick
  <1>1. program.timers \subseteq Timers /\ program.dates \subseteq Dates
        BY Constants DEF TypeOK, TimeOK
  <1>2. ASSUME NEW t \in Threads, ProgramSteps(t)
        PROVE  \/ \E x \in Timers, d \in Dates : InsertTimer(t, x, d)
               \/ \E x \in Timers : RemoveTimer(t, x)
        BY <1>1, <1>2 DEF ProgramSteps
  <1> QED BY <1>2 DEF Next, RunSteps

-----------------------------------------------------------------------------
(* Owners and the lock *)

(* A step that touches neither an owner nor a stolen color, and moves one   *)
(* thread to where it runs no callback and carries no loot, keeps OneOwner.  *)
LEMMA OwnersKept ==
  ASSUME OneOwner, NEW t \in Threads, UNCHANGED <<owner, loot>>,
         pc[t] # "steal", pc'[t] # "timer", pc'[t] # "steal",
         \A u \in Threads : u # t => pc'[u] = pc[u] /\ first'[u] = first[u]
  PROVE  OneOwner'
  <1>1. \A u \in Threads : pc'[u] = "steal" <=> pc[u] = "steal"
        OBVIOUS
  <1>2. ASSUME NEW u \in Threads, pc'[u] = "timer"
        PROVE  owner'[ColorOf[first'[u]]] = u
        BY <1>2 DEF OneOwner
  <1>3. \A u \in Threads : pc'[u] = "steal" => owner'[loot'[u]] = Nobody
        BY <1>1 DEF OneOwner
  <1>4. \A u \in Threads : pc'[u] # "steal" => loot'[u] = Nobody
        BY <1>1 DEF OneOwner
  <1>5. \A u, v \in Threads :
          pc'[u] = "steal" /\ pc'[v] = "steal" /\ loot'[u] = loot'[v] => u = v
        BY <1>1 DEF OneOwner
  <1> QED BY <1>2, <1>3, <1>4, <1>5 DEF OneOwner

(* Colors change hands only in thefts, and only while they do not run. *)
LEMMA OwnersStep ==
  ASSUME TypeOK, OneOwner, ListsSound, [Next]_vars
  PROVE  OneOwner'
  <1> USE DEF OneOwner, TypeOK, PlacesOK, ThreadsOK
  <1>1. CASE UNCHANGED vars
        BY <1>1 DEF vars, placeVars, threadVars
  <1>2. ASSUME NEW t \in Threads, CheckSteps(t)
        PROVE  OneOwner'
    <2>1. UNCHANGED <<owner, loot>>
          BY <1>2 DEF CheckSteps, BeginCheck, FillTsnow, LockTimers, Expire,
                      UnlockTimers, Compare, Subtract, EnterEpoll, Return,
                      placeVars
    <2>2. pc[t] \notin {"timer", "steal"} /\ pc'[t] \notin {"timer", "steal"}
          BY <1>2 DEF CheckSteps, BeginCheck, FillTsnow, LockTimers, Expire,
                      UnlockTimers, Compare, Subtract, EnterEpoll, Return,
                      Waiting, Goto
    <2>3. \A u \in Threads : u # t => pc'[u] = pc[u] /\ first'[u] = first[u]
          BY <1>2 DEF CheckSteps, BeginCheck, FillTsnow, LockTimers, Expire,
                      UnlockTimers, Compare, Subtract, EnterEpoll, Return,
                      Goto, threadVars
    <2> QED BY <2>1, <2>2, <2>3, OwnersKept
  <1>3. ASSUME NEW t \in Threads,
               \/ \E x \in Timers, d \in Dates : InsertTimer(t, x, d)
               \/ \E x \in Timers : RemoveTimer(t, x)
        PROVE  OneOwner'
    <2>1. /\ UNCHANGED <<owner, loot>>
          /\ pc[t] = "loop" /\ pc'[t] \in {"loop", "wake"}
          /\ \A u \in Threads : u # t => pc'[u] = pc[u] /\ first'[u] = first[u]
          BY <1>3 DEF InsertTimer, RemoveTimer, Goto, placeVars, threadVars
    <2>2. pc[t] # "steal" /\ pc'[t] # "timer" /\ pc'[t] # "steal"
          BY <2>1
    <2> QED BY <2>1, <2>2, OwnersKept
  <1>4. ASSUME NEW t \in Threads, RunTimer(t) \/ WakeOwner(t)
        PROVE  OneOwner'
    <2>1. /\ UNCHANGED <<owner, loot>>
          /\ pc[t] # "steal" /\ pc'[t] \in {"loop", "fault"}
          /\ \A u \in Threads : u # t => pc'[u] = pc[u] /\ first'[u] = first[u]
          BY <1>4 DEF RunTimer, WakeOwner, Goto, placeVars
    <2>2. pc[t] # "steal" /\ pc'[t] # "timer" /\ pc'[t] # "steal"
          BY <2>1
    <2> QED BY <2>1, <2>2, OwnersKept
  <1>5. ASSUME NEW t \in Threads, NEW c \in Colors, StartTimer(t, c)
        PROVE  OneOwner'
    <2>1. ColorOf[Head(queue[c])] = c
          BY <1>5, HeadOf DEF StartTimer, ListsSound
    <2> QED BY <1>5, <2>1 DEF StartTimer, Goto
  <1>6. ASSUME NEW t \in Threads, Land(t)
        PROVE  OneOwner'
        BY <1>6, Constants DEF Land, Goto, threadVars
  <1>7. ASSUME NEW t \in Threads, NEW c \in Colors, Steal(t, c)
        PROVE  OneOwner'
    <2>1. /\ owner' = [owner EXCEPT ![c] = Nobody]
          /\ loot' = [loot EXCEPT ![t] = c]
          /\ pc' = [pc EXCEPT ![t] = "steal"]
          /\ UNCHANGED first
          /\ pc[t] = "loop" /\ owner[c] # Nobody
          /\ ~(pc[owner[c]] = "timer" /\ ColorOf[first[owner[c]]] = c)
          BY <1>7 DEF Steal, Goto, RunsColor, threadVars
    <2>2. \A u \in Threads : pc[u] = "timer" => ColorOf[first[u]] \in Colors \ {c}
          BY <2>1, Constants
    <2>3. \A u \in Threads : pc[u] = "steal" => loot[u] # c
          BY <2>1
    <2> QED BY <2>1, <2>2, <2>3
  <1>8. CASE Tick
        BY <1>8 DEF Tick, placeVars, threadVars
  <1> QED BY <1>1, <1>2, <1>3, <1>4, <1>5, <1>6, <1>7, <1>8, NextCases

(* The lock is taken and given back by the scan, and nothing is inserted   *)
(* while a thread scans.                                                   *)
LEMMA LockStep ==
  ASSUME TypeOK, LockHeld, [Next]_vars
  PROVE  LockHeld'
  <1> USE DEF LockHeld, TypeOK, PlacesOK, ThreadsOK
  <1>1. CASE UNCHANGED vars
        BY <1>1 DEF vars, treeVars, placeVars, threadVars
  <1>2. ASSUME NEW t \in Threads, CheckSteps(t)
        PROVE  LockHeld'
    <2>1. CASE LockTimers(t)
      <3>1. timecbs # <<>> => Head(timecbs) # None
            BY Constants, HeadOf, ElementsOf DEF TreesOK
      <3> QED BY <2>1, <3>1, Constants
              DEF LockTimers, Goto, treeVars, Nobody
    <2>2. CASE UnlockTimers(t)
          BY <2>2, Constants DEF UnlockTimers, Goto, treeVars
    <2>3. CASE Expire(t)
      <3>1. timecbs # <<>> /\ pc[t] = "scan" /\ UNCHANGED <<pc, first, lock>>
            BY <2>3 DEF Expire, Expired, threadVars
      <3> QED BY <3>1, Constants
    <2>4. CASE ~(LockTimers(t) \/ UnlockTimers(t) \/ Expire(t))
      <3>1. /\ UNCHANGED <<timecbs, lock, first>>
            /\ pc[t] # "scan" /\ pc'[t] # "scan"
            /\ \A u \in Threads : u # t => pc'[u] = pc[u]
            BY <1>2, <2>4 DEF CheckSteps, BeginCheck, FillTsnow, Compare,
               Subtract, EnterEpoll, Return, Waiting, Goto, treeVars, threadVars
      <3> QED BY <3>1
    <2> QED BY <2>1, <2>2, <2>3, <2>4
  <1>3. ASSUME NEW t \in Threads, NEW x \in Timers, NEW d \in Dates,
               InsertTimer(t, x, d)
        PROVE  LockHeld'
        BY <1>3, Constants DEF InsertTimer, Goto
  <1>4. ASSUME NEW t \in Threads, NEW x \in Timers, RemoveTimer(t, x)
        PROVE  LockHeld'
        BY <1>4, Constants DEF RemoveTimer, threadVars
  <1>5. ASSUME NEW t \in Threads,
               \/ RunTimer(t) \/ WakeOwner(t) \/ Land(t)
               \/ \E c \in Colors : StartTimer(t, c) \/ Steal(t, c)
        PROVE  LockHeld'
    <2>1. /\ UNCHANGED <<timecbs, lock>>
          /\ pc[t] # "scan" /\ pc'[t] # "scan"
          /\ \A u \in Threads : u # t => pc'[u] = pc[u] /\ first'[u] = first[u]
          BY <1>5 DEF RunTimer, WakeOwner, Land, StartTimer, Steal, Goto,
                      treeVars, threadVars
    <2> QED BY <2>1
  <1>6. CASE Tick
        BY <1>6 DEF Tick, treeVars, threadVars
  <1> QED BY <1>1, <1>2, <1>3, <1>4, <1>5, <1>6, NextCases

-----------------------------------------------------------------------------
(* The steps that move no timer *)

Still(t) ==
  \/ CheckSteps(t) /\ ~Expire(t)
  \/ WakeOwner(t) \/ Land(t) \/ Tick \/ UNCHANGED vars
  \/ \E c \in Colors : Steal(t, c)

Unmoved ==
  /\ UNCHANGED <<timecbs, active, date, cancel, nb, ahead, freed, ran, queue>>
  /\ \A u \in Threads : (pc'[u] = "timer") <=> (pc[u] = "timer")
  /\ \A u \in Threads : pc[u] = "timer" => first'[u] = first[u]

(* The other steps of timecb_check and a tick move no timer. *)
LEMMA StillMovesNone ==
  ASSUME TypeOK, NEW t \in Threads, Still(t)
  PROVE  Unmoved
  <1> USE DEF TypeOK, ThreadsOK, Unmoved
  <1>1. CASE CheckSteps(t) /\ ~Expire(t)
    <2>1. /\ pc[t] # "timer" /\ pc'[t] # "timer"
          /\ \A u \in Threads : u # t => pc'[u] = pc[u] /\ first'[u] = first[u]
          BY <1>1 DEF CheckSteps, BeginCheck, FillTsnow, LockTimers,
             UnlockTimers, Compare, Subtract, EnterEpoll, Return, Waiting, Goto
    <2>2. UNCHANGED <<treeVars, doneVars, queue>>
          BY <1>1 DEF CheckSteps, BeginCheck, FillTsnow, LockTimers,
             UnlockTimers, Compare, Subtract, EnterEpoll, Return, placeVars
    <2> QED BY <2>1, <2>2 DEF treeVars, doneVars
  <1>2. CASE WakeOwner(t)
        BY <1>2 DEF WakeOwner, Goto, treeVars, doneVars
  <1>3. ASSUME NEW c \in Colors, Steal(t, c)
        PROVE  Unmoved
        BY <1>3 DEF Steal, Goto, treeVars, doneVars, threadVars
  <1>4. CASE Tick \/ UNCHANGED vars
        BY <1>4 DEF Tick, vars, treeVars, doneVars, placeVars, threadVars
  <1>5. CASE Land(t)
        BY <1>5 DEF Land, Goto, treeVars, doneVars, threadVars
  <1> QED BY <1>1, <1>2, <1>3, <1>4, <1>5 DEF Still

(* A timer that nobody moves stays in its place, and in its order.         *)
LEMMA UnmovedKeeps ==
  ASSUME TypeOK, Unmoved
  PROVE  /\ ListsSound => ListsSound'
         /\ EachPlaced => EachPlaced'
         /\ NeverTooSmall => NeverTooSmall'
         /\ ByDate => ByDate'
         /\ OrderKept => OrderKept'
  <1>1. \A x \in Timers : /\ Waits(x)' = Waits(x) /\ Posted(x)' = Posted(x)
                          /\ Runs(x)' = Runs(x)
        BY DEF Unmoved, Waits, Posted, Runs
  <1>2. Known' = Known
        BY DEF Unmoved, Known
  <1> USE DEF Unmoved
  <1>3. ListsSound => ListsSound'
        BY DEF ListsSound
  <1>4. EachPlaced => EachPlaced'
        BY <1>1, <1>2 DEF EachPlaced, PlaceOf
  <1>5. NeverTooSmall => NeverTooSmall'
        BY DEF NeverTooSmall
  <1>6. ByDate => ByDate'
        BY DEF ByDate
  <1>7. OrderKept => OrderKept'
        BY <1>1, <1>2 DEF OrderKept, KeptOrder
  <1> QED BY <1>3, <1>4, <1>5, <1>6, <1>7

-----------------------------------------------------------------------------
(* The steps that move a timer *)

ListsInv == TypeOK /\ OneOwner /\ ListsSound /\ EachPlaced /\ NeverTooSmall
            /\ ByDate /\ OrderKept

TreeInv == ListsSound /\ EachPlaced /\ NeverTooSmall /\ ByDate /\ OrderKept

(* InOrder is the order of the positions. *)
LEMMA PairsInOrder ==
  ASSUME NEW l \in Seq(Timers), NEW y \in Timers, NEW x \in Timers
  PROVE  <<y, x>> \in InOrder(l) <=> Before(l, y, x)
  <1>1. DOMAIN l = 1 .. Len(l)
        BY LenProperties
  <1> QED BY <1>1 DEF InOrder, Before

(* timecb adds the timer to the tree, in its order, and moves no other.    *)
LEMMA InsertMoves ==
  ASSUME ListsInv, NEW t \in Threads, NEW x \in Timers, NEW d \in Dates,
         InsertTimer(t, x, d)
  PROVE  /\ x \notin Known \cup freed \cup cancel \cup active \cup ran
         /\ ~Waits(x) /\ ~Posted(x) /\ ~Runs(x)
         /\ \A y \in Timers : /\ Waits(y)' <=> Waits(y) \/ y = x
                              /\ Posted(y)' <=> Posted(y)
                              /\ Runs(y)' <=> Runs(y)
         /\ Known' = Known \cup {x}
         /\ Len(timecbs') = Len(timecbs) + 1 /\ IsInjective(timecbs')
         /\ \A y, z \in Timers : Before(timecbs, y, z) => Before(timecbs', y, z)
         /\ UNCHANGED <<queue, active, cancel, freed, ran>>
         /\ ByDate'
  <1> USE DEF ListsInv, TypeOK, TreesOK, ThreadsOK
  <1>1. x \notin Known \cup freed
        BY DEF InsertTimer
  <1>2. PlaceOf(x)
        BY DEF EachPlaced
  <1>3. x \notin cancel /\ ~Waits(x) /\ ~Posted(x) /\ ~Runs(x)
        /\ x \notin active /\ x \notin ran
        BY <1>1, <1>2 DEF PlaceOf
  <1>4. PICK i \in 1 .. Len(timecbs) + 1 :
          /\ timecbs' = InsertAt(timecbs, i, x)
          /\ \A j \in 1 .. Len(timecbs) :
               j < i => ~(date'[timecbs[j]] > date'[x])
          /\ i <= Len(timecbs) => date'[timecbs[i]] > date'[x]
        BY InsertedSorted DEF InsertTimer
  <1>5. x \notin ToSet(timecbs)
        BY <1>3 DEF Waits
  <1>6. /\ ToSet(timecbs') = ToSet(timecbs) \cup {x}
        /\ IsInjective(timecbs')
        BY <1>4, <1>5, InsertedElements DEF ListsSound
  <1>7. /\ Len(timecbs') = Len(timecbs) + 1
        /\ \A j \in 1 .. Len(timecbs) + 1 :
             timecbs'[j] = IF j < i THEN timecbs[j]
                           ELSE IF j = i THEN x ELSE timecbs[j - 1]
    <2>1. /\ Len(InsertAt(timecbs, i, x)) = Len(timecbs) + 1
          /\ \A j \in 1 .. Len(timecbs) + 1 :
               InsertAt(timecbs, i, x)[j]
                 = IF j < i THEN timecbs[j]
                   ELSE IF j = i THEN x ELSE timecbs[j - 1]
      <3>1. timecbs \in Seq(Timers)
            OBVIOUS
      <3> HIDE DEF ListsInv, TypeOK, TreesOK, ThreadsOK
      <3> QED BY <3>1, InsertedAt
    <2> QED BY <1>4, <2>1
  <1>8. \A y, z \in Timers : Before(timecbs, y, z) => Before(timecbs', y, z)
        BY <1>4, BeforeInserted
  <1>9. /\ date' = [date EXCEPT ![x] = d]
        /\ first' = [first EXCEPT ![t] = x]
        /\ pc' = [pc EXCEPT ![t] = "wake"] /\ pc[t] = "loop"
        /\ UNCHANGED <<queue, active, cancel, freed, ran>>
        BY DEF InsertTimer, Goto, placeVars, doneVars
  <1>10. d >= 0 /\ Known' = Known \cup {x}
    <2>1. d >= 0
          BY Constants
    <2> QED BY <1>9, <2>1 DEF Known
  <1>11. \A y \in Timers : /\ Waits(y)' <=> Waits(y) \/ y = x
                           /\ Posted(y)' <=> Posted(y)
                           /\ Runs(y)' <=> Runs(y)
        BY <1>6, <1>9 DEF Waits, Posted, Runs
  <1>12. ByDate'
    <2>1. Len(timecbs) \in Nat /\ \A j \in 1 .. Len(timecbs) :
            timecbs[j] \in Timers /\ timecbs[j] # x
          BY <1>5, ElementsOf
    <2>2. \A j \in 1 .. Len(timecbs) : date'[timecbs[j]] = date[timecbs[j]]
          BY <1>9, <2>1
    <2>3. date'[x] = d /\ d \in Int /\ \A y \in Timers : date[y] \in Int
      <3>1. Dates \cup {-1} \subseteq Int
            BY Constants
      <3>2. \A y \in Timers : date[y] \in Dates \cup {-1}
            OBVIOUS
      <3> QED BY <1>9, <3>1, <3>2
    <2>4. \A j, k \in 1 .. Len(timecbs) :
            j < k => date'[timecbs[j]] <= date'[timecbs[k]]
          BY <2>2 DEF ByDate
    <2>5. \A j \in 1 .. Len(timecbs) : j < i => date'[timecbs[j]] <= d
      <3> SUFFICES ASSUME NEW j \in 1 .. Len(timecbs), j < i
                   PROVE  date'[timecbs[j]] <= d
          OBVIOUS
      <3>1. date'[timecbs[j]] \in Int
            BY <2>1, <2>2, <2>3
      <3>2. ~(date'[timecbs[j]] > d)
            BY <1>4, <2>3
      <3> HIDE DEF ListsInv, TypeOK, TreesOK, ThreadsOK
      <3> QED BY <2>3, <3>1, <3>2
    <2>6. \A j \in 1 .. Len(timecbs) : j >= i => d <= date'[timecbs[j]]
      <3> SUFFICES ASSUME NEW j \in 1 .. Len(timecbs), j >= i
                   PROVE  d <= date'[timecbs[j]]
          OBVIOUS
      <3>1. i \in 1 .. Len(timecbs) /\ (i = j \/ i < j)
            BY <2>1
      <3>2. date'[timecbs[i]] \in Int /\ date'[timecbs[j]] \in Int
            BY <2>1, <2>2, <2>3, <3>1
      <3>3. d < date'[timecbs[i]]
            BY <1>4, <2>3, <3>1, <3>2
      <3>4. date'[timecbs[i]] <= date'[timecbs[j]]
            BY <2>4, <3>1, <3>2
      <3> QED BY <2>3, <3>2, <3>3, <3>4
    <2>7. SUFFICES ASSUME NEW j \in 1 .. Len(timecbs'),
                          NEW k \in 1 .. Len(timecbs'), j < k
                   PROVE  date'[timecbs'[j]] <= date'[timecbs'[k]]
          BY DEF ByDate
    <2>8. j \in 1 .. Len(timecbs) + 1 /\ k \in 1 .. Len(timecbs) + 1
          /\ Len(timecbs) \in Nat
          BY <1>7, <2>1, <2>7
    <2>9. CASE k < i
      <3>0. j < i /\ j \in 1 .. Len(timecbs)
            BY <2>7, <2>8, <2>9
      <3>1. timecbs'[j] = timecbs[j] /\ j \in 1 .. Len(timecbs)
            BY <1>7, <2>8, <3>0
      <3>2. timecbs'[k] = timecbs[k] /\ k \in 1 .. Len(timecbs)
            BY <1>7, <2>8, <2>9
      <3> QED BY <2>4, <2>7, <3>1, <3>2
    <2>10. CASE k = i
      <3>1. j < i /\ j \in 1 .. Len(timecbs)
            BY <2>7, <2>8, <2>10
      <3>2. timecbs'[j] = timecbs[j]
            BY <1>7, <2>8, <3>1
      <3>3. timecbs'[k] = x
            BY <1>7, <2>8, <2>10
      <3> QED BY <2>3, <2>5, <3>1, <3>2, <3>3
    <2>11. CASE k > i
      <3>1. timecbs'[k] = timecbs[k - 1] /\ k - 1 \in 1 .. Len(timecbs)
            /\ k - 1 >= i
            BY <1>7, <2>7, <2>8, <2>11
      <3>2. CASE j < i
        <4>1. timecbs'[j] = timecbs[j] /\ j \in 1 .. Len(timecbs) /\ j < k - 1
              BY <1>7, <2>7, <2>8, <2>11, <3>2
        <4> QED BY <2>4, <3>1, <4>1
      <3>3. CASE j = i
            BY <1>7, <2>3, <2>6, <2>8, <3>1, <3>3
      <3>4. CASE j > i
        <4>1. timecbs'[j] = timecbs[j - 1] /\ j - 1 \in 1 .. Len(timecbs)
              /\ j - 1 < k - 1
              BY <1>7, <2>7, <2>8, <3>4
        <4> QED BY <2>4, <3>1, <4>1
      <3> QED BY <2>8, <3>2, <3>3, <3>4
    <2> QED BY <2>8, <2>9, <2>10, <2>11
  <1> QED BY <1>1, <1>3, <1>6, <1>7, <1>8, <1>9, <1>10, <1>11, <1>12

(* delaycb adds its timer to the tree at its place. *)
LEMMA InsertKeeps ==
  ASSUME ListsInv, NEW t \in Threads, NEW x \in Timers, NEW d \in Dates,
         InsertTimer(t, x, d)
  PROVE  TreeInv'
  <1>1. ListsSound'
        BY InsertMoves DEF ListsSound, ListsInv
  <1>2. EachPlaced'
        BY InsertMoves DEF EachPlaced, PlaceOf, ListsInv
  <1>3. NeverTooSmall'
    <2>1. nb' = nb + 1 /\ nb \in Int /\ Len(timecbs) \in Nat
          BY ElementsOf DEF InsertTimer, ListsInv, TypeOK, TreesOK
    <2> QED BY <2>1, InsertMoves DEF NeverTooSmall, ListsInv
  <1>4. OrderKept'
    <2> SUFFICES ASSUME NEW y \in Timers, NEW z \in Timers,
                        <<y, z>> \in ahead'
                 PROVE  KeptOrder(y, z)'
        BY DEF OrderKept
    <2>1. timecbs' \in Seq(Timers)
      <3>1. PICK i \in 1 .. Len(timecbs) + 1 :
              timecbs' = InsertAt(timecbs, i, x)
            BY InsertedSorted DEF InsertTimer, ListsInv, TypeOK, TreesOK
      <3> QED BY <3>1, InsertedAt DEF ListsInv, TypeOK, TreesOK
    <2>2. CASE <<y, z>> \in ahead
      <3>1. KeptOrder(y, z)
            BY <2>2 DEF OrderKept, ListsInv
      <3> QED BY <3>1, InsertMoves DEF KeptOrder
    <2>3. CASE <<y, z>> \in InOrder(timecbs')
      <3>1. Before(timecbs', y, z)
            BY <2>1, <2>3, PairsInOrder
      <3>2. IsInjective(timecbs')
            BY InsertMoves
      <3>3. y \in ToSet(timecbs') /\ z \in ToSet(timecbs')
            BY <2>1, <3>1, <3>2, OneOrder
      <3>4. Waits(y)' /\ Waits(z)'
            BY <3>3 DEF Waits
      <3>5. PlaceOf(y)' /\ PlaceOf(z)'
            BY <1>2 DEF EachPlaced
      <3> QED BY <3>1, <3>4, <3>5 DEF KeptOrder, PlaceOf
    <2> QED BY <2>2, <2>3 DEF InsertTimer
  <1> QED BY <1>1, <1>2, <1>3, <1>4, InsertMoves DEF TreeInv

(* timecb_remove finds the timer in one of the trees: a callback of its    *)
(* color that runs elsewhere would own the color.                          *)
LEMMA RemoveFinds ==
  ASSUME ListsInv, NEW t \in Threads, NEW x \in Timers, RemoveTimer(t, x)
  PROVE  \/ x \in active /\ Posted(x)
         \/ x \notin active /\ Waits(x)
  <1>1. x \in Known \ cancel /\ PlaceOf(x)
        BY DEF RemoveTimer, ListsInv, EachPlaced
  <1>2. ~Runs(x)
    <2> SUFFICES ASSUME NEW u \in Threads, pc[u] = "timer", first[u] = x
                 PROVE  FALSE
        BY DEF Runs
    <2>1. owner[ColorOf[x]] = u
          BY DEF ListsInv, OneOwner
    <2> QED BY <2>1 DEF RemoveTimer
  <1> QED BY <1>1, <1>2 DEF PlaceOf

(* timecb_remove takes a timer out of the tree or cancels its do_timecb. *)
LEMMA RemoveKeeps ==
  ASSUME ListsInv, NEW t \in Threads, NEW x \in Timers, RemoveTimer(t, x)
  PROVE  TreeInv'
  <1> USE DEF ListsInv, TypeOK, TreesOK, ThreadsOK, TreeInv
  <1>1. /\ x \in Known \ cancel /\ PlaceOf(x)
        /\ UNCHANGED <<queue, pc, first, nb, ahead, ran>>
        BY DEF RemoveTimer, EachPlaced, placeVars, threadVars
  <1>2. \A y \in Timers : (Posted(y)' <=> Posted(y)) /\ (Runs(y)' <=> Runs(y))
        BY <1>1 DEF Posted, Runs
  <1>3. CASE x \in active
    <2>1. /\ active' = active \ {x} /\ cancel' = cancel \cup {x}
          /\ UNCHANGED <<timecbs, freed, date>>
          BY <1>3 DEF RemoveTimer
    <2>2. Known' = Known /\ \A y \in Timers : Waits(y)' <=> Waits(y)
          BY <2>1 DEF Known, Waits
    <2>3. Posted(x) /\ ~Waits(x) /\ x \notin ran
          BY <1>1, <1>3, RemoveFinds DEF PlaceOf
    <2>4. ListsSound' /\ ByDate' /\ NeverTooSmall'
          BY <1>1, <2>1 DEF ListsSound, ByDate, NeverTooSmall
    <2>5. EachPlaced'
          BY <1>1, <1>2, <2>1, <2>2, <2>3 DEF EachPlaced, PlaceOf
    <2>6. OrderKept'
      <3> SUFFICES ASSUME NEW y \in Timers, NEW z \in Timers,
                          <<y, z>> \in ahead
                   PROVE  KeptOrder(y, z)'
          BY <1>1 DEF OrderKept
      <3>1. KeptOrder(y, z)
            BY DEF OrderKept
      <3> QED BY <1>1, <1>2, <2>1, <2>2, <3>1 DEF KeptOrder
    <2> QED BY <2>4, <2>5, <2>6
  <1>4. CASE x \notin active
    <2>1. /\ timecbs' = RemoveFirst(timecbs, x)
          /\ freed' = freed \cup {x} /\ date' = [date EXCEPT ![x] = -1]
          /\ UNCHANGED <<active, cancel>>
          BY <1>4 DEF RemoveTimer
    <2>2. Waits(x) /\ ~Posted(x) /\ ~Runs(x)
          BY <1>1, <1>4, RemoveFinds DEF PlaceOf
    <2>3. PICK i \in 1 .. Len(timecbs) :
            timecbs[i] = x /\ timecbs' = RemoveAt(timecbs, i)
          BY <2>1, <2>2, RemovedFirst DEF Waits
    <2>4. /\ ToSet(timecbs') = ToSet(timecbs) \ {x}
          /\ IsInjective(timecbs')
          BY <2>3, RemovedElements DEF ListsSound
    <2>5. /\ Len(timecbs') = Len(timecbs) - 1 /\ Len(timecbs) \in Nat
          /\ \A j \in 1 .. Len(timecbs) - 1 :
               timecbs'[j] = IF j < i THEN timecbs[j] ELSE timecbs[j + 1]
      <3>1. timecbs \in Seq(Timers)
            OBVIOUS
      <3> HIDE DEF ListsInv, TypeOK, TreesOK, ThreadsOK, TreeInv
      <3>2. /\ Len(RemoveAt(timecbs, i)) = Len(timecbs) - 1
            /\ \A j \in 1 .. Len(timecbs) - 1 :
                 RemoveAt(timecbs, i)[j]
                   = IF j < i THEN timecbs[j] ELSE timecbs[j + 1]
            BY <3>1, RemovedAt
      <3>3. Len(timecbs) \in Nat
            BY <3>1, ElementsOf
      <3> QED BY <2>3, <3>2, <3>3
    <2>6. \A y \in Timers : Waits(y)' <=> Waits(y) /\ y # x
          BY <2>4 DEF Waits
    <2>7. Known' = Known \ {x}
          BY <2>1 DEF Known
    <2>8. ListsSound'
          BY <1>1, <2>4 DEF ListsSound
    <2>9. NeverTooSmall'
          BY <1>1, <2>5 DEF NeverTooSmall
    <2>10. EachPlaced'
          BY <1>1, <1>2, <2>1, <2>2, <2>6, <2>7 DEF EachPlaced, PlaceOf
    <2>11. ByDate'
      <3> SUFFICES ASSUME NEW j \in 1 .. Len(timecbs'),
                          NEW k \in 1 .. Len(timecbs'), j < k
                   PROVE  date'[timecbs'[j]] <= date'[timecbs'[k]]
          BY DEF ByDate
      <3> DEFINE At(m) == IF m < i THEN m ELSE m + 1
      <3>1. \A m \in 1 .. Len(timecbs') :
              /\ At(m) \in 1 .. Len(timecbs) /\ timecbs'[m] = timecbs[At(m)]
              /\ timecbs'[m] \in Timers /\ timecbs'[m] # x
        <4>1. \A m \in 1 .. Len(timecbs') :
                At(m) \in 1 .. Len(timecbs) /\ timecbs'[m] = timecbs[At(m)]
              BY <2>5
        <4>2. \A m, n \in 1 .. Len(timecbs) : timecbs[m] = timecbs[n] => m = n
              BY ElementsOf DEF ListsSound
        <4>3. \A m \in 1 .. Len(timecbs') : At(m) # i
              BY <2>5
        <4>4. \A m \in 1 .. Len(timecbs) : timecbs[m] \in Timers
              BY ElementsOf
        <4> HIDE DEF At
        <4> QED BY <2>3, <4>1, <4>2, <4>3, <4>4
      <3>2. At(j) < At(k)
            BY <2>5
      <3> HIDE DEF At
      <3>3. date[timecbs[At(j)]] <= date[timecbs[At(k)]]
            BY <3>1, <3>2 DEF ByDate
      <3> QED BY <2>1, <3>1, <3>3
    <2>12. OrderKept'
      <3> SUFFICES ASSUME NEW y \in Timers, NEW z \in Timers,
                          <<y, z>> \in ahead
                   PROVE  KeptOrder(y, z)'
          BY <1>1 DEF OrderKept
      <3>1. KeptOrder(y, z)
            BY DEF OrderKept
      <3>2. Waits(y)' /\ Waits(z)' => Before(timecbs', y, z)
        <4>1. ASSUME Waits(y)', Waits(z)' PROVE Before(timecbs', y, z)
          <5>1. Before(timecbs, y, z) /\ y # x /\ z # x
                BY <2>6, <3>1, <4>1 DEF KeptOrder
          <5>2. timecbs \in Seq(Timers)
                OBVIOUS
          <5> HIDE DEF ListsInv, TypeOK, TreesOK, ThreadsOK, TreeInv
          <5> QED BY <2>3, <5>1, <5>2, BeforeRemoved
        <4> QED BY <4>1
      <3> QED BY <1>1, <1>2, <2>1, <2>2, <2>7, <3>1, <3>2 DEF KeptOrder
    <2> QED BY <2>8, <2>9, <2>10, <2>11, <2>12
  <1> QED BY <1>3, <1>4

(* do_timecb leaves the queue of its color and runs.                       *)
LEMMA StartKeeps ==
  ASSUME ListsInv, NEW t \in Threads, NEW c \in Colors, StartTimer(t, c)
  PROVE  TreeInv'
  <1> USE DEF ListsInv, TypeOK, TreesOK, ThreadsOK, PlacesOK, TreeInv
  <1> DEFINE x == Head(queue[c])
             q == queue[c]
  <1>1. q \in Seq(Timers) /\ q # <<>> /\ IsInjective(q)
        BY DEF StartTimer, ListsSound
  <1>2. x \in Timers /\ ColorOf[x] = c /\ x \in ToSet(q)
        BY <1>1, HeadOf, ElementsOf DEF ListsSound
  <1>3. /\ queue' = [queue EXCEPT ![c] = Tail(q)]
        /\ active' = IF x \in cancel THEN active ELSE active \ {x}
        /\ first' = [first EXCEPT ![t] = x]
        /\ pc' = [pc EXCEPT ![t] = "timer"] /\ pc[t] = "loop"
        /\ owner[c] = t
        /\ UNCHANGED <<timecbs, date, cancel, freed, ran, nb, ahead>>
        BY DEF StartTimer, Goto, doneVars
  <1> HIDE DEF x, q
  <1>4. /\ Tail(q) \in Seq(Timers) /\ IsInjective(Tail(q))
        /\ ToSet(Tail(q)) = ToSet(q) \ {x}
    <2>1. x = Head(q)
          BY DEF x, q
    <2> QED BY <1>1, <2>1, TailElements
  <1>5. PlaceOf(x) /\ Posted(x)
        BY <1>2 DEF EachPlaced, Posted, q
  <1>6. \A y \in Timers : /\ Waits(y)' <=> Waits(y)
                          /\ Posted(y)' <=> Posted(y) /\ y # x
                          /\ Runs(y)' <=> Runs(y) \/ y = x
    <2> SUFFICES ASSUME NEW y \in Timers
                 PROVE  /\ Waits(y)' <=> Waits(y)
                        /\ Posted(y)' <=> Posted(y) /\ y # x
                        /\ Runs(y)' <=> Runs(y) \/ y = x
        OBVIOUS
    <2>1. Waits(y)' <=> Waits(y)
          BY <1>3 DEF Waits
    <2>2. Posted(y)' <=> Posted(y) /\ y # x
      <3>1. CASE ColorOf[y] = c
            BY <1>3, <1>4, <3>1 DEF Posted, q
      <3>2. CASE ColorOf[y] # c
            BY <1>2, <1>3, <3>2, Constants DEF Posted
      <3> QED BY <3>1, <3>2
    <2>3. Runs(y)' <=> Runs(y) \/ y = x
          BY <1>3 DEF Runs
    <2> QED BY <2>1, <2>2, <2>3
  <1>7. Known' = Known
        BY <1>3 DEF Known
  <1>8. ListsSound'
    <2>1. \A e \in Colors : IsInjective(queue'[e])
          BY <1>3, <1>4 DEF ListsSound
    <2>2. \A e \in Colors : \A y \in ToSet(queue'[e]) : ColorOf[y] = e
          BY <1>3, <1>4 DEF ListsSound, q
    <2> QED BY <1>3, <2>1, <2>2 DEF ListsSound
  <1>9. EachPlaced'
    <2> SUFFICES ASSUME NEW y \in Timers PROVE PlaceOf(y)'
        BY DEF EachPlaced
    <2>1. PlaceOf(y)
          BY DEF EachPlaced
    <2>2. y \in active' <=> y \in active /\ (y # x \/ x \in cancel)
          BY <1>3
    <2> QED BY <1>3, <1>5, <1>6, <1>7, <2>1, <2>2 DEF PlaceOf
  <1>10. ByDate' /\ NeverTooSmall'
        BY <1>3 DEF ByDate, NeverTooSmall
  <1>11. OrderKept'
    <2> SUFFICES ASSUME NEW y \in Timers, NEW z \in Timers, <<y, z>> \in ahead
                 PROVE  KeptOrder(y, z)'
        BY <1>3 DEF OrderKept
    <2>1. KeptOrder(y, z)
          BY DEF OrderKept
    <2>2. Waits(y)' /\ Waits(z)' => Before(timecbs', y, z)
          BY <1>3, <1>6, <2>1 DEF KeptOrder
    <2>3. ASSUME ColorOf[z] = ColorOf[y], Posted(z)'
          PROVE  \/ y \in freed \cup cancel \/ Runs(y)'
                 \/ Before(queue'[ColorOf[z]], y, z)
      <3>1. Posted(z)
            BY <1>6, <2>3
      <3>2. CASE y \in freed \cup cancel \/ Runs(y)
            BY <1>6, <3>2
      <3>3. CASE Before(queue[ColorOf[z]], y, z) /\ ColorOf[z] = c
        <4>1. y = x \/ Before(Tail(q), y, z)
              BY <1>1, <3>3, BeforeTail DEF q, x
        <4> QED BY <1>3, <1>6, <3>3, <4>1
      <3>4. CASE Before(queue[ColorOf[z]], y, z) /\ ColorOf[z] # c
            BY <1>3, <3>4, Constants
      <3> QED BY <2>1, <2>3, <3>1, <3>2, <3>3, <3>4 DEF KeptOrder
    <2>4. ASSUME ColorOf[z] = ColorOf[y], Runs(z)'
          PROVE  y \in freed \cup cancel
      <3>1. CASE Runs(z)
            BY <2>1, <2>4, <3>1 DEF KeptOrder
      <3>2. CASE z = x
        <4>1. ~Before(queue[c], y, z)
              BY <1>1, <3>2, HeadFirst DEF q, x
        <4>2. ~Runs(y)
          <5> SUFFICES ASSUME NEW u \in Threads, pc[u] = "timer", first[u] = y
                       PROVE  FALSE
              BY DEF Runs
          <5>1. owner[ColorOf[y]] = u
                BY DEF OneOwner
          <5> QED BY <1>2, <1>3, <2>4, <3>2, <5>1
        <4> QED BY <1>2, <1>5, <2>1, <2>4, <3>2, <4>1, <4>2 DEF KeptOrder
      <3> QED BY <1>6, <2>4, <3>1, <3>2
    <2> QED BY <1>3, <1>7, <2>1, <2>2, <2>3, <2>4 DEF KeptOrder
  <1> QED BY <1>8, <1>9, <1>10, <1>11

(* do_timecb ends and deletes its timer.                                   *)
LEMMA RunKeeps ==
  ASSUME ListsInv, NEW t \in Threads, RunTimer(t)
  PROVE  TreeInv'
  <1> USE DEF ListsInv, TypeOK, TreesOK, ThreadsOK, TreeInv
  <1> DEFINE x == first[t]
  <1>1. x \in Timers /\ Runs(x) /\ pc[t] = "timer"
        BY DEF RunTimer, Runs
  <1>2. /\ ran' = IF x \in cancel THEN ran ELSE ran \cup {x}
        /\ freed' = freed \cup {x}
        /\ date' = [date EXCEPT ![x] = -1]
        /\ first' = [first EXCEPT ![t] = None]
        /\ pc' = [pc EXCEPT ![t] = "loop"]
        /\ UNCHANGED <<timecbs, active, cancel, nb, ahead, queue>>
        BY DEF RunTimer, Goto, placeVars
  <1>3. \A u \in Threads : pc[u] = "timer" /\ first[u] = x => u = t
        BY <1>1 DEF OneOwner
  <1> HIDE DEF x
  <1>4. \A y \in Timers : /\ Waits(y)' <=> Waits(y)
                          /\ Posted(y)' <=> Posted(y)
                          /\ Runs(y)' <=> Runs(y) /\ y # x
    <2>1. \A y \in Timers : Runs(y)' <=> Runs(y) /\ y # x
          BY <1>1, <1>2, <1>3 DEF Runs, x
    <2> QED BY <1>2, <2>1 DEF Waits, Posted
  <1>5. Known' = Known \ {x}
        BY <1>1, <1>2 DEF Known
  <1>6. PlaceOf(x)
        BY <1>1 DEF EachPlaced
  <1>7. ~Waits(x) /\ ~Posted(x) /\ x \in Known
        BY <1>1, <1>6 DEF PlaceOf
  <1>8. ListsSound' /\ NeverTooSmall'
        BY <1>2 DEF ListsSound, NeverTooSmall
  <1>9. EachPlaced'
    <2> SUFFICES ASSUME NEW y \in Timers PROVE PlaceOf(y)'
        BY DEF EachPlaced
    <2>1. PlaceOf(y)
          BY DEF EachPlaced
    <2> QED BY <1>2, <1>4, <1>5, <1>6, <1>7, <2>1 DEF PlaceOf
  <1>10. ByDate'
    <2>1. \A i \in 1 .. Len(timecbs) : timecbs[i] \in Timers /\ timecbs[i] # x
          BY <1>7, ElementsOf DEF Waits
    <2>2. \A i \in 1 .. Len(timecbs) : date'[timecbs[i]] = date[timecbs[i]]
          BY <1>2, <2>1
    <2> SUFFICES ASSUME NEW j \in 1 .. Len(timecbs),
                        NEW k \in 1 .. Len(timecbs), j < k
                 PROVE  date'[timecbs[j]] <= date'[timecbs[k]]
        BY <1>2 DEF ByDate
    <2>3. date[timecbs[j]] <= date[timecbs[k]]
          BY DEF ByDate
    <2> QED BY <2>2, <2>3
  <1>11. OrderKept'
    <2> SUFFICES ASSUME NEW y \in Timers, NEW z \in Timers, <<y, z>> \in ahead
                 PROVE  KeptOrder(y, z)'
        BY <1>2 DEF OrderKept
    <2>1. KeptOrder(y, z)
          BY DEF OrderKept
    <2> QED BY <1>2, <1>4, <1>5, <2>1 DEF KeptOrder
  <1> QED BY <1>8, <1>9, <1>10, <1>11

(* The first timer of the tree is posted, behind all that were in front.   *)
LEMMA ExpireKeeps ==
  ASSUME ListsInv, NEW t \in Threads, Expire(t)
  PROVE  TreeInv'
  <1> USE DEF ListsInv, TypeOK, TreesOK, ThreadsOK, PlacesOK, TreeInv
  <1> DEFINE x == Head(timecbs)
             c == ColorOf[x]
             q == queue[c]
  <1>1. timecbs \in Seq(Timers) /\ timecbs # <<>> /\ IsInjective(timecbs)
        BY DEF Expire, Expired, ListsSound
  <1>2. x \in Timers /\ c \in Colors /\ Waits(x)
        BY <1>1, HeadOf, ElementsOf, Constants DEF Waits
  <1>3. /\ timecbs' = Tail(timecbs)
        /\ active' = active \cup {x}
        /\ queue' = [queue EXCEPT ![c] = Append(q, x)]
        /\ nb' = nb - 1
        /\ UNCHANGED <<date, cancel, freed, ran, ahead, pc, first>>
        BY DEF Expire, doneVars, threadVars
  <1>4. q \in Seq(Timers) /\ IsInjective(q)
        BY <1>2 DEF ListsSound
  <1> HIDE DEF x, c, q
  <1>5. PlaceOf(x) /\ ~Posted(x) /\ ~Runs(x) /\ x \in Known \ cancel
        BY <1>2 DEF EachPlaced, PlaceOf
  <1>6. x \notin ToSet(q)
        BY <1>5 DEF Posted, q, c
  <1>7. /\ Append(q, x) \in Seq(Timers) /\ IsInjective(Append(q, x))
        /\ ToSet(Append(q, x)) = ToSet(q) \cup {x}
        BY <1>2, <1>4, <1>6, AppendedElements
  <1>8. /\ Tail(timecbs) \in Seq(Timers) /\ IsInjective(Tail(timecbs))
        /\ ToSet(Tail(timecbs)) = ToSet(timecbs) \ {x}
        /\ Len(Tail(timecbs)) = Len(timecbs) - 1 /\ Len(timecbs) \in Nat
        BY <1>1, TailElements, ElementsOf DEF x
  <1>9. \A y \in Timers : /\ Waits(y)' <=> Waits(y) /\ y # x
                          /\ Posted(y)' <=> Posted(y) \/ y = x
                          /\ Runs(y)' <=> Runs(y)
    <2> SUFFICES ASSUME NEW y \in Timers
                 PROVE  /\ Waits(y)' <=> Waits(y) /\ y # x
                        /\ Posted(y)' <=> Posted(y) \/ y = x
                        /\ Runs(y)' <=> Runs(y)
        OBVIOUS
    <2>1. Waits(y)' <=> Waits(y) /\ y # x
          BY <1>3, <1>8 DEF Waits
    <2>2. Posted(y)' <=> Posted(y) \/ y = x
      <3>1. CASE ColorOf[y] = c
            BY <1>2, <1>3, <1>7, <3>1 DEF Posted, q
      <3>2. CASE ColorOf[y] # c
        <4>1. y # x
              BY <3>2 DEF c
        <4> QED BY <1>2, <1>3, <3>2, <4>1, Constants DEF Posted
      <3> QED BY <3>1, <3>2
    <2>3. Runs(y)' <=> Runs(y)
          BY <1>3 DEF Runs
    <2> QED BY <2>1, <2>2, <2>3
  <1>10. Known' = Known
        BY <1>3 DEF Known
  <1>11. ListsSound'
    <2>1. \A e \in Colors : IsInjective(queue'[e])
          BY <1>3, <1>7 DEF ListsSound
    <2>2. \A e \in Colors : \A y \in ToSet(queue'[e]) : ColorOf[y] = e
      <3> SUFFICES ASSUME NEW e \in Colors, NEW y \in ToSet(queue'[e])
                   PROVE  ColorOf[y] = e
          OBVIOUS
      <3>1. CASE e = c
            BY <1>2, <1>3, <1>7, <3>1 DEF ListsSound, q, c
      <3>2. CASE e # c
            BY <1>2, <1>3, <3>2 DEF ListsSound
      <3> QED BY <3>1, <3>2
    <2> QED BY <1>3, <1>8, <2>1, <2>2 DEF ListsSound
  <1>12. NeverTooSmall'
        BY <1>3, <1>8 DEF NeverTooSmall
  <1>13. EachPlaced'
    <2> SUFFICES ASSUME NEW y \in Timers PROVE PlaceOf(y)'
        BY DEF EachPlaced
    <2>1. PlaceOf(y)
          BY DEF EachPlaced
    <2> QED BY <1>2, <1>3, <1>5, <1>9, <1>10, <2>1 DEF PlaceOf
  <1>14. ByDate'
    <2> SUFFICES ASSUME NEW j \in 1 .. Len(timecbs'),
                        NEW k \in 1 .. Len(timecbs'), j < k
                 PROVE  date'[timecbs'[j]] <= date'[timecbs'[k]]
        BY DEF ByDate
    <2>1. \A m \in 1 .. Len(Tail(timecbs)) : Tail(timecbs)[m] = timecbs[m + 1]
          BY <1>1, HeadTailProperties
    <2>2. /\ j + 1 \in 1 .. Len(timecbs) /\ k + 1 \in 1 .. Len(timecbs)
          /\ j + 1 < k + 1
          BY <1>3, <1>8
    <2>3. timecbs'[j] = timecbs[j + 1] /\ timecbs'[k] = timecbs[k + 1]
          BY <1>3, <2>1
    <2> QED BY <1>3, <2>2, <2>3 DEF ByDate
  <1>15. OrderKept'
    <2> SUFFICES ASSUME NEW y \in Timers, NEW z \in Timers, <<y, z>> \in ahead
                 PROVE  KeptOrder(y, z)'
        BY <1>3 DEF OrderKept
    <2>1. KeptOrder(y, z) /\ PlaceOf(y)
          BY DEF OrderKept, EachPlaced
    <2>2. ASSUME Waits(y)', Waits(z)'
          PROVE  Before(timecbs', y, z)
      <3>1. Before(timecbs, y, z) /\ y # x
            BY <1>9, <2>1, <2>2 DEF KeptOrder
      <3> QED BY <1>1, <1>3, <3>1, BeforeTail DEF x
    <2>3. ASSUME ColorOf[z] = ColorOf[y], Posted(z)'
          PROVE  \/ y \in freed \cup cancel \/ Runs(y)'
                 \/ Before(queue'[ColorOf[z]], y, z)
      <3>1. CASE z = x
        <4>1. ~Waits(y)
          <5>1. ~Before(timecbs, y, x)
                BY <1>1, HeadFirst DEF x
          <5> QED BY <1>2, <2>1, <3>1, <5>1 DEF KeptOrder
        <4>2. CASE Posted(y)
          <5>1. y \in ToSet(q)
                BY <2>3, <3>1, <4>2 DEF Posted, q, c
          <5>2. Before(Append(q, x), y, x)
                BY <1>2, <1>4, <5>1, BeforeAppended
          <5> QED BY <1>2, <1>3, <3>1, <5>2 DEF c
        <4> QED BY <1>9, <2>1, <4>1, <4>2 DEF PlaceOf, KeptOrder
      <3>2. CASE z # x
        <4>1. \/ y \in freed \cup cancel \/ Runs(y)
              \/ Before(queue[ColorOf[z]], y, z)
              BY <1>9, <2>1, <2>3, <3>2 DEF KeptOrder
        <4>2. CASE Before(queue[ColorOf[z]], y, z) /\ ColorOf[z] = c
          <5>1. Before(Append(q, x), y, z)
                BY <1>2, <1>4, <4>2, BeforeAppended DEF q
          <5> QED BY <1>2, <1>3, <4>2, <5>1
        <4>3. CASE Before(queue[ColorOf[z]], y, z) /\ ColorOf[z] # c
              BY <1>2, <1>3, <4>3, Constants
        <4> QED BY <1>9, <4>1, <4>2, <4>3
      <3> QED BY <3>1, <3>2
    <2>4. ColorOf[z] = ColorOf[y] /\ Runs(z)' => y \in freed \cup cancel
          BY <1>9, <2>1 DEF KeptOrder
    <2> QED BY <1>3, <1>10, <2>1, <2>2, <2>3, <2>4 DEF KeptOrder
  <1> QED BY <1>11, <1>12, <1>13, <1>14, <1>15

-----------------------------------------------------------------------------
(* Where the timers are *)

(* Every step keeps the timers in one place each. *)
LEMMA ListsStep ==
  ASSUME ListsInv, [Next]_vars
  PROVE  ListsInv'
  <1>1. TypeOK' /\ OneOwner'
        BY TypeStep, OwnersStep DEF ListsInv
  <1>2. ASSUME NEW t \in Threads, Still(t)
        PROVE  TreeInv'
        BY <1>2, StillMovesNone, UnmovedKeeps DEF ListsInv, TreeInv
  <1>3. ASSUME NEW t \in Threads, CheckSteps(t)
        PROVE  TreeInv'
        BY <1>2, <1>3, ExpireKeeps DEF Still
  <1>4. 0 \in Threads
        BY TimersAssumption DEF TimersAssumption, Threads
  <1>5. ASSUME UNCHANGED vars \/ Tick
        PROVE  TreeInv'
        BY <1>2, <1>4, <1>5 DEF Still
  <1>6. ASSUME NEW t \in Threads,
               WakeOwner(t) \/ Land(t) \/ \E c \in Colors : Steal(t, c)
        PROVE  TreeInv'
        BY <1>2, <1>6 DEF Still
  <1>7. TreeInv'
        BY <1>3, <1>5, <1>6, InsertKeeps, RemoveKeeps, StartKeeps, RunKeeps,
           NextCases DEF ListsInv
  <1> QED BY <1>1, <1>7 DEF ListsInv, TreeInv

(* No timer is known. *)
LEMMA ListsInit ==
  ASSUME Init
  PROVE  ListsInv
  <1> USE DEF Init
  <1>1. TypeOK
        BY TypeInit
  <1>2. OneOwner
        BY DEF OneOwner
  <1>3. ListsSound /\ ByDate /\ NeverTooSmall
        BY EmptyList DEF ListsSound, ByDate, NeverTooSmall
  <1>4. \A x \in Timers : ~Waits(x) /\ ~Posted(x) /\ ~Runs(x)
        BY EmptyList, Constants DEF Waits, Posted, Runs
  <1>5. Known = {}
        BY DEF Known
  <1>6. EachPlaced /\ OrderKept
        BY <1>4, <1>5 DEF EachPlaced, PlaceOf, OrderKept
  <1> QED BY <1>1, <1>2, <1>3, <1>6 DEF ListsInv

(* The invariant of the places of the timers. *)
LEMMA ListsInvariant == Spec => []ListsInv
  BY ListsInit, ListsStep, PTL DEF Spec

(* A set of one element. *)
LEMMA OneOf ==
  ASSUME NEW S, NEW l, S = {l}
  PROVE  Cardinality(S) = 1
  BY FS_Singleton

(* A timer is in one place, in timecbs_active exactly while its do_timecb  *)
(* is posted and not cancelled, and a cancelled timer never runs, whatever *)
(* the threads that set, cancel, find expired, steal and run it.           *)
THEOREM TimersInOnePlace == Spec => []OnePlace
  <1>1. ListsInv => OnePlace
    <2> SUFFICES ASSUME ListsInv PROVE OnePlace
        OBVIOUS
    <2> USE DEF ListsInv, TypeOK, TreesOK, PlacesOK, ThreadsOK
    <2>1. \A x \in Timers : PlaceOf(x)
          BY DEF EachPlaced
    <2>2. \A x \in Timers : x \in Queued <=> Posted(x)
      <3>1. \A x \in Timers, c \in Colors :
              Contains(queue[c], x) <=> x \in ToSet(queue[c])
            BY ElementsOf
      <3> QED BY <3>1, Constants DEF Queued, Posted, ListsSound
    <2>3. \A x \in Timers : x \in Running <=> Runs(x)
          BY DEF Running, Runs
    <2>4. Where("waiting") = ToSet(timecbs) /\ Where("posted") = Queued
          /\ Where("running") = Running /\ Where("deleted") = freed
          BY DEF Where
    <2>5. ASSUME NEW x \in Known \cup freed
          PROVE  Cardinality({l \in Places : x \in Where(l)}) = 1
      <3>1. x \in Timers /\ PlaceOf(x)
            BY <2>1 DEF Known
      <3>2. CASE Waits(x)
        <4>1. {l \in Places : x \in Where(l)} = {"waiting"}
              BY <2>2, <2>3, <2>4, <3>1, <3>2 DEF PlaceOf, Places, Waits
        <4> QED BY <4>1, OneOf
      <3>3. CASE Posted(x)
        <4>1. {l \in Places : x \in Where(l)} = {"posted"}
              BY <2>2, <2>3, <2>4, <3>1, <3>3 DEF PlaceOf, Places, Waits
        <4> QED BY <4>1, OneOf
      <3>4. CASE Runs(x)
        <4>1. {l \in Places : x \in Where(l)} = {"running"}
              BY <2>2, <2>3, <2>4, <3>1, <3>4 DEF PlaceOf, Places, Waits
        <4> QED BY <4>1, OneOf
      <3>5. CASE x \in freed
        <4>1. {l \in Places : x \in Where(l)} = {"deleted"}
              BY <2>2, <2>3, <2>4, <3>1, <3>5 DEF PlaceOf, Places, Waits
        <4> QED BY <4>1, OneOf
      <3> QED BY <3>1, <3>2, <3>3, <3>4, <3>5 DEF PlaceOf
    <2>6. active = Queued \ cancel
      <3>1. \A x \in active : x \in Timers /\ x \in Queued \ cancel
            BY <2>1, <2>2 DEF PlaceOf
      <3>2. \A x \in Queued \ cancel : x \in active
            BY <2>1, <2>2 DEF PlaceOf, Queued
      <3> QED BY <3>1, <3>2
    <2>7. cancel \cap ran = {}
          BY <2>1 DEF PlaceOf
    <2> QED BY <2>5, <2>6, <2>7 DEF OnePlace
  <1> QED BY <1>1, ListsInvariant, PTL

(* nb_timecbs, which _acheck tests without the lock, is never 0 with a     *)
(* timer in the tree.                                                      *)
THEOREM TimersCounted == Spec => []NoTimerIgnored
  <1>1. ListsInv => NoTimerIgnored
    <2> SUFFICES ASSUME ListsInv, timecbs # <<>> PROVE nb > 0
        BY DEF NoTimerIgnored
    <2>1. Len(timecbs) \in Nat /\ Len(timecbs) # 0 /\ nb \in Int
          BY ElementsOf DEF ListsInv, TypeOK, TreesOK
    <2> QED BY <2>1 DEF ListsInv, NeverTooSmall
  <1> QED BY <1>1, ListsInvariant, PTL

(* Whichever threads find them expired and wherever their color is stolen, *)
(* the timers of a color run in the order in which they waited.            *)
THEOREM TimersRunInOrder == Spec => RunInOrder
  <1> DEFINE Next1 == \A x \in ran' \ ran : \A y \in Timers :
                        <<y, x>> \in ahead /\ ColorOf[x] = ColorOf[y]
                          => y \in freed \cup cancel
  <1>1. ListsInv /\ [Next]_vars => [Next1]_vars
    <2> SUFFICES ASSUME ListsInv, [Next]_vars,
                        NEW x \in ran' \ ran, NEW y \in Timers,
                        <<y, x>> \in ahead, ColorOf[x] = ColorOf[y]
                 PROVE  y \in freed \cup cancel
        OBVIOUS
    <2>1. x \in Timers
          BY DEF ListsInv, TypeOK, TreesOK
    <2>2. ASSUME NEW t \in Threads, CheckSteps(t)
          PROVE  UNCHANGED ran
          BY <2>2 DEF CheckSteps, BeginCheck, FillTsnow, LockTimers, Expire,
             UnlockTimers, Compare, Subtract, EnterEpoll, Return, doneVars
    <2>3. ASSUME NEW t \in Threads, NEW z \in Timers, NEW d \in Dates,
                 InsertTimer(t, z, d)
          PROVE  UNCHANGED ran
          BY <2>3 DEF InsertTimer, doneVars
    <2>4. ASSUME NEW t \in Threads, NEW z \in Timers, RemoveTimer(t, z)
          PROVE  UNCHANGED ran
          BY <2>4 DEF RemoveTimer
    <2>5. ASSUME NEW t \in Threads,
                 \/ WakeOwner(t) \/ Land(t) \/ Tick \/ UNCHANGED vars
                 \/ \E c \in Colors : StartTimer(t, c) \/ Steal(t, c)
          PROVE  UNCHANGED ran
          BY <2>5 DEF WakeOwner, Land, Tick, StartTimer, Steal, doneVars, vars
    <2>6. 0 \in Threads
          BY TimersAssumption DEF TimersAssumption, Threads
    <2>7. PICK t \in Threads : RunTimer(t)
          BY <2>2, <2>3, <2>4, <2>5, <2>6, NextCases DEF ListsInv
    <2>8. x = first[t] /\ pc[t] = "timer"
          BY <2>7 DEF RunTimer
    <2>9. Runs(x)
          BY <2>8 DEF Runs
    <2> QED BY <2>1, <2>9 DEF ListsInv, OrderKept, KeptOrder
  <1> QED BY <1>1, ListsInvariant, PTL DEF Spec, RunInOrder

-----------------------------------------------------------------------------
(* Who sleeps *)

LookInv == ListsInv /\ LockHeld /\ SomebodyLooks

(* The wait of a thread is what is left until the date it saw, in both     *)
(* branches of the subtraction.                                            *)
LEMMA WaitIsRest ==
  ASSUME TypeOK, NEW t \in Threads, Subtract(t)
  PROVE  wait' = [wait EXCEPT ![t] = ots[t] - Tsnow]
  <1> DEFINE s  == FieldOf(ots[t], "sec")
             n  == FieldOf(ots[t], "nsec")
             ts == tsnow["sec"]
             tn == tsnow["nsec"]
  <1>1. ts \in Int /\ tn \in Int /\ ots[t] \in Int
    <2>1. MaxClock \in Nat
          BY Constants
    <2> QED BY <2>1 DEF TypeOK, TimeOK, ThreadsOK, Fields
  <1>2. s \in Int /\ n \in Int /\ s * Second + n = ots[t]
        BY <1>1, TwoFields
  <1>3. wait' = [wait EXCEPT ![t] =
                   IF n - tn >= 0 THEN (s - ts) * Second + (n - tn)
                   ELSE ((s - ts) - 1) * Second + (Second + (n - tn))]
        BY DEF Subtract
  <1>4. Tsnow = ts * Second + tn
        BY DEF Tsnow
  <1> HIDE DEF s, n, ts, tn
  <1>5. /\ (s - ts) * Second = s * Second - ts * Second
        /\ ((s - ts) - 1) * Second = s * Second - ts * Second - Second
        /\ s * Second \in Int /\ ts * Second \in Int /\ Second \in Int
        BY <1>1, <1>2, Constants, Distribute
  <1>6. /\ (s - ts) * Second + (n - tn) = ots[t] - Tsnow
        /\ ((s - ts) - 1) * Second + (Second + (n - tn)) = ots[t] - Tsnow
        BY <1>1, <1>2, <1>4, <1>5
  <1> QED BY <1>3, <1>6

(* A thread whose variables and tsnow stay goes on as it was. *)
LEMMA OthersLook ==
  ASSUME TypeOK, NEW u \in Threads, WillLook(u),
         pc'[u] = pc[u], ots'[u] = ots[u], wait'[u] = wait[u],
         asked[u] => asked'[u], UNCHANGED tsnow
  PROVE  WillLook(u)'
  BY DEF WillLook, Waiting, Tsnow

(* A step of timecb_check: a thread that no longer looks has seen an empty *)
(* tree, and one that fills tsnow under the others looks itself.           *)
LEMMA CheckLooks ==
  ASSUME LookInv, WakesAThread, NEW t \in Threads, CheckSteps(t),
         timecbs' # <<>>
  PROVE  \E w \in Threads : WillLook(w)'
  <1> USE DEF LookInv, ListsInv, TypeOK, ThreadsOK, PlacesOK
  <1>0. MaxClock \in Nat /\ Long \in Nat /\ MaxClock < Long /\ Tsnow \in Nat
        BY Constants, TsnowType DEF Long, TimeOK
  <1>1. timecbs # <<>>
        BY DEF CheckSteps, BeginCheck, FillTsnow, LockTimers, Expire, Expired,
               UnlockTimers, Compare, Subtract, EnterEpoll, Return, treeVars
  <1>2. PICK u \in Threads : WillLook(u)
        BY <1>1 DEF SomebodyLooks
  <1>3. CASE FillTsnow(t)
    <2>1. pc'[t] \in {"fill", "refill", "lock", "compare"}
          BY <1>3 DEF FillTsnow, Goto
    <2>2. WillLook(t)'
          BY <2>1 DEF WillLook, Steps
    <2> QED BY <2>2
  <1>4. CASE ~FillTsnow(t) /\ u # t
    <2>1. /\ pc'[u] = pc[u] /\ ots'[u] = ots[u] /\ wait'[u] = wait[u]
          /\ UNCHANGED tsnow
          BY <1>4 DEF CheckSteps, BeginCheck, LockTimers, Expire,
             UnlockTimers, Compare, Subtract, EnterEpoll, Return, Goto,
             timeVars, threadVars
    <2>2. asked[u] => asked'[u]
      <3>1. CASE Expire(t)
            BY <3>1 DEF Expire, AskedToRun
      <3>2. CASE EnterEpoll(t) \/ BeginCheck(t)
            BY <1>4, <3>2 DEF EnterEpoll, BeginCheck
      <3>3. CASE ~Expire(t) /\ ~EnterEpoll(t) /\ ~BeginCheck(t)
            BY <1>4, <3>3 DEF CheckSteps, Return, LockTimers,
               UnlockTimers, Compare, Subtract, placeVars
      <3> QED BY <3>1, <3>2, <3>3
    <2>3. WillLook(u)'
          BY <1>2, <2>1, <2>2, OthersLook
    <2> QED BY <2>3
  <1>5. CASE ~FillTsnow(t) /\ u = t
    <2> SUFFICES WillLook(t)'
        OBVIOUS
    <2>0. WillLook(t)
          BY <1>2, <1>5
    <2>1. CASE BeginCheck(t)
      <3>1. Len(timecbs) \in Nat /\ Len(timecbs) # 0 /\ nb \in Int
            BY <1>1, ElementsOf DEF TreesOK
      <3>2. nb # 0
            BY <3>1 DEF NeverTooSmall
      <3>3. pc'[t] = "fill"
            BY <2>1, <3>2 DEF BeginCheck, Goto
      <3> QED BY <3>3 DEF WillLook, Steps
    <2>2. CASE LockTimers(t) \/ Expire(t)
      <3>1. pc'[t] = "scan"
            BY <2>2 DEF LockTimers, Expire, Goto, threadVars
      <3> QED BY <3>1 DEF WillLook, Steps
    <2>3. CASE UnlockTimers(t)
      <3>1. first[t] # None
            BY <1>1, <2>3 DEF UnlockTimers, LockHeld
      <3>2. pc'[t] = "refill"
            BY <2>3, <3>1 DEF UnlockTimers, Goto
      <3> QED BY <3>2 DEF WillLook, Steps
    <2>4. CASE Compare(t)
      <3>1. CASE ots[t] < Tsnow
        <4>1. pc'[t] = "enter" /\ wait'[t] = 0
              BY <2>4, <3>1 DEF Compare, Goto
        <4> QED BY <1>0, <4>1 DEF WillLook
      <3>2. CASE ~(ots[t] < Tsnow)
        <4>1. pc'[t] = "subtract" /\ ots'[t] = ots[t] /\ Tsnow' = Tsnow
              BY <2>4, <3>2 DEF Compare, Goto, timeVars, Tsnow
        <4>2. ots[t] >= Tsnow
              BY <1>0, <3>2
        <4> QED BY <4>1, <4>2 DEF WillLook
      <3> QED BY <3>1, <3>2
    <2>5. CASE Subtract(t)
      <3>1. pc[t] = "subtract" /\ pc'[t] = "enter"
            BY <2>5 DEF Subtract, Goto
      <3>2. wait'[t] = ots[t] - Tsnow
            BY <2>5, WaitIsRest
      <3>3. ots[t] >= Tsnow /\ ots[t] \in -1 .. MaxClock
            BY <2>0, <3>1 DEF WillLook, Waiting
      <3>4. 0 <= wait'[t] /\ wait'[t] < Long
            BY <1>0, <3>2, <3>3
      <3>5. Long' = Long
            BY DEF Long
      <3> QED BY <3>1, <3>4, <3>5 DEF WillLook
    <2>6. CASE EnterEpoll(t)
      <3>1. pc[t] = "enter"
            BY <2>6 DEF EnterEpoll
      <3>2. 0 <= wait[t] /\ wait[t] < Long /\ wait[t] \in Int
            BY <2>0, <3>1 DEF WillLook, Waiting
      <3>3. CASE asked[t] \/ wait[t] = 0
        <4>1. pc'[t] = "loop"
              BY <2>6, <3>3 DEF EnterEpoll, Goto
        <4> QED BY <4>1 DEF WillLook, Steps
      <3>4. CASE ~(asked[t] \/ wait[t] = 0)
        <4>1. ~(wait[t] < 0 \/ wait[t] = Long)
              BY <1>0, <3>2
        <4>2. /\ pc'[t] \in {"asleep", "late"}
              /\ wait'[t] = Min({program.last, clock + wait[t]})
              BY <2>6, <3>4, <4>1 DEF EnterEpoll, Goto
        <4>3. program.last \in 0 .. MaxClock /\ clock + wait[t] \in Int
              BY <3>2, Constants DEF TimeOK
        <4>4. wait'[t] <= program.last /\ wait'[t] \in Int
          <5>1. program.last \in Int
                BY <1>0, <4>3
          <5>2. Min({program.last, clock + wait[t]})
                  \in {program.last, clock + wait[t]}
                /\ Min({program.last, clock + wait[t]}) <= program.last
                BY <4>3, <5>1, MinOfTwo
          <5> QED BY <4>2, <4>3, <5>1, <5>2
        <4>5. wait'[t] < Long
              BY <1>0, <4>3, <4>4
        <4>6. Long' = Long
              BY DEF Long
        <4> QED BY <4>2, <4>5, <4>6 DEF WillLook, Waiting
      <3> QED BY <3>3, <3>4
    <2>7. CASE Return(t)
      <3>1. pc'[t] = "loop"
            BY <2>7 DEF Return, Goto
      <3> QED BY <3>1 DEF WillLook, Steps
    <2> QED BY <1>5, <2>1, <2>2, <2>3, <2>4, <2>5, <2>6, <2>7 DEF CheckSteps
  <1> QED BY <1>3, <1>4, <1>5

(* The other steps: the thread that sets a timer looks at the tree later,  *)
(* and no step keeps from looking a thread that would.                     *)
LEMMA OtherStepsLook ==
  ASSUME LookInv, WakesAThread, WakesAThread', timecbs' # <<>>,
         NEW t \in Threads,
         \/ \E x \in Timers, d \in Dates : InsertTimer(t, x, d)
         \/ \E x \in Timers : RemoveTimer(t, x)
         \/ RunTimer(t) \/ WakeOwner(t) \/ Land(t)
         \/ \E c \in Colors : StartTimer(t, c) \/ Steal(t, c)
         \/ Tick \/ UNCHANGED vars
  PROVE  \E w \in Threads : WillLook(w)'
  <1> USE DEF LookInv, ListsInv, TypeOK, ThreadsOK, PlacesOK
  <1>1. CASE \E x \in Timers, d \in Dates : InsertTimer(t, x, d)
    <2>1. pc'[t] = "wake"
          BY <1>1 DEF InsertTimer, Goto
    <2> QED BY <2>1 DEF WillLook, Steps
  <1>2. CASE Tick \/ UNCHANGED vars
    <2>1. UNCHANGED <<timecbs, pc, ots, wait, asked, tsnow>>
          BY <1>2 DEF Tick, vars, treeVars, threadVars, placeVars, timeVars
    <2>2. PICK u \in Threads : WillLook(u)
          BY <2>1 DEF SomebodyLooks
    <2>3. WillLook(u)'
          BY <2>1, <2>2, OthersLook
    <2> QED BY <2>3
  <1>3. CASE \/ \E x \in Timers : RemoveTimer(t, x)
             \/ RunTimer(t) \/ WakeOwner(t) \/ Land(t)
             \/ \E c \in Colors : StartTimer(t, c) \/ Steal(t, c)
    <2>1. timecbs # <<>>
      <3>1. CASE \E x \in Timers : RemoveTimer(t, x)
        <4>1. PICK x \in Timers : RemoveTimer(t, x)
              BY <3>1
        <4>2. x \in active \/ Waits(x)
              BY <4>1, RemoveFinds
        <4>3. x \in active => UNCHANGED timecbs
              BY <4>1 DEF RemoveTimer
        <4>4. Waits(x) => timecbs # <<>>
              BY EmptyList DEF Waits
        <4> QED BY <4>2, <4>3, <4>4
      <3>2. CASE ~\E x \in Timers : RemoveTimer(t, x)
            BY <1>3, <3>2 DEF RunTimer, WakeOwner, Land, StartTimer, Steal,
                              treeVars
      <3> QED BY <3>1, <3>2
    <2>2. /\ pc'[t] \in {"loop", "timer", "steal"}
          /\ \A w \in Threads :
               /\ w # t => pc'[w] = pc[w]
               /\ ots'[w] = ots[w] /\ wait'[w] = wait[w]
               /\ asked[w] => asked'[w]
          /\ UNCHANGED tsnow
      <3>1. CASE \E x \in Timers : RemoveTimer(t, x)
            BY <3>1 DEF RemoveTimer, timeVars, placeVars, threadVars
      <3>2. CASE RunTimer(t) \/ WakeOwner(t)
            BY <3>2 DEF RunTimer, WakeOwner, Goto, timeVars, placeVars,
                        WakesAThread
      <3>3. CASE Land(t) \/ \E c \in Colors : StartTimer(t, c) \/ Steal(t, c)
            BY <3>3 DEF Land, StartTimer, Steal, Goto, timeVars, threadVars
      <3> QED BY <1>3, <3>1, <3>2, <3>3
    <2>3. WillLook(t)'
          BY <2>2 DEF WillLook, Steps
    <2> QED BY <2>3
  <1> QED BY <1>1, <1>2, <1>3

(* A thread that is lost stays lost. *)
LEMMA LostForEver ==
  ASSUME TypeOK, [Next]_vars, WakesAThread'
  PROVE  WakesAThread
  <1> SUFFICES ASSUME NEW u \in Threads, pc[u] = "fault"
               PROVE  pc'[u] = "fault"
      BY DEF WakesAThread
  <1> USE DEF TypeOK, ThreadsOK
  <1>1. ASSUME NEW t \in Threads, CheckSteps(t) PROVE pc'[u] = pc[u]
        BY <1>1 DEF CheckSteps, BeginCheck, FillTsnow, LockTimers, Expire,
           UnlockTimers, Compare, Subtract, EnterEpoll, Return, Waiting,
           Goto, threadVars
  <1>2. ASSUME NEW t \in Threads, NEW x \in Timers,
               \/ \E d \in Dates : InsertTimer(t, x, d)
               \/ RemoveTimer(t, x)
        PROVE  pc'[u] = pc[u]
        BY <1>2 DEF InsertTimer, RemoveTimer, Goto
  <1>3. ASSUME NEW t \in Threads,
               \/ RunTimer(t) \/ WakeOwner(t) \/ Land(t)
               \/ \E c \in Colors : StartTimer(t, c) \/ Steal(t, c)
        PROVE  pc'[u] = pc[u]
        BY <1>3 DEF RunTimer, WakeOwner, Land, StartTimer, Steal, Goto
  <1>4. CASE Tick \/ UNCHANGED vars
        BY <1>4 DEF Tick, vars
  <1> QED BY <1>1, <1>2, <1>3, <1>4, NextCases

(* Every step keeps the promise that somebody looks at the tree. *)
LEMMA LookStep ==
  ASSUME LookInv, [Next]_vars
  PROVE  LookInv'
  <1>1. ListsInv' /\ LockHeld'
        BY ListsStep, LockStep DEF LookInv, ListsInv
  <1>2. SomebodyLooks'
    <2> SUFFICES ASSUME timecbs' # <<>>, WakesAThread'
                 PROVE  \E w \in Threads : WillLook(w)'
        BY DEF SomebodyLooks
    <2>0. WakesAThread
          BY LostForEver DEF LookInv, ListsInv
    <2>1. TypeOK /\ 0 \in Threads
          BY TimersAssumption
          DEF LookInv, ListsInv, TimersAssumption, Threads
    <2> QED BY <2>0, <2>1, CheckLooks, OtherStepsLook, NextCases
  <1> QED BY <1>1, <1>2 DEF LookInv

(* Never do all the threads wait without end with a timer in the tree and  *)
(* no wakeup to come, however they fill the shared tsnow under each other: *)
(* a thread that fills it looks itself, and the last that looked waits for *)
(* no longer than the first timer it saw, by the tsnow it saw.             *)
THEOREM NobodyOversleeps == Spec => []NoOversleep
  <1>1. Init => LookInv
    <2> SUFFICES ASSUME Init PROVE LockHeld /\ SomebodyLooks /\ ListsInv
        BY DEF LookInv
    <2>1. LockHeld /\ SomebodyLooks
          BY Constants DEF Init, LockHeld, SomebodyLooks
    <2> QED BY <2>1, ListsInit
  <1>2. LookInv => NoOversleep
    <2> SUFFICES ASSUME LookInv, timecbs # <<>>,
                        \A t \in Threads : Waiting(t) /\ ~asked[t]
                 PROVE  \E t \in Threads : wait[t] < Long
        BY DEF NoOversleep
    <2>1. PICK t \in Threads : WillLook(t)
          BY DEF LookInv, SomebodyLooks, WakesAThread, Waiting
    <2> QED BY <2>1 DEF WillLook, Waiting, Steps
  <1> QED BY <1>1, <1>2, LookStep, PTL DEF Spec
===============================================================================
