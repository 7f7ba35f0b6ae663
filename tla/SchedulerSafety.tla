--------------------------- MODULE SchedulerSafety --------------------------
(***************************************************************************)
(* The scheduler proved for every number of threads, colors and callbacks. *)
(* First type correctness and the lemmas on its operators; then where the  *)
(* lists are and who may touch them, whatever threads post and steal: the  *)
(* inductive invariant behind the exclusion of colors; then what the locks *)
(* protect, and that no panic is reached.                                  *)
(***************************************************************************)
EXTENDS Scheduler, ListLemmas

(* The values of a modulo. *)
LEMMA ModRange ==
  ASSUME NEW a \in Int, NEW n \in Nat \ {0}
  PROVE  a % n \in 0 .. n - 1
  OBVIOUS

(* The half of a number, what a thief may take. *)
LEMMA Half ==
  ASSUME NEW k \in Nat
  PROVE  k \div 2 \in Nat /\ 2 * (k \div 2) <= k
  OBVIOUS

(* The sets of names: a thread is an actor, the list of a color is a list. *)
LEMMA Names ==
  /\ Threads \subseteq Actors /\ Main \in Actors /\ Main \notin Threads
  /\ \A a \in Actors : a # Main => a \in Threads
  /\ Nobody \notin Threads /\ Nobody \notin Actors
  /\ 0 \in Threads
  /\ Colors \subseteq Lists /\ NoList \notin Lists
  /\ Lists \subseteq Int
  /\ \A l \in Lists : l >= 0 => l \in Colors
  /\ \A t \in Threads : NegList(t) \in Lists /\ NegList(t) < 0
  /\ \A t, u \in Threads : NegList(t) = NegList(u) => t = u
  BY SchedulerAssumption
  DEF SchedulerAssumption, Threads, Actors, Main, Nobody, Lists, NoList,
      NegList, Colors

(* The list of a color is its remainder, that of a negative color is       *)
(* private to the thread.                                                  *)
LEMMA ListOfColor ==
  ASSUME NEW k \in Int, NEW t \in Threads
  PROVE  /\ ListOf(k, t) \in Lists
         /\ k >= 0 => ListOf(k, t) = k % MaxColors /\ ListOf(k, t) >= 0
         /\ k < 0 => ListOf(k, t) = NegList(t)
  <1>1. CASE k < 0
        BY <1>1, Names DEF ListOf
  <1>2. CASE k >= 0
    <2>1. k % MaxColors \in Colors
          BY SchedulerAssumption, ModRange DEF SchedulerAssumption, Colors
    <2>2. ListOf(k, t) = k % MaxColors
          BY <1>2 DEF ListOf
    <2>3. k % MaxColors >= 0 /\ ~(k < 0)
          BY <1>2, <2>1, SchedulerAssumption DEF SchedulerAssumption, Colors
    <2> QED BY <2>1, <2>2, <2>3, Names
  <1> QED BY <1>1, <1>2

-----------------------------------------------------------------------------
(* The operators on lists *)

(* The position behind which a list is inserted, 0 at the head. *)
LEMMA SlotRange ==
  ASSUME NEW list \in Seq(Lists), NEW p, NEW inc, NEW b
  PROVE  Slot(list, p, inc, b) \in 0 .. Len(list)
  <1> DEFINE T == {0} \cup {i \in 1 .. Len(list) :
                   curPrio[list[i]] + inc >= p \/ (b /\ i = 1)}
  <1>1. Len(list) \in Nat
        BY ElementsOf
  <1>2. T \subseteq 0 .. Len(list) /\ T # {}
        BY <1>1
  <1>3. Slot(list, p, inc, b) = Max(T)
        BY DEF Slot
  <1> HIDE DEF T
  <1>4. Max(T) \in T
        BY <1>1, <1>2, MaxOfBounded
  <1> QED BY <1>2, <1>3, <1>4

(* insert_in_tl adds the list, anywhere. *)
LEMMA LinkedList ==
  ASSUME NEW list \in Seq(Lists), NEW l \in Lists,
         NEW s \in 0 .. Len(list)
  PROVE  /\ Linked(list, s, l) \in Seq(Lists)
         /\ ToSet(Linked(list, s, l)) = ToSet(list) \cup {l}
         /\ IsInjective(list) /\ l \notin ToSet(list)
              => IsInjective(Linked(list, s, l))
  <1>1. Len(list) \in Nat
        BY ElementsOf
  <1>2. s + 1 \in 1 .. Len(list) + 1
        BY <1>1
  <1> QED BY <1>2, InsertedElements DEF Linked

(* Ageing keeps the priorities numbers. *)
LEMMA AgedType ==
  ASSUME curPrio \in [Lists -> Int], NEW list, NEW s, NEW l, NEW p \in Int,
         NEW inc \in Int
  PROVE  Aged(list, s, l, p, inc) \in [Lists -> Int]
  BY DEF Aged

(* unlink_tl removes the list and nothing else. *)
LEMMA UnlinkedList ==
  ASSUME NEW S, NEW list \in Seq(S), NEW l
  PROVE  /\ Unlinked(list, l) \in Seq(S)
         /\ ToSet(Unlinked(list, l)) \subseteq ToSet(list)
         /\ \A x \in ToSet(list) : x # l => x \in ToSet(Unlinked(list, l))
         /\ IsInjective(list) => /\ IsInjective(Unlinked(list, l))
                                 /\ l \notin ToSet(Unlinked(list, l))
  <1>1. CASE ~Contains(list, l)
    <2>1. Unlinked(list, l) = list
          BY <1>1 DEF Unlinked
    <2>2. l \notin ToSet(list)
          BY <1>1, ElementsOf
    <2> QED BY <2>1, <2>2
  <1>2. CASE Contains(list, l)
    <2> DEFINE i == CHOOSE j \in 1 .. Len(list) : list[j] = l
    <2>1. i \in 1 .. Len(list) /\ list[i] = l
          BY <1>2 DEF Contains
    <2>2. Unlinked(list, l) = RemoveAt(list, i)
          BY <1>2 DEF Unlinked
    <2> HIDE DEF i
    <2> QED BY <2>1, <2>2, RemovedElements
  <1> QED BY <1>1, <1>2

(* Linking a list for theft adds this list at most, and removes none. *)
LEMMA StealLinkedList ==
  ASSUME NEW list \in Seq(Colors), NEW l \in Lists
  PROVE  /\ StealLinked(list, l) \in Seq(Colors)
         /\ ToSet(StealLinked(list, l)) \subseteq ToSet(list) \cup {l}
         /\ ToSet(list) \subseteq ToSet(StealLinked(list, l))
         /\ ~Stealing \/ l < 0 => StealLinked(list, l) = list
         /\ Stealing /\ l >= 0 => l \in ToSet(StealLinked(list, l))
         /\ IsInjective(list) => IsInjective(StealLinked(list, l))
  <1>1. Contains(list, l) <=> l \in ToSet(list)
        BY ElementsOf
  <1>2. CASE ~Stealing \/ l < 0 \/ Contains(list, l)
    <2>1. StealLinked(list, l) = list
          BY <1>2 DEF StealLinked
    <2> QED BY <1>1, <1>2, <2>1, Names
  <1>3. CASE Stealing /\ ~(l < 0) /\ ~Contains(list, l)
    <2>1. StealLinked(list, l) = Append(list, l)
          BY <1>3 DEF StealLinked
    <2>2. l \in Colors
          BY <1>3, Names
    <2>3. /\ Append(list, l) \in Seq(Colors)
          /\ ToSet(Append(list, l)) = ToSet(list) \cup {l}
          /\ IsInjective(list) /\ l \notin ToSet(list)
               => IsInjective(Append(list, l))
          BY <2>2, AppendedElements
    <2> QED BY <1>1, <1>3, <2>1, <2>3
  <1> QED BY <1>2, <1>3

(* The count of callbacks of a list, and when there are some. *)
LEMMA NbCallbacksType ==
  ASSUME ListsOK, NEW l \in Lists
  PROVE  /\ NbCallbacks(l) \in Nat
         /\ headSeg[l] \in Seq(Tasks) /\ tailSeg[l] \in Seq(Tasks)
         /\ NbCallbacks(l) > 0 <=> headSeg[l] # <<>> \/ tailSeg[l] # <<>>
  <1> DEFINE h == Len(headSeg[l])
             k == Len(tailSeg[l])
  <1>1. headSeg[l] \in Seq(Tasks) /\ tailSeg[l] \in Seq(Tasks)
        BY DEF ListsOK
  <1>2. h \in Nat /\ k \in Nat
        BY <1>1, ElementsOf
  <1>3. (headSeg[l] = <<>> <=> h = 0) /\ (tailSeg[l] = <<>> <=> k = 0)
        BY <1>1, ElementsOf
  <1>4. NbCallbacks(l) = h + k
        BY DEF NbCallbacks
  <1> HIDE DEF h, k
  <1> QED BY <1>1, <1>2, <1>3, <1>4

(* What NextTask does first to the list that ran last: it may move, or     *)
(* leave when it is empty, and the others stay.                            *)
LEMMA RetiredList ==
  ASSUME ListsOK, CountsOK, NEW t \in Threads
  PROVE  /\ Retired(t).list \in Seq(Lists)
         /\ Retired(t).cur \in [Lists -> Int]
         /\ Retired(t).done \in Nat
         /\ Retired(t).uniq \in Int
         /\ acolor[t] = NoList \/ acolor[t] \in ToSet(colorList[t])
              => ToSet(Retired(t).list) \subseteq ToSet(colorList[t])
         /\ \A x \in ToSet(colorList[t]) :
              x # acolor[t] \/ NbCallbacks(x) > 0 => x \in ToSet(Retired(t).list)
         /\ IsInjective(colorList[t]) => IsInjective(Retired(t).list)
         /\ \A x \in Lists :
              /\ x = acolor[t] /\ NbCallbacks(x) = 0
              /\ IsInjective(colorList[t])
              => x \notin ToSet(Retired(t).list)
  <1> DEFINE l    == acolor[t]
             list == colorList[t]
             rest == Unlinked(list, l)
             s    == Slot(rest, prio[l], nbExecuted[t], FALSE)
             same == [list |-> list, cur |-> curPrio, done |-> nbExecuted[t],
                      uniq |-> numUnique[t]]
  <1>0. /\ list \in Seq(Lists) /\ l \in Lists \cup {NoList}
        /\ curPrio \in [Lists -> Int] /\ nbExecuted[t] \in Nat
        /\ numUnique[t] \in Int
        BY DEF ListsOK, CountsOK
  <1>1. CASE l = NoList
    <2>1. Retired(t) = same
          BY <1>1 DEF Retired
    <2>2. l \notin Lists
          BY <1>1, Names
    <2> QED BY <1>0, <2>1, <2>2
  <1>2. CASE l # NoList
    <2>0. l \in Lists
          BY <1>0, <1>2
    <2>1. NbCallbacks(l) \in Nat
          BY <2>0, NbCallbacksType
    <2>2. /\ rest \in Seq(Lists)
          /\ ToSet(rest) \subseteq ToSet(list)
          /\ \A x \in ToSet(list) : x # l => x \in ToSet(rest)
          /\ IsInjective(list) => IsInjective(rest) /\ l \notin ToSet(rest)
          BY <1>0, UnlinkedList
    <2>3. Unique(l) \in Int
          BY DEF Unique
    <2>4. CASE NbCallbacks(l) = 0
      <3>1. Retired(t) = [list |-> rest, cur |-> curPrio, done |-> 0,
                          uniq |-> numUnique[t] - Unique(l)]
            BY <1>2, <2>4 DEF Retired
      <3> HIDE DEF rest
      <3> QED BY <1>0, <2>2, <2>3, <2>4, <3>1
    <2>5. CASE NbCallbacks(l) # 0 /\ nbExecuted[t] < BatchThreshold
      <3>1. Retired(t) = same
            BY <1>2, <2>5 DEF Retired
      <3> QED BY <1>0, <2>5, <3>1
    <2>6. CASE /\ NbCallbacks(l) # 0 /\ ~(nbExecuted[t] < BatchThreshold)
               /\ l = Last(list)
      <3>1. Retired(t) = [list |-> list, cur |-> curPrio, done |-> 0,
                          uniq |-> numUnique[t]]
            BY <1>2, <2>6 DEF Retired
      <3> QED BY <1>0, <2>6, <3>1
    <2>7. CASE /\ NbCallbacks(l) # 0 /\ ~(nbExecuted[t] < BatchThreshold)
               /\ l # Last(list)
      <3>1. Retired(t) = [list |-> Linked(rest, s, l),
                          cur |-> Aged(rest, s, l, prio[l], nbExecuted[t]),
                          done |-> 0, uniq |-> numUnique[t]]
            BY <1>2, <2>7 DEF Retired
      <3>2. s \in 0 .. Len(rest)
            BY <2>2, SlotRange
      <3>3. Aged(rest, s, l, prio[l], nbExecuted[t]) \in [Lists -> Int]
        <4>1. prio[l] \in Int /\ nbExecuted[t] \in Int
              BY <1>0, <2>0 DEF CountsOK
        <4> HIDE DEF rest, s
        <4> QED BY <1>0, <4>1, AgedType
      <3> HIDE DEF rest, s
      <3>4. /\ Linked(rest, s, l) \in Seq(Lists)
            /\ ToSet(Linked(rest, s, l)) = ToSet(rest) \cup {l}
            /\ IsInjective(rest) /\ l \notin ToSet(rest)
                 => IsInjective(Linked(rest, s, l))
            BY <2>0, <2>2, <3>2, LinkedList
      <3> QED BY <1>0, <1>2, <2>2, <2>7, <3>1, <3>3, <3>4
    <2> QED BY <2>1, <2>4, <2>5, <2>6, <2>7
  <1> QED BY <1>1, <1>2

-----------------------------------------------------------------------------
(* The types, and what register_task knows of the post it makes. *)

PostOK ==
  \A a \in Actors :
    /\ pc[a] \in {"read", "post", "notify"} =>
         posting[a].cb \in Tasks /\ posting[a].color >= -NThreads
    /\ pc[a] \in {"post", "notify"} => dest[a] \in Threads

TypeInv == TypeOK /\ PostOK

(* The initial state has its types. *)
LEMMA TypeInvInit == Init => TypeInv
  <1> SUFFICES ASSUME Init PROVE TypeInv
      OBVIOUS
  <1>1. queueOf \in [Colors -> Threads \cup {Nobody}]
    <2>1. \A c \in Colors : c % NThreads \in 0 .. NThreads - 1
          BY ModRange, SchedulerAssumption DEF SchedulerAssumption, Colors
    <2> QED BY <2>1 DEF Init, Threads
  <1>2. <<>> \in Seq(Lists) /\ <<>> \in Seq(Colors) /\ <<>> \in Seq(Tasks)
        OBVIOUS
  <1>3. ListsOK
        BY <1>1, <1>2 DEF Init, ListsOK
  <1>4. CountsOK
        BY DEF Init, CountsOK
  <1>5. Post0 \in Posts
        BY DEF Post0, Posts
  <1>6. 0 \in 0 .. NbBoot
    <2>1. Len(BootProgram) \in Nat
          BY SchedulerAssumption, ElementsOf DEF SchedulerAssumption
    <2> QED BY <2>1, SchedulerAssumption DEF NbBoot, SchedulerAssumption
  <1>7. ControlOK
        BY <1>5, <1>6, Names DEF Init, ControlOK, PCs
  <1>8. Watcher!TypeOK
        BY DEF Init, Watcher!Init, Watcher!TypeOK, Watcher!Places
  <1>9. PostOK
        BY DEF Init, PostOK
  <1> QED BY <1>3, <1>4, <1>7, <1>8, <1>9 DEF TypeInv, TypeOK

(* Steps of the wakeup protocol keep its types. *)
LEMMA WatcherTypes ==
  ASSUME Watcher!TypeOK, NEW k \in Actors, NEW w \in Threads,
         \/ Watcher!Signal(k, w) \/ Watcher!Write(k, w)
         \/ Watcher!TimerDue(w) \/ Watcher!InitPrivate(w)
         \/ Watcher!EnterEpoll(w) \/ Watcher!Return(w)
         \/ Watcher!ReturnEvent(w) \/ Watcher!ClearActive(w)
         \/ Watcher!DrainPipe(w) \/ Watcher!Leave(w)
         \/ UNCHANGED wakeVars
  PROVE  Watcher!TypeOK'
  <1> USE DEF Watcher!TypeOK, Watcher!Places
  <1>1. CASE Watcher!Signal(k, w)    BY <1>1 DEF Watcher!Signal
  <1>2. CASE Watcher!Write(k, w)     BY <1>2 DEF Watcher!Write
  <1>3. CASE Watcher!TimerDue(w)     BY <1>3 DEF Watcher!TimerDue
  <1>4. CASE Watcher!InitPrivate(w)  BY <1>4 DEF Watcher!InitPrivate
  <1>5. CASE Watcher!EnterEpoll(w)
        BY <1>5 DEF Watcher!EnterEpoll, Watcher!Waits
  <1>6. CASE Watcher!Return(w)       BY <1>6 DEF Watcher!Return
  <1>7. CASE Watcher!ReturnEvent(w)  BY <1>7 DEF Watcher!ReturnEvent
  <1>8. CASE Watcher!ClearActive(w)  BY <1>8 DEF Watcher!ClearActive
  <1>9. CASE Watcher!DrainPipe(w)    BY <1>9 DEF Watcher!DrainPipe
  <1>10. CASE Watcher!Leave(w)       BY <1>10 DEF Watcher!Leave
  <1>11. CASE UNCHANGED wakeVars     BY <1>11 DEF wakeVars
  <1> QED BY <1>1, <1>2, <1>3, <1>4, <1>5, <1>6, <1>7, <1>8, <1>9, <1>10, <1>11

-----------------------------------------------------------------------------
(* Posting *)

(* The post that register_task starts with. *)
LEMMA BeginPostTypes ==
  ASSUME ControlOK, PostOK, NEW a \in Actors, NEW p \in Posts,
         p.cb \in Tasks, p.color >= -NThreads, BeginPost(a, p)
  PROVE  /\ pc' \in [Actors -> PCs]
         /\ posting' \in [Actors -> Posts]
         /\ dest' \in [Actors -> Threads \cup {Nobody}]
         /\ PostOK'
  <1>1. p.color \in Int
        BY DEF Posts
  <1>2. ASSUME ~(p.color >= 0 /\ Stealing) PROVE DirectDest(p) \in Threads
    <2>1. CASE p.color < 0
          BY <1>1, <2>1, SchedulerAssumption
          DEF DirectDest, Threads, SchedulerAssumption
    <2>2. CASE p.color >= 0
      <3>1. p.color % NThreads \in 0 .. NThreads - 1
            BY <1>1, ModRange, SchedulerAssumption DEF SchedulerAssumption
      <3>2. ~(p.color < 0)
            BY <1>1, <2>2
      <3> QED BY <3>1, <3>2 DEF DirectDest, Threads
    <2> QED BY <1>1, <2>1, <2>2
  <1>3. posting' = [posting EXCEPT ![a] = p]
        BY DEF BeginPost
  <1>4. CASE p.color >= 0 /\ Stealing
    <2>1. pc' = [pc EXCEPT ![a] = "read"] /\ dest' = dest
          BY <1>4 DEF BeginPost
    <2> QED BY <1>3, <2>1 DEF ControlOK, PostOK, PCs
  <1>5. CASE ~(p.color >= 0 /\ Stealing)
    <2>1. pc' = [pc EXCEPT ![a] = "post"]
          /\ dest' = [dest EXCEPT ![a] = DirectDest(p)]
          BY <1>5 DEF BeginPost
    <2> HIDE DEF DirectDest
    <2> QED BY <1>2, <1>3, <1>5, <2>1 DEF ControlOK, PostOK, PCs
  <1> QED BY <1>4, <1>5

(* What a callback posts is a post. *)
LEMMA PostedType ==
  ASSUME NEW c \in Callbacks
  PROVE  /\ Posted(c) \in Posts
         /\ Posted(c).cb \in Tasks /\ Posted(c).color >= -NThreads
  BY SchedulerAssumption DEF SchedulerAssumption, Posted, Posts, Tasks

(* What main posts is a post. *)
LEMMA BootCallbackType ==
  ASSUME NEW n \in 1 .. NbBoot
  PROVE  /\ BootCallback(n) \in Posts
         /\ BootCallback(n).cb \in Tasks
         /\ BootCallback(n).color >= -NThreads
  <1> DEFINE k == n - Len(BootProgram) - 1
  <1>1. Len(BootProgram) \in Nat /\ NThreads \in Nat
        BY SchedulerAssumption, ElementsOf DEF SchedulerAssumption
  <1>2. CASE k < 0
    <2>1. n \in 1 .. Len(BootProgram)
          BY <1>1, <1>2 DEF NbBoot
    <2>2. BootProgram[n] \in Callbacks
          BY <2>1, SchedulerAssumption, ElementOfSeq DEF SchedulerAssumption
    <2>3. BootCallback(n) = Posted(BootProgram[n])
          BY <1>2 DEF BootCallback
    <2> QED BY <2>2, <2>3, PostedType
  <1>3. CASE ~(k < 0)
    <2>1. k \in Nat /\ k < 2 * NThreads
          BY <1>1, <1>3 DEF NbBoot
    <2>2. k \div 2 \in Nat /\ 2 * (k \div 2) <= k
          BY <2>1, Half
    <2>3. k \div 2 < NThreads
          BY <1>1, <2>1, <2>2
    <2>4. BootCallback(n) =
            [cb |-> IF k % 2 = 0 THEN "ainit" ELSE "acheck",
             color |-> NegList(k \div 2), prio |-> 0, last |-> k % 2 = 1]
          BY <1>3 DEF BootCallback
    <2>5. NegList(k \div 2) \in Int /\ NegList(k \div 2) >= -NThreads
          BY <1>1, <2>2, <2>3 DEF NegList
    <2> HIDE DEF k
    <2> QED BY <2>4, <2>5 DEF Posts, Tasks, Specials
  <1> QED BY <1>2, <1>3

(* A callback posts. *)
LEMMA PostType ==
  ASSUME TypeInv, NEW t \in Threads, NEW c \in Callbacks, Post(t, c)
  PROVE  TypeInv'
  <1> USE DEF TypeInv, TypeOK
  <1>1. t \in Actors
        BY Names
  <1>2. /\ pc' \in [Actors -> PCs] /\ posting' \in [Actors -> Posts]
        /\ dest' \in [Actors -> Threads \cup {Nobody}] /\ PostOK'
        BY <1>1, BeginPostTypes, PostedType DEF Post
  <1>3. ControlOK'
        BY <1>2 DEF Post, ControlOK, stealVars, NbBoot
  <1>4. ListsOK' /\ CountsOK'
        BY DEF Post, ListsOK, CountsOK, listVars, countVars, flagVars,
               stealVars
  <1>5. Watcher!TypeOK'
        BY <1>1, WatcherTypes DEF Post
  <1> QED BY <1>2, <1>3, <1>4, <1>5

(* A post reads the owner of its color. *)
LEMMA ReadOwnerType ==
  ASSUME TypeInv, NEW a \in Actors, ReadOwner(a)
  PROVE  TypeInv'
  <1> USE DEF TypeInv, TypeOK
  <1>1. posting[a].color % MaxColors \in Colors
    <2>1. posting[a].color \in Int
          BY DEF ControlOK, Posts
    <2> QED BY <2>1, ModRange, SchedulerAssumption
            DEF SchedulerAssumption, Colors
  <1>2. \E owner \in Threads : dest' = [dest EXCEPT ![a] = owner]
    <2>1. queueOf[posting[a].color % MaxColors] \in Threads \cup {Nobody}
          BY <1>1 DEF ListsOK
    <2> QED BY <2>1 DEF ReadOwner
  <1>3. pc[a] = "read" /\ pc' = [pc EXCEPT ![a] = "post"] /\ posting' = posting
        BY DEF ReadOwner
  <1>4. ControlOK' /\ PostOK'
        BY <1>2, <1>3 DEF ReadOwner, ControlOK, PostOK, PCs, stealVars,
                          bootVars, NbBoot
  <1>5. ListsOK' /\ CountsOK'
        BY DEF ReadOwner, ListsOK, CountsOK, listVars, countVars, flagVars,
               stealVars
  <1>6. Watcher!TypeOK'
        BY Names, WatcherTypes DEF ReadOwner
  <1> QED BY <1>4, <1>5, <1>6

(* A post finds that the owner changed, and reads it again. *)
LEMMA RetryPostType ==
  ASSUME TypeInv, NEW a \in Actors, RetryPost(a)
  PROVE  TypeInv'
  <1> USE DEF TypeInv, TypeOK
  <1>1. ControlOK' /\ PostOK'
        BY DEF RetryPost, ControlOK, PostOK, PCs, stealVars, bootVars, NbBoot
  <1>2. ListsOK' /\ CountsOK'
        BY DEF RetryPost, ListsOK, CountsOK, listVars, countVars, flagVars,
               stealVars
  <1>3. Watcher!TypeOK'
        BY Names, WatcherTypes DEF RetryPost
  <1> QED BY <1>1, <1>2, <1>3

(* A post ends: its callback goes on, or the thread returns to its loop. *)
LEMMA EndPostTypes ==
  ASSUME ControlOK, PostOK, NEW a \in Actors, EndPost(a)
  PROVE  /\ pc' \in [Actors -> PCs]
         /\ running' \in [Threads -> Tasks \cup {"none"}]
         /\ posting' \in [Actors -> Posts]
         /\ dest' \in [Actors -> Threads \cup {Nobody}]
         /\ PostOK'
  <1>1. Post0 \in Posts
        BY DEF Post0, Posts
  <1>2. \E x \in {"loop", "run"} : pc' = [pc EXCEPT ![a] = x]
        BY DEF EndPost
  <1>3. running' = running \/ running' = [running EXCEPT ![a] = "none"]
        BY DEF EndPost
  <1>4. /\ posting' = [posting EXCEPT ![a] = Post0]
        /\ dest' = [dest EXCEPT ![a] = Nobody]
        BY DEF EndPost
  <1> QED BY <1>1, <1>2, <1>3, <1>4 DEF ControlOK, PostOK, PCs

(* _register_cb chains the list of the color if it was not, and adds the   *)
(* callback to it.                                                         *)
LEMMA RegisterCbTypes ==
  ASSUME ListsOK, CountsOK, NEW d \in Threads, NEW p \in Posts,
         p.cb \in Tasks, RegisterCb(d, p)
  PROVE  /\ colorList' \in [Threads -> Seq(Lists)]
         /\ stealList' \in [Threads -> Seq(Colors)]
         /\ headSeg' \in [Lists -> Seq(Tasks)]
         /\ tailSeg' \in [Lists -> Seq(Tasks)]
         /\ prio' \in [Lists -> Int] /\ curPrio' \in [Lists -> Int]
         /\ taskCount' \in [Threads -> Int] /\ numUnique' \in [Threads -> Int]
  <1> DEFINE l == ListOf(p.color, d)
             s == Slot(colorList[d], p.prio, 0, acolor[d] = NoList)
  <1>1. p.color \in Int /\ p.prio \in Int
        BY DEF Posts
  <1>2. l \in Lists
        BY <1>1, ListOfColor
  <1>3. colorList[d] \in Seq(Lists) /\ stealList[d] \in Seq(Colors)
        BY DEF ListsOK
  <1>4. s \in 0 .. Len(colorList[d])
        BY <1>3, SlotRange
  <1>5. Aged(colorList[d], s, l, p.prio, 0) \in [Lists -> Int]
    <2> HIDE DEF l, s
    <2>1. curPrio \in [Lists -> Int] /\ 0 \in Int
          BY DEF CountsOK
    <2> QED BY <1>1, <2>1, AgedType
  <1>6. Linked(colorList[d], s, l) \in Seq(Lists)
    <2> HIDE DEF l, s
    <2> QED BY <1>2, <1>3, <1>4, LinkedList
  <1>7. StealLinked(stealList[d], l) \in Seq(Colors)
    <2> HIDE DEF l, s
    <2> QED BY <1>2, <1>3, StealLinkedList
  <1>8. /\ \/ /\ colorList' = [colorList EXCEPT ![d] = Linked(@, s, l)]
              /\ curPrio' = Aged(colorList[d], s, l, p.prio, 0)
           \/ colorList' = colorList /\ curPrio' = curPrio
        /\ \/ tailSeg' = [tailSeg EXCEPT ![l] = Append(@, p.cb)]
              /\ headSeg' = headSeg
           \/ headSeg' = [headSeg EXCEPT ![l] = Append(@, p.cb)]
              /\ tailSeg' = tailSeg
        /\ prio' = [prio EXCEPT ![l] = p.prio]
        /\ taskCount' = [taskCount EXCEPT ![d] = @ + 1]
        /\ stealList' = [stealList EXCEPT ![d] = StealLinked(@, l)]
        BY DEF RegisterCb
  <1>9. \E x \in Int : numUnique' = [numUnique EXCEPT ![d] = @ + x]
    <2> DEFINE x == IF Fresh(d, l) THEN Unique(l) ELSE 0
    <2>1. x \in Int
          BY DEF Unique
    <2>2. numUnique' = [numUnique EXCEPT ![d] = @ + x]
          BY DEF RegisterCb
    <2> HIDE DEF x
    <2> QED BY <2>1, <2>2
  <1>10. /\ Append(headSeg[l], p.cb) \in Seq(Tasks)
         /\ Append(tailSeg[l], p.cb) \in Seq(Tasks)
    <2> HIDE DEF l
    <2>1. headSeg[l] \in Seq(Tasks) /\ tailSeg[l] \in Seq(Tasks)
          BY <1>2 DEF ListsOK
    <2> QED BY <2>1, AppendProperties
  <1> HIDE DEF l, s
  <1>11. colorList' \in [Threads -> Seq(Lists)] /\ curPrio' \in [Lists -> Int]
        BY <1>5, <1>6, <1>8 DEF ListsOK, CountsOK
  <1>12. stealList' \in [Threads -> Seq(Colors)]
        BY <1>7, <1>8 DEF ListsOK
  <1>13. headSeg' \in [Lists -> Seq(Tasks)] /\ tailSeg' \in [Lists -> Seq(Tasks)]
        BY <1>8, <1>10 DEF ListsOK
  <1>14. prio' \in [Lists -> Int]
        BY <1>1, <1>8 DEF CountsOK
  <1>15. taskCount' \in [Threads -> Int]
        BY <1>8 DEF CountsOK
  <1>16. numUnique' \in [Threads -> Int]
        BY <1>9 DEF CountsOK
  <1> QED BY <1>11, <1>12, <1>13, <1>14, <1>15, <1>16

(* A post inserts its callback. *)
LEMMA RegisterTaskType ==
  ASSUME TypeInv, NEW a \in Actors, RegisterTask(a)
  PROVE  TypeInv'
  <1> USE DEF TypeInv, TypeOK
  <1> DEFINE d == dest[a]
             p == posting[a]
  <1>1. d \in Threads /\ p \in Posts /\ p.cb \in Tasks
        BY DEF RegisterTask, ControlOK, PostOK
  <1>2. RegisterCb(d, p) /\ UpdateStealFlags(d)
        BY DEF RegisterTask
  <1> HIDE DEF d, p
  <1>3. /\ colorList' \in [Threads -> Seq(Lists)]
        /\ stealList' \in [Threads -> Seq(Colors)]
        /\ headSeg' \in [Lists -> Seq(Tasks)]
        /\ tailSeg' \in [Lists -> Seq(Tasks)]
        /\ prio' \in [Lists -> Int] /\ curPrio' \in [Lists -> Int]
        /\ taskCount' \in [Threads -> Int] /\ numUnique' \in [Threads -> Int]
        BY <1>1, <1>2, RegisterCbTypes
  <1>4. ListsOK'
        BY <1>3 DEF RegisterTask, ListsOK, stealVars
  <1>5. CountsOK'
    <2>1. /\ wasStealable' \in [Threads -> BOOLEAN]
          /\ hasBeenStolen' \in [Threads -> BOOLEAN]
      <3>1. CASE ~Stealing
            BY <1>2, <3>1 DEF UpdateStealFlags, flagVars, CountsOK
      <3>2. CASE Stealing
        <4> DEFINE w == Worth(stealList'[d], d)
        <4>1. w \in BOOLEAN
              BY DEF Worth
        <4>2. /\ wasStealable' = [wasStealable EXCEPT ![d] = w]
              /\ hasBeenStolen' = [hasBeenStolen EXCEPT ![d] = @ /\ ~w]
              BY <1>2, <3>2 DEF UpdateStealFlags
        <4> HIDE DEF w
        <4>3. wasStealable' \in [Threads -> BOOLEAN]
              BY <4>1, <4>2 DEF CountsOK
        <4>4. (hasBeenStolen[d] /\ ~w) \in BOOLEAN
              BY Zenon
        <4>5. hasBeenStolen' \in [Threads -> BOOLEAN]
              BY <4>2, <4>4 DEF CountsOK
        <4> QED BY <4>3, <4>5
      <3> QED BY <3>1, <3>2
    <2> QED BY <1>3, <2>1 DEF RegisterTask, CountsOK
  <1>6. ControlOK' /\ PostOK'
    <2>1. CASE EndPost(a) /\ UNCHANGED mu
          BY <2>1, EndPostTypes
          DEF RegisterTask, ControlOK, stealVars, bootVars, NbBoot
    <2>2. CASE /\ pc' = [pc EXCEPT ![a] = "notify"]
               /\ mu' = [mu EXCEPT ![dest[a]] = a]
               /\ UNCHANGED <<running, postVars>>
          BY <2>2 DEF RegisterTask, ControlOK, PostOK, PCs, postVars,
                      stealVars, bootVars, NbBoot
    <2> QED BY <2>1, <2>2 DEF RegisterTask
  <1>7. Watcher!TypeOK'
    <2>1. Watcher!Signal(a, d) \/ UNCHANGED wakeVars
          BY DEF RegisterTask, d
    <2> QED BY <1>1, <2>1, WatcherTypes
  <1> QED BY <1>4, <1>5, <1>6, <1>7

(* A post wakes the thread it posted to. *)
LEMMA NotifyType ==
  ASSUME TypeInv, NEW a \in Actors, Notify(a)
  PROVE  TypeInv'
  <1> USE DEF TypeInv, TypeOK
  <1>1. dest[a] \in Threads
        BY DEF Notify, PostOK
  <1>2. ControlOK' /\ PostOK'
        BY EndPostTypes DEF Notify, ControlOK, stealVars, bootVars, NbBoot
  <1>3. ListsOK' /\ CountsOK'
        BY DEF Notify, ListsOK, CountsOK, listVars, countVars, flagVars,
               stealVars
  <1>4. Watcher!TypeOK'
        BY <1>1, WatcherTypes DEF Notify
  <1> QED BY <1>2, <1>3, <1>4

-----------------------------------------------------------------------------
(* The start *)

(* Main posts. *)
LEMMA BootPostType ==
  ASSUME TypeInv, BootPost
  PROVE  TypeInv'
  <1> USE DEF TypeInv, TypeOK
  <1>1. Main \in Actors /\ booted + 1 \in 1 .. NbBoot /\ booted' = booted + 1
    <2>1. booted \in Int /\ booted >= 0 /\ booted < NbBoot
          BY DEF BootPost, ControlOK
    <2>2. NbBoot \in Int
      <3>1. Len(BootProgram) \in Nat
            BY SchedulerAssumption, ElementsOf DEF SchedulerAssumption
      <3> QED BY <3>1, SchedulerAssumption DEF NbBoot, SchedulerAssumption
    <2> QED BY <2>1, <2>2, Names DEF BootPost
  <1>2. /\ pc' \in [Actors -> PCs] /\ posting' \in [Actors -> Posts]
        /\ dest' \in [Actors -> Threads \cup {Nobody}] /\ PostOK'
        BY <1>1, BeginPostTypes, BootCallbackType DEF BootPost
  <1>3. booted' \in 0 .. NbBoot
        BY <1>1
  <1>4. ControlOK'
        BY <1>2, <1>3 DEF BootPost, ControlOK, stealVars, NbBoot
  <1>5. ListsOK' /\ CountsOK'
        BY DEF BootPost, ListsOK, CountsOK, listVars, countVars, flagVars,
               stealVars
  <1>6. Watcher!TypeOK'
        BY Names, WatcherTypes DEF BootPost
  <1> QED BY <1>2, <1>4, <1>5, <1>6

(* Main starts the threads. *)
LEMMA TaskGoType ==
  ASSUME TypeInv, TaskGo
  PROVE  TypeInv'
  <1> USE DEF TypeInv, TypeOK
  <1>1. /\ pc' = [a \in Actors |-> IF a = Main THEN "join" ELSE "loop"]
        /\ acolor' = [t \in Threads |-> NoList]
        BY DEF TaskGo
  <1>2. ControlOK' /\ PostOK'
        BY <1>1 DEF TaskGo, ControlOK, PostOK, PCs, postVars, stealVars,
                    bootVars, NbBoot
  <1>3. ListsOK' /\ CountsOK'
        BY <1>1 DEF TaskGo, ListsOK, CountsOK, listVars, countVars, flagVars,
                    stealVars
  <1>4. Watcher!TypeOK'
        BY Names, WatcherTypes DEF TaskGo
  <1> QED BY <1>2, <1>3, <1>4

-----------------------------------------------------------------------------
(* The loop of a thread *)

(* A thread without work starts stealing. *)
LEMMA BeginStealType ==
  ASSUME TypeInv, NEW t \in Threads, BeginSteal(t)
  PROVE  TypeInv'
  <1> USE DEF TypeInv, TypeOK
  <1>1. t \in Actors /\ 0 \in Threads
        BY Names
  <1>2. ControlOK' /\ PostOK'
        BY <1>1 DEF BeginSteal, ControlOK, PostOK, PCs, postVars, bootVars,
                    NbBoot
  <1>3. ListsOK' /\ CountsOK'
        BY DEF BeginSteal, ListsOK, CountsOK, listVars, countVars, flagVars
  <1>4. Watcher!TypeOK'
        BY <1>1, WatcherTypes DEF BeginSteal
  <1> QED BY <1>2, <1>3, <1>4

(* The callback that a thread starts, and the lists it leaves. *)
LEMMA RunTypes ==
  ASSUME ListsOK, CountsOK, NEW t \in Threads, NEW l \in Lists,
         NbCallbacks(l) > 0, Run(t, l)
  PROVE  /\ headSeg' \in [Lists -> Seq(Tasks)]
         /\ tailSeg' \in [Lists -> Seq(Tasks)]
         /\ stealList' \in [Threads -> Seq(Colors)]
         /\ taskCount' \in [Threads -> Int]
         /\ nbExecuted' \in [Threads -> Nat]
         /\ acolor' \in [Threads -> Lists \cup {NoList}]
         /\ First(l) \in Tasks /\ running' = [running EXCEPT ![t] = First(l)]
         /\ Watcher!Signal(t, t) \/ UNCHANGED wakeVars
  <1>1. /\ headSeg[l] \in Seq(Tasks) /\ tailSeg[l] \in Seq(Tasks)
        /\ headSeg[l] # <<>> \/ tailSeg[l] # <<>>
        BY NbCallbacksType
  <1>2. /\ headSeg[l] # <<>> => /\ Tail(headSeg[l]) \in Seq(Tasks)
                                /\ Head(headSeg[l]) \in Tasks
        /\ tailSeg[l] # <<>> => /\ Tail(tailSeg[l]) \in Seq(Tasks)
                                /\ Head(tailSeg[l]) \in Tasks
        BY <1>1, HeadTailProperties
  <1>3. First(l) \in Tasks
        BY <1>1, <1>2 DEF First
  <1>4. headSeg' \in [Lists -> Seq(Tasks)] /\ tailSeg' \in [Lists -> Seq(Tasks)]
    <2>1. CASE headSeg[l] # <<>>
          BY <1>2, <2>1 DEF Run, ListsOK
    <2>2. CASE headSeg[l] = <<>>
          BY <1>1, <1>2, <2>2 DEF Run, ListsOK
    <2> QED BY <2>1, <2>2
  <1>5. stealList' \in [Threads -> Seq(Colors)]
    <2>1. stealList[t] \in Seq(Colors)
          BY DEF ListsOK
    <2>2. Unlinked(stealList[t], l) \in Seq(Colors)
          BY <2>1, UnlinkedList
    <2> QED BY <2>1, <2>2 DEF Run, ListsOK
  <1>6. taskCount' \in [Threads -> Int]
        BY DEF Run, CountsOK
  <1>7. nbExecuted' \in [Threads -> Nat]
    <2>1. Retired(t).done \in Nat
          BY RetiredList
    <2>2. nbExecuted' = [nbExecuted EXCEPT ![t] = Retired(t).done + 1]
          BY DEF Run
    <2> QED BY <2>1, <2>2 DEF CountsOK
  <1>8. acolor' \in [Threads -> Lists \cup {NoList}]
        BY DEF Run, ListsOK
  <1>9. /\ running' = [running EXCEPT ![t] = First(l)]
        /\ Watcher!Signal(t, t) \/ UNCHANGED wakeVars
        BY DEF Run
  <1> QED BY <1>3, <1>4, <1>5, <1>6, <1>7, <1>8, <1>9

(* A thread takes the next callback. *)
LEMMA NextTaskType ==
  ASSUME TypeInv, NEW t \in Threads, NextTask(t)
  PROVE  TypeInv'
  <1> USE DEF TypeInv, TypeOK
  <1> DEFINE list == Retired(t).list
             l    == Head(list)
  <1>1. /\ list \in Seq(Lists) /\ Retired(t).cur \in [Lists -> Int]
        /\ Retired(t).done \in Nat /\ Retired(t).uniq \in Int
        BY RetiredList
  <1>2. /\ colorList' = [colorList EXCEPT ![t] = list]
        /\ curPrio' = Retired(t).cur
        /\ numUnique' = [numUnique EXCEPT ![t] = Retired(t).uniq]
        /\ mu' = [mu EXCEPT ![t] = Nobody]
        /\ UNCHANGED <<queueOf, prio, flagVars, postVars, stealVars, bootVars>>
        BY DEF NextTask
  <1>3. t \in Actors
        BY Names
  <1>4. CASE list # <<>> /\ NbCallbacks(l) > 0
    <2>1. Run(t, l) /\ pc' = [pc EXCEPT ![t] = "run"]
          BY <1>4 DEF NextTask
    <2>2. l \in Lists
          BY <1>1, <1>4, HeadTailProperties
    <2> HIDE DEF list, l
    <2>3. /\ headSeg' \in [Lists -> Seq(Tasks)]
          /\ tailSeg' \in [Lists -> Seq(Tasks)]
          /\ stealList' \in [Threads -> Seq(Colors)]
          /\ taskCount' \in [Threads -> Int]
          /\ nbExecuted' \in [Threads -> Nat]
          /\ acolor' \in [Threads -> Lists \cup {NoList}]
          /\ First(l) \in Tasks /\ running' = [running EXCEPT ![t] = First(l)]
          /\ Watcher!Signal(t, t) \/ UNCHANGED wakeVars
          BY <1>4, <2>1, <2>2, RunTypes
    <2>4. ListsOK'
          BY <1>1, <1>2, <2>3 DEF ListsOK, stealVars
    <2>5. CountsOK'
          BY <1>1, <1>2, <2>3 DEF CountsOK, flagVars
    <2>6. ControlOK' /\ PostOK'
          BY <1>2, <1>3, <2>1, <2>3
          DEF ControlOK, PostOK, PCs, postVars, stealVars, bootVars, NbBoot
    <2>7. Watcher!TypeOK'
          BY <1>3, <2>3, WatcherTypes
    <2> QED BY <2>4, <2>5, <2>6, <2>7
  <1>5. CASE ~(list # <<>> /\ NbCallbacks(l) > 0)
    <2>1. /\ \E x \in {"loop", "panic"} : pc' = [pc EXCEPT ![t] = x]
          /\ nbExecuted' = [nbExecuted EXCEPT ![t] = Retired(t).done]
          /\ UNCHANGED <<headSeg, tailSeg, stealList, taskCount, acolor,
                         running, wakeVars>>
          BY <1>5 DEF NextTask
    <2> HIDE DEF list, l
    <2>2. ListsOK'
          BY <1>1, <1>2, <2>1 DEF ListsOK, stealVars
    <2>3. CountsOK'
          BY <1>1, <1>2, <2>1 DEF CountsOK, flagVars
    <2>4. ControlOK' /\ PostOK'
          BY <1>2, <1>3, <2>1
          DEF ControlOK, PostOK, PCs, postVars, stealVars, bootVars, NbBoot
    <2>5. Watcher!TypeOK'
          BY <1>3, <2>1, WatcherTypes
    <2> QED BY <2>2, <2>3, <2>4, <2>5
  <1> QED BY <1>4, <1>5

(* A callback returns. *)
LEMMA EndCallbackType ==
  ASSUME TypeInv, NEW t \in Threads, EndCallback(t)
  PROVE  TypeInv'
  <1> USE DEF TypeInv, TypeOK
  <1>1. t \in Actors
        BY Names
  <1>2. ControlOK' /\ PostOK'
        BY <1>1 DEF EndCallback, ControlOK, PostOK, PCs, postVars, stealVars,
                    bootVars, NbBoot
  <1>3. ListsOK' /\ CountsOK'
        BY DEF EndCallback, ListsOK, CountsOK, listVars, countVars, flagVars,
               stealVars
  <1>4. Watcher!TypeOK'
        BY <1>1, WatcherTypes DEF EndCallback
  <1> QED BY <1>2, <1>3, <1>4

-----------------------------------------------------------------------------
(* steal_work *)

(* A thief goes on to its next victim, or gives up. *)
LEMMA AdvanceTypes ==
  ASSUME ControlOK, PostOK, NEW t \in Threads, Advance(t),
         UNCHANGED <<postVars>>
  PROVE  /\ pc' \in [Actors -> PCs] /\ victim' \in [Threads -> Threads]
         /\ PostOK'
  <1>1. t \in Actors /\ 0 \in Threads
        BY Names
  <1>2. CASE victim[t] + 1 = NThreads
        BY <1>1, <1>2 DEF Advance, ControlOK, PostOK, PCs, postVars
  <1>3. CASE victim[t] + 1 # NThreads
    <2>1. victim[t] \in Threads
          BY DEF ControlOK
    <2>2. victim[t] + 1 \in Threads
          BY <1>3, <2>1, SchedulerAssumption DEF Threads, SchedulerAssumption
    <2> QED BY <1>1, <1>3, <2>2 DEF Advance, ControlOK, PostOK, PCs, postVars
  <1> QED BY <1>2, <1>3

(* A thief looks at a victim without its lock. *)
LEMMA CheckVictimType ==
  ASSUME TypeInv, NEW t \in Threads, CheckVictim(t)
  PROVE  TypeInv'
  <1> USE DEF TypeInv, TypeOK
  <1>1. t \in Actors
        BY Names
  <1>2. /\ pc' \in [Actors -> PCs] /\ victim' \in [Threads -> Threads]
        /\ PostOK'
    <2>1. CASE Advance(t)
          BY <2>1, AdvanceTypes DEF CheckVictim
    <2>2. CASE ~Advance(t)
          BY <1>1, <2>2 DEF CheckVictim, ControlOK, PostOK, PCs, postVars
    <2> QED BY <2>1, <2>2
  <1>3. ControlOK'
        BY <1>2 DEF CheckVictim, ControlOK, postVars, bootVars, NbBoot
  <1>4. ListsOK' /\ CountsOK'
        BY DEF CheckVictim, ListsOK, CountsOK, listVars, countVars, flagVars
  <1>5. Watcher!TypeOK'
        BY <1>1, WatcherTypes DEF CheckVictim
  <1> QED BY <1>2, <1>3, <1>4, <1>5

(* A thief locks its victim. *)
LEMMA LockVictimType ==
  ASSUME TypeInv, NEW t \in Threads, LockVictim(t)
  PROVE  TypeInv'
  <1> USE DEF TypeInv, TypeOK
  <1>1. t \in Actors /\ victim[t] \in Threads
        BY Names DEF ControlOK
  <1>2. ControlOK' /\ PostOK' /\ hasBeenStolen' \in [Threads -> BOOLEAN]
    <2>1. CASE IsStealable(victim[t])
          BY <1>1, <2>1 DEF LockVictim, ControlOK, PostOK, PCs, postVars,
                            bootVars, CountsOK, NbBoot
    <2>2. CASE ~IsStealable(victim[t])
      <3>1. Advance(t) /\ UNCHANGED <<mu, hasBeenStolen, postVars>>
            BY <2>2 DEF LockVictim
      <3>2. /\ pc' \in [Actors -> PCs] /\ victim' \in [Threads -> Threads]
            /\ PostOK'
            BY <3>1, AdvanceTypes
      <3> QED BY <3>1, <3>2 DEF LockVictim, ControlOK, postVars, bootVars,
                                CountsOK, NbBoot
    <2> QED BY <2>1, <2>2
  <1>3. ListsOK' /\ CountsOK'
        BY <1>2 DEF LockVictim, ListsOK, CountsOK, listVars, countVars
  <1>4. Watcher!TypeOK'
        BY <1>1, WatcherTypes DEF LockVictim
  <1> QED BY <1>2, <1>3, <1>4

(* The list a thief takes is one of the steal list of its victim. *)
LEMMA StolenList ==
  ASSUME ListsOK, NEW v \in Threads, Stealable(v) # {}
  PROVE  LET l == stealList[v][Min(Stealable(v))] IN
         /\ l \in ToSet(stealList[v]) /\ l \in Colors /\ l \in Lists
         /\ l # acolor[v]
  <1>1. stealList[v] \in Seq(Colors) /\ Len(stealList[v]) \in Nat
        BY ElementsOf DEF ListsOK
  <1>2. Stealable(v) \subseteq 1 .. Len(stealList[v])
        BY DEF Stealable
  <1>3. Min(Stealable(v)) \in Stealable(v)
        BY <1>1, <1>2, MinOfBounded
  <1>4. \A i \in Stealable(v) : /\ i \in 1 .. Len(stealList[v])
                                /\ stealList[v][i] # acolor[v]
        BY DEF Stealable
  <1>5. \A i \in 1 .. Len(stealList[v]) :
          stealList[v][i] \in ToSet(stealList[v]) /\ stealList[v][i] \in Colors
        BY <1>1, ElementsOf, ElementOfSeq
  <1> QED BY <1>3, <1>4, <1>5, Names

(* A thief takes a color. *)
LEMMA StealColorType ==
  ASSUME TypeInv, NEW t \in Threads, StealColor(t)
  PROVE  TypeInv'
  <1> USE DEF TypeInv, TypeOK
  <1> DEFINE v == victim[t]
             l == stealList[v][Min(Stealable(v))]
  <1>1. t \in Actors /\ v \in Threads
        BY Names DEF ControlOK
  <1>2. /\ UNCHANGED <<acolor, headSeg, tailSeg, prio, curPrio, nbExecuted,
                       flagVars, mu, running, postVars, victim, bootVars,
                       wakeVars>>
        BY DEF StealColor
  <1>3. l \in Colors /\ l \in Lists
    <2>1. Stealable(v) # {}
          BY DEF StealColor
    <2> QED BY <1>1, <2>1, StolenList
  <1>4. CASE NbCallbacks(l) > 0
    <2>1. /\ queueOf' = [queueOf EXCEPT ![l] = Nobody]
          /\ colorList' = [colorList EXCEPT ![v] = Unlinked(@, l)]
          /\ stealList' = [stealList EXCEPT ![v] = Unlinked(@, l)]
          /\ loot' = [loot EXCEPT ![t] = Append(@, l)]
          /\ numUnique' = [numUnique EXCEPT ![v] = @ - 1]
          /\ taskCount' = [taskCount EXCEPT ![v] = @ - NbCallbacks(l)]
          /\ UNCHANGED pc
          BY <1>4 DEF StealColor
    <2> HIDE DEF v, l
    <2>2. Unlinked(colorList[v], l) \in Seq(Lists)
      <3>1. colorList[v] \in Seq(Lists)
            BY <1>1 DEF ListsOK
      <3> QED BY <3>1, UnlinkedList
    <2>3. Unlinked(stealList[v], l) \in Seq(Colors)
      <3>1. stealList[v] \in Seq(Colors)
            BY <1>1 DEF ListsOK
      <3> QED BY <3>1, UnlinkedList
    <2>4. Append(loot[t], l) \in Seq(Colors)
      <3>1. loot[t] \in Seq(Colors)
            BY DEF ListsOK
      <3> QED BY <1>3, <3>1, AppendProperties
    <2>5. NbCallbacks(l) \in Int
      <3>1. NbCallbacks(l) \in Nat
            BY <1>3, NbCallbacksType
      <3> QED BY <3>1
    <2>6. ListsOK'
          BY <1>2, <2>1, <2>2, <2>3, <2>4 DEF ListsOK
    <2>7. CountsOK'
      <3>1. taskCount' \in [Threads -> Int]
            BY <1>1, <2>1, <2>5 DEF CountsOK
      <3>2. numUnique' \in [Threads -> Int]
            BY <1>1, <2>1 DEF CountsOK
      <3> QED BY <1>2, <3>1, <3>2 DEF CountsOK, flagVars
    <2>8. ControlOK' /\ PostOK'
          BY <1>2, <2>1 DEF ControlOK, PostOK, postVars, bootVars, NbBoot
    <2>9. Watcher!TypeOK'
          BY <1>1, <1>2, WatcherTypes
    <2> QED BY <2>6, <2>7, <2>8, <2>9
  <1>5. CASE ~(NbCallbacks(l) > 0)
    <2>1. /\ pc' = [pc EXCEPT ![t] = "panic"]
          /\ UNCHANGED <<queueOf, colorList, stealList, loot, numUnique,
                         taskCount>>
          BY <1>5 DEF StealColor
    <2> HIDE DEF v, l
    <2>2. ListsOK' /\ CountsOK'
          BY <1>2, <2>1 DEF ListsOK, CountsOK, flagVars
    <2>3. ControlOK' /\ PostOK'
          BY <1>1, <1>2, <2>1
          DEF ControlOK, PostOK, PCs, postVars, bootVars, NbBoot
    <2>4. Watcher!TypeOK'
          BY <1>1, <1>2, WatcherTypes
    <2> QED BY <2>2, <2>3, <2>4
  <1> QED BY <1>4, <1>5

(* A thief unlocks its victim. *)
LEMMA LeaveVictimType ==
  ASSUME TypeInv, NEW t \in Threads, LeaveVictim(t)
  PROVE  TypeInv'
  <1> USE DEF TypeInv, TypeOK
  <1>1. t \in Actors /\ 0 \in Threads
        BY Names
  <1>2. \E x \in {"panic", "relock"} : pc' = [pc EXCEPT ![t] = x]
        BY DEF LeaveVictim
  <1>3. ControlOK' /\ PostOK'
        BY <1>1, <1>2 DEF LeaveVictim, ControlOK, PostOK, PCs, postVars,
                          bootVars, NbBoot
  <1>4. ListsOK' /\ CountsOK'
        BY DEF LeaveVictim, ListsOK, CountsOK, listVars, countVars, flagVars
  <1>5. Watcher!TypeOK'
        BY <1>1, WatcherTypes DEF LeaveVictim
  <1> QED BY <1>3, <1>4, <1>5

(* A thief locks its own queue again. *)
LEMMA RelockType ==
  ASSUME TypeInv, NEW t \in Threads, Relock(t)
  PROVE  TypeInv'
  <1> USE DEF TypeInv, TypeOK
  <1>1. t \in Actors
        BY Names
  <1>2. ControlOK' /\ PostOK'
        BY <1>1 DEF Relock, ControlOK, PostOK, PCs, postVars, stealVars,
                    bootVars, NbBoot
  <1>3. ListsOK' /\ CountsOK'
        BY DEF Relock, ListsOK, CountsOK, listVars, countVars, flagVars,
               stealVars
  <1>4. Watcher!TypeOK'
        BY <1>1, WatcherTypes DEF Relock
  <1> QED BY <1>2, <1>3, <1>4

(* A thief inserts a stolen color. *)
LEMMA InsertStolenType ==
  ASSUME TypeInv, NEW t \in Threads, InsertStolen(t)
  PROVE  TypeInv'
  <1> USE DEF TypeInv, TypeOK
  <1> DEFINE l == Head(loot[t])
             s == Slot(colorList[t], prio[l], 0, acolor[t] = NoList)
  <1>1. /\ loot' = [loot EXCEPT ![t] = Tail(@)]
        /\ numUnique' = [numUnique EXCEPT ![t] = @ + 1]
        /\ taskCount' = [taskCount EXCEPT ![t] = @ + NbCallbacks(l)]
        /\ colorList' = [colorList EXCEPT ![t] = Linked(@, s, l)]
        /\ curPrio' = Aged(colorList[t], s, l, prio[l], 0)
        /\ stealList' = [stealList EXCEPT ![t] = StealLinked(@, l)]
        /\ queueOf' = [queueOf EXCEPT ![l] = t]
        /\ UNCHANGED <<acolor, headSeg, tailSeg, prio, nbExecuted, flagVars,
                       mu, pc, running, postVars, victim, bootVars, wakeVars>>
        BY DEF InsertStolen
  <1>2. loot[t] \in Seq(Colors) /\ loot[t] # <<>>
        BY DEF ListsOK, InsertStolen
  <1>3. l \in Colors /\ l \in Lists /\ Tail(loot[t]) \in Seq(Colors)
        BY <1>2, HeadTailProperties, Names
  <1> HIDE DEF l
  <1>4. colorList[t] \in Seq(Lists) /\ stealList[t] \in Seq(Colors)
        BY DEF ListsOK
  <1>5. s \in 0 .. Len(colorList[t])
        BY <1>4, SlotRange
  <1> HIDE DEF s
  <1>6. Linked(colorList[t], s, l) \in Seq(Lists)
        BY <1>3, <1>4, <1>5, LinkedList
  <1>7. StealLinked(stealList[t], l) \in Seq(Colors)
        BY <1>3, <1>4, StealLinkedList
  <1>8. Aged(colorList[t], s, l, prio[l], 0) \in [Lists -> Int]
    <2>1. curPrio \in [Lists -> Int] /\ prio[l] \in Int /\ 0 \in Int
          BY <1>3 DEF CountsOK
    <2> QED BY <2>1, AgedType
  <1>9. NbCallbacks(l) \in Int
    <2>1. NbCallbacks(l) \in Nat
          BY <1>3, NbCallbacksType
    <2> QED BY <2>1
  <1>10. ListsOK'
        BY <1>1, <1>3, <1>6, <1>7 DEF ListsOK
  <1>11. CountsOK'
        BY <1>1, <1>8, <1>9 DEF CountsOK, flagVars
  <1>12. ControlOK' /\ PostOK'
        BY <1>1 DEF ControlOK, PostOK, postVars, bootVars, NbBoot
  <1>13. Watcher!TypeOK'
        BY <1>1, Names, WatcherTypes
  <1> QED BY <1>10, <1>11, <1>12, <1>13

-----------------------------------------------------------------------------
(* ainit and acheck_task *)

(* A step of the polling callback, or an event that it waits for. *)
LEMMA PollType ==
  ASSUME TypeInv, NEW t \in Threads, Poll(t) \/ Event(t)
  PROVE  TypeInv'
  <1> USE DEF TypeInv, TypeOK
  <1>1. ControlOK' /\ PostOK'
        BY DEF Poll, Event, ControlOK, PostOK, postVars, stealVars, bootVars,
               NbBoot
  <1>2. ListsOK' /\ CountsOK'
        BY DEF Poll, Event, ListsOK, CountsOK, listVars, countVars, flagVars,
               stealVars
  <1>3. Watcher!TypeOK'
        BY Names, WatcherTypes DEF Poll, Event
  <1> QED BY <1>1, <1>2, <1>3

(* The polling callback posts itself again. *)
LEMMA RepostType ==
  ASSUME TypeInv, NEW t \in Threads, Repost(t)
  PROVE  TypeInv'
  <1> USE DEF TypeInv, TypeOK
  <1> DEFINE p == [cb |-> "acheck", color |-> NegList(t), last |-> TRUE,
                   prio |-> IF gotany[t] THEN 0 ELSE IdlePrio]
  <1>1. t \in Actors
        BY Names
  <1>2. p \in Posts /\ p.cb \in Tasks /\ p.color >= -NThreads
    <2>1. NegList(t) \in Int /\ NegList(t) >= -NThreads
          BY SchedulerAssumption DEF NegList, Threads, SchedulerAssumption
    <2>2. (IF gotany[t] THEN 0 ELSE IdlePrio) \in Int
          BY SchedulerAssumption DEF SchedulerAssumption
    <2> QED BY <2>1, <2>2 DEF Posts, Tasks, Specials
  <1>3. BeginPost(t, p)
        BY DEF Repost
  <1> HIDE DEF p
  <1>4. /\ pc' \in [Actors -> PCs] /\ posting' \in [Actors -> Posts]
        /\ dest' \in [Actors -> Threads \cup {Nobody}] /\ PostOK'
        BY <1>1, <1>2, <1>3, BeginPostTypes
  <1>5. ControlOK'
        BY <1>4 DEF Repost, ControlOK, stealVars, bootVars, NbBoot
  <1>6. ListsOK' /\ CountsOK'
        BY DEF Repost, ListsOK, CountsOK, listVars, countVars, flagVars,
               stealVars
  <1>7. Watcher!TypeOK'
        BY <1>1, WatcherTypes DEF Repost
  <1> QED BY <1>4, <1>5, <1>6, <1>7

-----------------------------------------------------------------------------
(* Every step keeps the types. *)
LEMMA TypeInvStep == TypeInv /\ [Next]_vars => TypeInv'
  <1> SUFFICES ASSUME TypeInv, [Next]_vars PROVE TypeInv'
      OBVIOUS
  <1>1. CASE UNCHANGED vars
    <2>1. ListsOK' /\ CountsOK' /\ ControlOK' /\ PostOK'
          BY <1>1 DEF vars, TypeInv, TypeOK, ListsOK, CountsOK, ControlOK,
                      PostOK, listVars, countVars, flagVars, postVars,
                      stealVars, bootVars, NbBoot
    <2>2. Watcher!TypeOK'
          BY <1>1 DEF vars, wakeVars, TypeInv, TypeOK, Watcher!TypeOK
    <2> QED BY <2>1, <2>2 DEF TypeInv, TypeOK
  <1>2. ASSUME NEW a \in Actors, PostSteps(a) PROVE TypeInv'
        BY <1>2, ReadOwnerType, RetryPostType, RegisterTaskType, NotifyType
        DEF PostSteps
  <1>3. ASSUME NEW t \in Threads, NEW c \in Callbacks, Post(t, c)
        PROVE  TypeInv'
        BY <1>3, PostType
  <1>4. ASSUME NEW t \in Threads, LoopSteps(t) PROVE TypeInv'
        BY <1>4, BeginStealType, NextTaskType, EndCallbackType DEF LoopSteps
  <1>5. ASSUME NEW t \in Threads, StealSteps(t) PROVE TypeInv'
        BY <1>5, CheckVictimType, LockVictimType, StealColorType,
           LeaveVictimType, RelockType, InsertStolenType DEF StealSteps
  <1>6. ASSUME NEW t \in Threads, PollSteps(t) \/ Event(t) PROVE TypeInv'
        BY <1>6, PollType, RepostType DEF PollSteps
  <1>7. CASE BootPost \/ TaskGo
        BY <1>7, BootPostType, TaskGoType
  <1> QED BY <1>1, <1>2, <1>3, <1>4, <1>5, <1>6, <1>7 DEF Next

(* The inductive form of type correctness. *)
LEMMA TypeInvariant == Spec => []TypeInv
  BY TypeInvInit, TypeInvStep, PTL DEF Spec

(* All the state of the scheduler keeps its types: register_task always    *)
(* has a thread to lock, the lists hold lists and callbacks, a thief always*)
(* has a victim that exists.                                               *)
THEOREM TypeCorrect == Spec => []TypeOK
  BY TypeInvariant, PTL DEF TypeInv

-------------------------------------------------------------------------------

(* No list is twice in a chain. *)
NoDuplicates ==
  \A t \in Threads : /\ IsInjective(colorList[t])
                     /\ IsInjective(stealList[t])
                     /\ IsInjective(loot[t])

(* A thread chains lists of its own only, all those that hold callbacks,   *)
(* and no other but the one it runs.                                       *)
AtHome == \A t \in Threads : \A l \in ToSet(colorList[t]) : HomeOf(l, t)

Chained ==
  \A t \in Threads : \A l \in Lists :
    HomeOf(l, t) /\ NbCallbacks(l) > 0 => l \in ToSet(colorList[t])

Useful ==
  \A t \in Threads : \A l \in ToSet(colorList[t]) :
    NbCallbacks(l) > 0 \/ acolor[t] = l

(* The list a thread runs stays chained at this thread. *)
Current ==
  \A t \in Threads :
    /\ acolor[t] # NoList => acolor[t] \in ToSet(colorList[t])
    /\ Executing(t) => acolor[t] # NoList

(* What may be stolen is what is chained and holds callbacks. *)
StealIn ==
  \A t \in Threads : \A l \in ToSet(stealList[t]) :
    l \in ToSet(colorList[t]) /\ NbCallbacks(l) > 0

StealAll ==
  Stealing =>
    \A t \in Threads : \A l \in ToSet(colorList[t]) :
      l >= 0 /\ NbCallbacks(l) > 0 => l \in ToSet(stealList[t])

(* Lists without an owner are in the chain of one thief, with callbacks.   *)
Looted ==
  /\ \A l \in Colors :
       queueOf[l] = Nobody <=> \E t \in Threads : l \in ToSet(loot[t])
  /\ \A t, u \in Threads : \A l \in ToSet(loot[t]) :
       l \in ToSet(loot[u]) => t = u
  /\ \A t \in Threads : \A l \in ToSet(loot[t]) : NbCallbacks(l) > 0

(* Where register_task is going: to the thread of the color.  A polling    *)
(* task goes to its own thread, and wakes nobody.                          *)
GoesHome(a) ==
  /\ pc[a] = "read" => Stealing /\ posting[a].color >= 0
  /\ pc[a] \in {"post", "notify"} /\ posting[a].color < 0 =>
       posting[a].color = NegList(dest[a])
  /\ pc[a] \in {"post", "notify"} /\ posting[a].color >= 0 /\ ~Stealing =>
       /\ posting[a].color < MaxColors
       /\ dest[a] = posting[a].color % NThreads
  /\ pc[a] \in {"read", "post", "notify"} /\ posting[a].cb = "acheck" =>
       /\ pc[a] = "post"
       /\ posting[a].last /\ posting[a].color < 0
       /\ a # Main => posting[a].color = NegList(a)

Posting == \A a \in Actors : GoesHome(a)

NotStealing ==
  ~Stealing =>
    /\ \A c \in Colors : queueOf[c] = c % NThreads
    /\ \A t \in Threads : pc[t] \notin {"victim", "lockvictim", "stealing",
                                        "relock", "insert"}

(* A thread that runs something else than its polling task has it queued:  *)
(* it never runs out of lists.                                             *)
InLoop(t) == pc[t] \in {"loop", "victim", "lockvictim", "stealing", "relock",
                        "insert"}
PollingQueued(t) == "acheck" \in ToSet(tailSeg[NegList(t)])

Polling ==
  \A t \in Threads :
    InLoop(t) \/ (Executing(t) /\ running[t] # "acheck") => PollingQueued(t)

(* Before task_go nothing runs, and amain posts the polling tasks. *)
Starting ==
  pc[Main] # "join" =>
    \A t \in Threads :
      /\ pc[t] = "off" /\ acolor[t] = NoList
      /\ booted >= Len(BootProgram) + 2 * (t + 1) =>
           \/ PollingQueued(t)
           \/ /\ pc[Main] = "post" /\ posting[Main].cb = "acheck"
              /\ posting[Main].color = NegList(t)

ListInv ==
  /\ NoDuplicates /\ AtHome /\ Chained /\ Useful /\ Current
  /\ StealIn /\ StealAll /\ Looted

FlowInv == Posting /\ NotStealing /\ Polling /\ Starting

SafeInv == TypeInv /\ ListInv /\ FlowInv

-----------------------------------------------------------------------------
(* Consequences of the invariant *)

(* A list has one home. *)
LEMMA HomeIsOne ==
  ASSUME NEW l \in Lists, NEW t \in Threads, NEW u \in Threads,
         HomeOf(l, t), HomeOf(l, u)
  PROVE  t = u
  BY Names DEF HomeOf

(* The properties follow from the invariant: a color that runs is the one  *)
(* its owner executes.                                                     *)
LEMMA ExclusionFromSafe == SafeInv => ColorExclusion
  <1> SUFFICES ASSUME SafeInv,
                      NEW t \in Threads, NEW u \in Threads, t # u,
                      Executing(t), Executing(u), acolor[t] = acolor[u]
               PROVE  FALSE
      BY DEF ColorExclusion
  <1> USE DEF SafeInv, ListInv
  <1>1. acolor[t] # NoList
        BY DEF Current
  <1>2. acolor[t] \in ToSet(colorList[t]) /\ acolor[t] \in ToSet(colorList[u])
        BY <1>1 DEF Current
  <1>3. HomeOf(acolor[t], t) /\ HomeOf(acolor[t], u)
        BY <1>2 DEF AtHome
  <1>4. acolor[t] \in Lists
        BY <1>1 DEF TypeInv, TypeOK, ListsOK
  <1> QED BY <1>3, <1>4, HomeIsOne

(* A list is at its home.                                                  *)
LEMMA HomeFromSafe == SafeInv => OneHome
  <1> SUFFICES ASSUME SafeInv PROVE OneHome
      OBVIOUS
  <1> USE DEF SafeInv, ListInv
  <1>1. \A t, u \in Threads : t # u => ToSet(loot[t]) \cap ToSet(loot[u]) = {}
        BY DEF Looted
  <1> QED BY <1>1 DEF OneHome, NoDuplicates, AtHome, Looted

(* A list with callbacks is chained or carried.                            *)
LEMMA StrandedFromSafe == SafeInv => NoStrandedTask
  <1> SUFFICES ASSUME SafeInv, NEW l \in Lists, NbCallbacks(l) > 0
               PROVE  \E t \in Threads : \/ Contains(colorList[t], l)
                                         \/ Contains(loot[t], l)
      BY DEF NoStrandedTask
  <1> USE DEF SafeInv, ListInv
  <1>1. \A t \in Threads :
          /\ Contains(colorList[t], l) <=> l \in ToSet(colorList[t])
          /\ Contains(loot[t], l) <=> l \in ToSet(loot[t])
    <2> TAKE t \in Threads
    <2>1. colorList[t] \in Seq(Lists) /\ loot[t] \in Seq(Colors)
          BY DEF TypeInv, TypeOK, ListsOK
    <2> QED BY <2>1, ElementsOf
  <1>2. CASE l < 0
    <2>1. -l - 1 \in Threads /\ l = NegList(-l - 1)
          BY <1>2, SchedulerAssumption
          DEF Lists, Threads, NegList, SchedulerAssumption
    <2>2. HomeOf(l, -l - 1)
          BY <1>2, <2>1 DEF HomeOf
    <2> QED BY <1>1, <2>1, <2>2 DEF Chained
  <1>3. CASE ~(l < 0)
    <2>1. l \in Colors
          BY <1>3, Names
    <2>2. CASE queueOf[l] = Nobody
          BY <1>1, <2>1, <2>2 DEF Looted
    <2>3. CASE queueOf[l] # Nobody
      <3>1. queueOf[l] \in Threads
            BY <2>1, <2>3 DEF TypeInv, TypeOK, ListsOK
      <3>2. HomeOf(l, queueOf[l])
            BY <1>3 DEF HomeOf
      <3> QED BY <1>1, <3>1, <3>2 DEF Chained
    <2> QED BY <2>2, <2>3
  <1> QED BY <1>2, <1>3

(* The steal list holds the colors with callbacks.                         *)
LEMMA StealListFromSafe == SafeInv => StealListExact
  <1> SUFFICES ASSUME SafeInv, Stealing, NEW t \in Threads
               PROVE  /\ IsInjective(stealList[t])
                      /\ ToSet(stealList[t]) =
                           {l \in ToSet(colorList[t]) :
                              l >= 0 /\ NbCallbacks(l) > 0}
      BY DEF StealListExact
  <1> USE DEF SafeInv, ListInv
  <1>1. stealList[t] \in Seq(Colors)
        BY DEF TypeInv, TypeOK, ListsOK
  <1>2. ToSet(stealList[t]) \subseteq Colors
        BY <1>1, ElementsOf
  <1>3. \A l \in Colors : l >= 0
        BY SchedulerAssumption DEF Colors, SchedulerAssumption
  <1> QED BY <1>2, <1>3 DEF NoDuplicates, StealIn, StealAll

-----------------------------------------------------------------------------
(* The initial state *)

(* The initial state satisfies the invariant. *)
LEMMA SafeInit == Init => SafeInv
  <1> SUFFICES ASSUME Init PROVE SafeInv
      OBVIOUS
  <1>1. TypeInv
        BY TypeInvInit
  <1>2. \A l \in Lists : NbCallbacks(l) = 0
    <2> TAKE l \in Lists
    <2>1. headSeg[l] = <<>> /\ tailSeg[l] = <<>>
          BY DEF Init
    <2> QED BY <2>1, EmptyList DEF NbCallbacks
  <1>3. \A t \in Threads : /\ colorList[t] = <<>> /\ stealList[t] = <<>>
                           /\ loot[t] = <<>> /\ acolor[t] = NoList
                           /\ pc[t] = "off" /\ pc[Main] = "run"
        BY Names DEF Init
  <1>4. ListInv
    <2>1. NoDuplicates /\ AtHome /\ Useful /\ StealIn /\ StealAll
          BY <1>3, EmptyList
          DEF NoDuplicates, AtHome, Useful, StealIn, StealAll
    <2>2. Chained
          BY <1>2 DEF Chained
    <2>3. Current
          BY <1>3 DEF Current, Executing
    <2>4. \A l \in Colors : queueOf[l] # Nobody
      <3> TAKE l \in Colors
      <3>1. queueOf[l] = l % NThreads
            BY DEF Init
      <3>2. l % NThreads \in 0 .. NThreads - 1
            BY ModRange, SchedulerAssumption DEF Colors, SchedulerAssumption
      <3> QED BY <3>1, <3>2 DEF Nobody
    <2>5. Looted
          BY <1>3, <2>4, EmptyList DEF Looted
    <2> QED BY <2>1, <2>2, <2>3, <2>5 DEF ListInv
  <1>5. FlowInv
    <2>1. \A a \in Actors : pc[a] \in {"run", "off"}
          BY DEF Init
    <2>2. Posting
          BY <2>1 DEF Posting, GoesHome
    <2>3. NotStealing
          BY <1>3 DEF NotStealing, Init
    <2>4. Polling
          BY <1>3 DEF Polling, InLoop, Executing
    <2>5. Starting
      <3>1. \A t \in Threads : ~(booted >= Len(BootProgram) + 2 * (t + 1))
        <4>1. Len(BootProgram) \in Nat /\ booted = 0
              BY SchedulerAssumption, ElementsOf DEF SchedulerAssumption, Init
        <4> QED BY <4>1 DEF Threads
      <3> QED BY <1>3, <3>1 DEF Starting
    <2> QED BY <2>2, <2>3, <2>4, <2>5 DEF FlowInv
  <1> QED BY <1>1, <1>4, <1>5 DEF SafeInv

-----------------------------------------------------------------------------
(* Steps that leave the lists alone *)

(* A step that moves no list and starts no callback keeps the invariant of *)
(* the lists.                                                              *)
LEMMA ListsKept ==
  ASSUME ListInv,
         UNCHANGED <<queueOf, acolor, colorList, stealList, headSeg, tailSeg,
                     loot>>,
         \A t \in Threads : Executing(t)' => Executing(t)
  PROVE  ListInv'
  <1>1. \A l : NbCallbacks(l)' = NbCallbacks(l)
        BY DEF NbCallbacks
  <1>2. \A l, t : HomeOf(l, t)' <=> HomeOf(l, t)
        BY DEF HomeOf
  <1> USE DEF ListInv
  <1>3. NoDuplicates' /\ AtHome' /\ Current'
        BY <1>2 DEF NoDuplicates, AtHome, Current
  <1>4. Chained' /\ Useful'
        BY <1>1, <1>2 DEF Chained, Useful
  <1>5. StealIn' /\ StealAll' /\ Looted'
        BY <1>1 DEF StealIn, StealAll, Looted
  <1> QED BY <1>3, <1>4, <1>5

(* The threads run: main has started them. *)
LEMMA Joined ==
  ASSUME FlowInv, NEW t \in Threads, pc[t] # "off"
  PROVE  pc[Main] = "join"
  BY DEF FlowInv, Starting

(* A step of a thread outside of register_task. *)
LEMMA ThreadFlow ==
  ASSUME TypeInv, FlowInv, NEW t \in Threads, pc[t] # "off",
         UNCHANGED <<posting, dest, tailSeg>>,
         queueOf' = queueOf \/ Stealing,
         \A u \in Actors : u # t => pc'[u] = pc[u],
         \A u \in Threads : u # t => running'[u] = running[u],
         pc'[t] \notin {"read", "post", "notify"},
         pc'[t] \in {"victim", "lockvictim", "stealing", "relock", "insert"}
           => Stealing,
         pc'[t] = "run" => pc[t] = "run" /\ running'[t] = running[t],
         InLoop(t)' => InLoop(t) \/ (Executing(t) /\ running[t] # "acheck")
  PROVE  FlowInv'
  <1>1. pc[Main] = "join" /\ t # Main /\ Main \in Actors
        BY Joined, Names
  <1>2. Starting'
        BY <1>1 DEF Starting
  <1>3. Posting'
        BY DEF FlowInv, Posting, GoesHome
  <1>4. NotStealing'
        BY Names DEF FlowInv, NotStealing
  <1>5. Polling'
    <2> SUFFICES ASSUME NEW u \in Threads,
                        \/ InLoop(u)'
                        \/ Executing(u)' /\ running'[u] # "acheck"
                 PROVE  PollingQueued(u)'
        BY DEF Polling
    <2>1. PollingQueued(u)' <=> PollingQueued(u)
          BY DEF PollingQueued
    <2>2. CASE u = t
          BY <2>1, <2>2 DEF FlowInv, Polling, Executing, InLoop
    <2>3. CASE u # t
      <3>1. pc'[u] = pc[u] /\ running'[u] = running[u]
            BY <2>3, Names
      <3> QED BY <2>1, <3>1 DEF FlowInv, Polling, Executing, InLoop
    <2> QED BY <2>2, <2>3
  <1> QED BY <1>2, <1>3, <1>4, <1>5 DEF FlowInv

(* A worker with nothing to do starts to steal.                            *)
LEMMA BeginStealSafe ==
  ASSUME SafeInv, NEW t \in Threads, BeginSteal(t)
  PROVE  ListInv' /\ FlowInv'
  <1> USE DEF SafeInv
  <1>1. t \in Actors /\ pc[t] = "loop" /\ Stealing
        /\ pc' = [pc EXCEPT ![t] = "victim"]
        BY Names DEF BeginSteal, Idle
  <1>2. pc'[t] = "victim" /\ \A u \in Actors : u # t => pc'[u] = pc[u]
        BY <1>1 DEF TypeInv, TypeOK, ControlOK
  <1>3. ListInv'
        BY <1>2, ListsKept, Names DEF BeginSteal, listVars, Executing
  <1>4. FlowInv'
        BY <1>1, <1>2, ThreadFlow DEF BeginSteal, listVars, postVars, InLoop
  <1> QED BY <1>3, <1>4

(* A callback returns: nothing runs any more at t.                         *)
LEMMA EndCallbackSafe ==
  ASSUME SafeInv, NEW t \in Threads, EndCallback(t)
  PROVE  ListInv' /\ FlowInv'
  <1> USE DEF SafeInv
  <1>1. /\ t \in Actors /\ pc[t] = "run"
        /\ pc' = [pc EXCEPT ![t] = "loop"]
        /\ running' = [running EXCEPT ![t] = "none"]
        BY Names DEF EndCallback
  <1>2. running[t] # "acheck"
        BY SchedulerAssumption DEF EndCallback, SchedulerAssumption
  <1>3. /\ pc'[t] = "loop" /\ \A u \in Actors : u # t => pc'[u] = pc[u]
        /\ \A u \in Threads : u # t => running'[u] = running[u]
        BY <1>1 DEF TypeInv, TypeOK, ControlOK
  <1>4. ListInv'
        BY <1>3, ListsKept, Names
        DEF EndCallback, listVars, stealVars, Executing
  <1>5. FlowInv'
        BY <1>1, <1>2, <1>3, ThreadFlow
        DEF EndCallback, listVars, postVars, Executing
  <1> QED BY <1>4, <1>5

(* The steps of steal_work that take no list. *)
LEMMA AdvanceStep ==
  ASSUME TypeInv, NEW t \in Threads, Advance(t)
  PROVE  /\ pc'[t] \in {"relock", "victim"}
         /\ \A u \in Actors : u # t => pc'[u] = pc[u]
  BY Names DEF Advance, TypeInv, TypeOK, ControlOK

(* Where these steps of its loop leave a thread.                           *)
LEMMA LoopControl ==
  ASSUME TypeInv, NEW t \in Threads,
         BeginSteal(t) \/ EndCallback(t) \/ StealSteps(t)
  PROVE  /\ pc'[t] \notin {"run", "read", "post", "notify"}
         /\ \A b \in Actors : b # t => pc'[b] = pc[b]
  <1> USE DEF TypeInv, TypeOK, ControlOK
  <1>1. CASE BeginSteal(t) \/ EndCallback(t)
        BY <1>1, Names DEF BeginSteal, EndCallback
  <1>2. CASE Advance(t)
        BY <1>2, AdvanceStep
  <1>3. CASE (CheckVictim(t) \/ LockVictim(t)) /\ ~Advance(t)
        BY <1>3, Names DEF CheckVictim, LockVictim
  <1>4. CASE StealColor(t) \/ LeaveVictim(t)
        BY <1>4, Names DEF StealColor, LeaveVictim
  <1>5. CASE Relock(t) \/ InsertStolen(t)
        BY <1>5, Names DEF Relock, InsertStolen
  <1> QED BY <1>1, <1>2, <1>3, <1>4, <1>5 DEF StealSteps

(* The steps of steal_work that take nothing.                              *)
LEMMA WatchVictimSafe ==
  ASSUME SafeInv, NEW t \in Threads,
         CheckVictim(t) \/ LockVictim(t) \/ LeaveVictim(t) \/ Relock(t)
  PROVE  ListInv' /\ FlowInv'
  <1> USE DEF SafeInv
  <1>1. /\ pc[t] \in {"victim", "lockvictim", "stealing", "relock"}
        /\ UNCHANGED <<queueOf, acolor, colorList, stealList, headSeg, tailSeg,
                       loot, running, posting, dest>>
        BY DEF CheckVictim, LockVictim, LeaveVictim, Relock, listVars,
               postVars, stealVars
  <1>2. Stealing
        BY <1>1 DEF FlowInv, NotStealing
  <1>3. /\ pc'[t] \in {"victim", "lockvictim", "stealing", "relock", "insert",
                       "panic"}
        /\ \A u \in Actors : u # t => pc'[u] = pc[u]
    <2> USE Names DEF TypeInv, TypeOK, ControlOK
    <2>1. CASE Advance(t)
          BY <2>1, AdvanceStep
    <2>2. CASE CheckVictim(t) /\ ~Advance(t)
          BY <2>2 DEF CheckVictim
    <2>3. CASE LockVictim(t) /\ ~Advance(t)
          BY <2>3 DEF LockVictim
    <2>4. CASE LeaveVictim(t)
          BY <2>4 DEF LeaveVictim
    <2>5. CASE Relock(t)
          BY <2>5 DEF Relock
    <2> QED BY <2>1, <2>2, <2>3, <2>4, <2>5
  <1>4. ListInv'
        BY <1>1, <1>3, ListsKept, Names DEF Executing
  <1>5. FlowInv'
        BY <1>1, <1>2, <1>3, ThreadFlow DEF InLoop
  <1> QED BY <1>4, <1>5

(* The polling task, but for its posts. *)
LEMMA PollSafe ==
  ASSUME SafeInv, NEW t \in Threads, Poll(t) \/ Event(t)
  PROVE  ListInv' /\ FlowInv'
  <1> USE DEF SafeInv
  <1>1. /\ pc[t] = "run"
        /\ UNCHANGED <<queueOf, acolor, colorList, stealList, headSeg, tailSeg,
                       loot, running, posting, dest, pc>>
        BY DEF Poll, Event, listVars, postVars, stealVars
  <1>2. ListInv'
        BY <1>1, ListsKept DEF Executing
  <1>3. FlowInv'
        BY <1>1, ThreadFlow DEF InLoop
  <1> QED BY <1>2, <1>3

-----------------------------------------------------------------------------
(* Steps of register_task that queue nothing *)

(* A step of a poster between the states of register_task. *)
LEMMA PosterFlow ==
  ASSUME FlowInv, NEW a \in Actors,
         UNCHANGED <<queueOf, acolor, running, tailSeg, booted>>,
         pc[a] \in {"run", "read", "post", "notify"},
         pc'[a] \in {"run", "read", "post", "notify"},
         ~(pc[a] = "post" /\ posting[a].cb = "acheck"),
         \A b \in Actors : b # a => /\ pc'[b] = pc[b]
                                    /\ posting'[b] = posting[b]
                                    /\ dest'[b] = dest[b],
         GoesHome(a)'
  PROVE  FlowInv'
  <1> USE DEF FlowInv
  <1>1. Posting'
    <2> SUFFICES ASSUME NEW b \in Actors, b # a PROVE GoesHome(b)'
        BY DEF Posting
    <2> QED BY DEF Posting, GoesHome
  <1>2. NotStealing'
        BY Names DEF NotStealing
  <1>3. \A t : PollingQueued(t)' <=> PollingQueued(t)
        BY DEF PollingQueued
  <1>4. Polling'
    <2> SUFFICES ASSUME NEW t \in Threads,
                        \/ InLoop(t)'
                        \/ Executing(t)' /\ running'[t] # "acheck"
                 PROVE  PollingQueued(t)
        BY <1>3 DEF Polling
    <2> QED BY Names DEF Polling, InLoop, Executing
  <1>5. Starting'
    <2> SUFFICES ASSUME pc'[Main] # "join" PROVE Starting'
        BY DEF Starting
    <2>1. a = Main
      <3>1. ASSUME a # Main PROVE FALSE
        <4>1. a \in Threads /\ pc[Main] = "join"
              BY <3>1, Names, Joined
        <4> QED BY <3>1, <4>1, Names
      <3> QED BY <3>1
    <2>2. \A t \in Threads : pc'[t] = pc[t]
          BY <2>1, Names
    <2>3. pc[Main] # "join"
          BY <2>1
    <2> QED BY <1>3, <2>1, <2>2, <2>3 DEF Starting
  <1> QED BY <1>1, <1>2, <1>4, <1>5

(* A post starts with a callback that belongs in the list of its color.    *)
LEMMA BeginPostHome ==
  ASSUME TypeInv, NEW a \in Actors, NEW p \in Posts, BeginPost(a, p),
         p.color >= 0 /\ ~Stealing => p.color < MaxColors,
         p.cb = "acheck" => /\ p.last /\ p.color < 0
                            /\ a # Main => p.color = NegList(a)
  PROVE  /\ GoesHome(a)'
         /\ posting'[a] = p
         /\ pc'[a] \in {"read", "post"}
         /\ p.color < 0 => pc'[a] = "post"
         /\ \A b \in Actors : b # a => /\ pc'[b] = pc[b]
                                      /\ posting'[b] = posting[b]
                                      /\ dest'[b] = dest[b]
  <1> USE DEF TypeInv, TypeOK, ControlOK
  <1>0. p.color \in Int
        BY DEF Posts
  <1>1. posting' = [posting EXCEPT ![a] = p]
        BY DEF BeginPost
  <1>2. CASE p.color >= 0 /\ Stealing
    <2>1. pc' = [pc EXCEPT ![a] = "read"] /\ dest' = dest
          BY <1>2 DEF BeginPost
    <2>2. pc'[a] = "read" /\ posting'[a] = p
          BY <1>1, <2>1
    <2>3. GoesHome(a)'
          BY <1>0, <1>2, <2>2 DEF GoesHome
    <2> QED BY <1>0, <1>1, <1>2, <2>1, <2>2, <2>3
  <1>3. CASE ~(p.color >= 0 /\ Stealing)
    <2>1. /\ pc' = [pc EXCEPT ![a] = "post"]
          /\ dest' = [dest EXCEPT ![a] = DirectDest(p)]
          BY <1>3 DEF BeginPost
    <2>2. pc'[a] = "post" /\ posting'[a] = p /\ dest'[a] = DirectDest(p)
          BY <1>1, <2>1
    <2>3. p.color < 0 => p.color = NegList(DirectDest(p))
          BY <1>0 DEF DirectDest, NegList
    <2>4. p.color >= 0 => DirectDest(p) = p.color % NThreads
          BY <1>0 DEF DirectDest
    <2>5. GoesHome(a)'
          BY <1>0, <1>3, <2>2, <2>3, <2>4 DEF GoesHome
    <2> QED BY <1>1, <2>1, <2>2, <2>5
  <1> QED BY <1>2, <1>3

(* A callback posts another.                                               *)
LEMMA PostSafe ==
  ASSUME SafeInv, ColorsFit, NEW t \in Threads, NEW c \in Callbacks, Post(t, c)
  PROVE  ListInv' /\ FlowInv'
  <1> USE DEF SafeInv
  <1>1. t \in Actors /\ pc[t] = "run" /\ BeginPost(t, Posted(c))
        BY Names DEF Post
  <1>2. Posted(c) \in Posts /\ Posted(c).cb # "acheck"
        /\ (~Stealing => Posted(c).color < MaxColors)
    <2>1. Posted(c).cb = c /\ Posted(c).color = ColorOf[c]
          BY DEF Posted
    <2>2. c # "acheck"
          BY SchedulerAssumption DEF SchedulerAssumption
    <2> QED BY <2>1, <2>2, PostedType DEF ColorsFit
  <1>3. /\ GoesHome(t)' /\ pc'[t] \in {"read", "post"}
        /\ \A b \in Actors : b # t => /\ pc'[b] = pc[b]
                                      /\ posting'[b] = posting[b]
                                      /\ dest'[b] = dest[b]
        BY <1>1, <1>2, BeginPostHome
  <1>4. UNCHANGED <<queueOf, acolor, running, colorList, stealList, headSeg,
                    tailSeg, loot, booted>>
        BY DEF Post, listVars, stealVars
  <1>5. ListInv'
        BY <1>1, <1>3, <1>4, ListsKept, Names DEF Executing
  <1>6. FlowInv'
        BY <1>1, <1>3, <1>4, PosterFlow
  <1> QED BY <1>5, <1>6

(* acheck_task posts itself.                                               *)
LEMMA RepostSafe ==
  ASSUME SafeInv, NEW t \in Threads, Repost(t)
  PROVE  ListInv' /\ FlowInv'
  <1> USE DEF SafeInv
  <1> DEFINE p == [cb |-> "acheck", color |-> NegList(t), last |-> TRUE,
                   prio |-> IF gotany[t] THEN 0 ELSE IdlePrio]
  <1>1. t \in Actors /\ pc[t] = "run" /\ BeginPost(t, p)
        BY Names DEF Repost
  <1>2. p \in Posts /\ p.cb = "acheck" /\ p.last /\ p.color = NegList(t)
        /\ p.color < 0 /\ ~(p.color >= 0)
    <2>1. NegList(t) \in Int /\ NegList(t) < 0
          BY Names
    <2>2. (IF gotany[t] THEN 0 ELSE IdlePrio) \in Int
          BY SchedulerAssumption DEF SchedulerAssumption
    <2> QED BY <2>1, <2>2 DEF Posts, Tasks, Specials
  <1> HIDE DEF p
  <1>3. /\ GoesHome(t)' /\ pc'[t] \in {"read", "post"}
        /\ \A b \in Actors : b # t => /\ pc'[b] = pc[b]
                                      /\ posting'[b] = posting[b]
                                      /\ dest'[b] = dest[b]
        BY <1>1, <1>2, BeginPostHome
  <1>4. UNCHANGED <<queueOf, acolor, running, colorList, stealList, headSeg,
                    tailSeg, loot, booted>>
        BY DEF Repost, listVars, stealVars, bootVars
  <1>5. ListInv'
        BY <1>1, <1>3, <1>4, ListsKept, Names DEF Executing
  <1>6. FlowInv'
        BY <1>1, <1>3, <1>4, PosterFlow
  <1> QED BY <1>5, <1>6

(* The steps of register_task around the insertion.                        *)
LEMMA ReadOwnerSafe ==
  ASSUME SafeInv, NEW a \in Actors, ReadOwner(a) \/ RetryPost(a) \/ Notify(a)
  PROVE  ListInv' /\ FlowInv'
  <1> USE DEF SafeInv
  <1>0. posting[a].color \in Int
        BY DEF TypeInv, TypeOK, ControlOK, Posts
  <1>1. pc[a] \in {"read", "post", "notify"}
        BY DEF ReadOwner, RetryPost, Notify
  <1>2. posting[a].cb # "acheck"
    <2>1. GoesHome(a)
          BY DEF FlowInv, Posting
    <2>2. CASE RetryPost(a)
          BY <1>0, <1>1, <2>1, <2>2 DEF RetryPost, StillOwner, GoesHome
    <2>3. CASE ReadOwner(a) \/ Notify(a)
          BY <2>1, <2>3 DEF ReadOwner, Notify, GoesHome
    <2> QED BY <2>2, <2>3
  <1>3. UNCHANGED <<queueOf, acolor, running, colorList, stealList, headSeg,
                    tailSeg, loot, booted>>
        BY <1>2 DEF ReadOwner, RetryPost, Notify, EndPost, listVars, stealVars,
                    bootVars
  <1>4. \A b \in Actors : b # a => /\ pc'[b] = pc[b]
                                   /\ posting'[b] = posting[b]
                                   /\ dest'[b] = dest[b]
        BY <1>2 DEF ReadOwner, RetryPost, Notify, EndPost,
                    TypeInv, TypeOK, ControlOK
  <1>5. pc'[a] \in {"run", "read", "post"} /\ GoesHome(a)'
    <2> USE DEF TypeInv, TypeOK, ControlOK
    <2>1. GoesHome(a)
          BY DEF FlowInv, Posting
    <2>2. CASE ReadOwner(a)
      <3>1. pc[a] = "read" /\ pc'[a] = "post" /\ posting' = posting
            BY <2>2 DEF ReadOwner
      <3> QED BY <1>0, <1>2, <2>1, <3>1 DEF GoesHome
    <2>3. CASE RetryPost(a)
      <3>1. pc[a] = "post" /\ pc'[a] = "read" /\ posting' = posting
            /\ Stealing /\ posting[a].color >= 0
            BY <2>3 DEF RetryPost, StillOwner
      <3> QED BY <1>0, <1>2, <3>1 DEF GoesHome
    <2>4. CASE Notify(a)
      <3>1. pc'[a] = "run"
            BY <1>2, <2>4 DEF Notify, EndPost
      <3> QED BY <3>1 DEF GoesHome
    <2> QED BY <2>2, <2>3, <2>4
  <1>6. ListInv'
        BY <1>1, <1>3, <1>4, <1>5, ListsKept, Names DEF Executing
  <1>7. FlowInv'
        BY <1>1, <1>2, <1>3, <1>4, <1>5, PosterFlow
  <1> QED BY <1>6, <1>7

(* What main posts next: the polling task of t is the one numbered         *)
(* Len(BootProgram) + 2 * (t + 1).                                         *)
LEMMA BootCallbackHome ==
  ASSUME ColorsFit, NEW n \in 1 .. NbBoot
  PROVE  LET p == BootCallback(n) IN
         /\ p.color >= 0 /\ ~Stealing => p.color < MaxColors
         /\ p.cb = "acheck" => p.last /\ p.color < 0
         /\ \A t \in Threads :
              n = Len(BootProgram) + 2 * (t + 1) =>
                p.cb = "acheck" /\ p.color = NegList(t)
  <1> DEFINE p == BootCallback(n)
             k == n - Len(BootProgram) - 1
  <1>0. Len(BootProgram) \in Nat /\ NThreads \in Nat
        BY SchedulerAssumption, ElementsOf DEF SchedulerAssumption
  <1>1. CASE k < 0
    <2>1. BootProgram[n] \in Callbacks /\ p = Posted(BootProgram[n])
      <3>1. n \in 1 .. Len(BootProgram)
            BY <1>0, <1>1 DEF NbBoot
      <3> QED BY <1>1, <3>1, SchedulerAssumption, ElementOfSeq
              DEF SchedulerAssumption, BootCallback
    <2>2. p.cb = BootProgram[n] /\ p.color = ColorOf[BootProgram[n]]
          BY <2>1 DEF Posted
    <2>3. p.cb # "acheck" /\ (~Stealing => p.color < MaxColors)
          BY <2>1, <2>2, SchedulerAssumption DEF SchedulerAssumption, ColorsFit
    <2>4. \A t \in Threads : n # Len(BootProgram) + 2 * (t + 1)
          BY <1>0, <1>1 DEF Threads, NbBoot
    <2> QED BY <2>3, <2>4
  <1>2. CASE ~(k < 0)
    <2>1. p = [cb |-> IF k % 2 = 0 THEN "ainit" ELSE "acheck",
               color |-> NegList(k \div 2), prio |-> 0, last |-> k % 2 = 1]
          BY <1>2 DEF BootCallback
    <2>2. k \in Nat /\ k \div 2 \in Nat /\ k % 2 \in {0, 1}
      <3>1. k \in Nat
            BY <1>0, <1>2 DEF NbBoot
      <3> HIDE DEF k
      <3> QED BY <3>1
    <2>3. NegList(k \div 2) < 0
          BY <2>2 DEF NegList
    <2>4. \A t \in Threads :
            n = Len(BootProgram) + 2 * (t + 1) => k % 2 = 1 /\ k \div 2 = t
      <3> SUFFICES ASSUME NEW t \in Threads,
                          n = Len(BootProgram) + 2 * (t + 1)
                   PROVE  k % 2 = 1 /\ k \div 2 = t
          OBVIOUS
      <3>1. t \in Nat /\ k = 2 * t + 1
            BY <1>0, SchedulerAssumption DEF Threads, SchedulerAssumption
      <3> HIDE DEF k
      <3> QED BY <3>1
    <2> HIDE DEF k, p
    <2>5. /\ p.color = NegList(k \div 2) /\ (p.last <=> k % 2 = 1)
          /\ p.cb = IF k % 2 = 0 THEN "ainit" ELSE "acheck"
          BY <2>1
    <2>6. ~(p.color >= 0)
          BY <2>2, <2>3, <2>5 DEF NegList
    <2>7. p.cb = "acheck" => p.last /\ p.color < 0
          BY <2>2, <2>3, <2>5
    <2>8. \A t \in Threads :
            n = Len(BootProgram) + 2 * (t + 1) =>
              p.cb = "acheck" /\ p.color = NegList(t)
          BY <2>4, <2>5
    <2> QED BY <2>6, <2>7, <2>8 DEF p
  <1> QED BY <1>1, <1>2

(* amain posts.                                                            *)
LEMMA BootPostSafe ==
  ASSUME SafeInv, ColorsFit, BootPost
  PROVE  ListInv' /\ FlowInv'
  <1> USE DEF SafeInv
  <1> DEFINE n == booted + 1
             p == BootCallback(n)
  <1>0. /\ booted \in Nat /\ n \in 1 .. NbBoot /\ booted' = n
        /\ pc[Main] = "run" /\ BeginPost(Main, p) /\ Main \in Actors
    <2>1. Len(BootProgram) \in Nat /\ NThreads \in Nat
          BY SchedulerAssumption, ElementsOf DEF SchedulerAssumption
    <2>2. booted \in 0 .. NbBoot /\ booted < NbBoot
          BY DEF BootPost, TypeInv, TypeOK, ControlOK
    <2> QED BY <2>1, <2>2, Names DEF NbBoot, BootPost
  <1> HIDE DEF p
  <1>1. /\ p \in Posts
        /\ p.color >= 0 /\ ~Stealing => p.color < MaxColors
        /\ p.cb = "acheck" => p.last /\ p.color < 0
        /\ \A t \in Threads :
             n = Len(BootProgram) + 2 * (t + 1) =>
               p.cb = "acheck" /\ p.color = NegList(t)
        BY <1>0, BootCallbackType, BootCallbackHome DEF p
  <1>2. /\ GoesHome(Main)' /\ posting'[Main] = p
        /\ pc'[Main] \in {"read", "post"}
        /\ p.color < 0 => pc'[Main] = "post"
        /\ \A b \in Actors : b # Main => /\ pc'[b] = pc[b]
                                         /\ posting'[b] = posting[b]
                                         /\ dest'[b] = dest[b]
        BY <1>0, <1>1, BeginPostHome
  <1>3. UNCHANGED <<queueOf, acolor, running, colorList, stealList, headSeg,
                    tailSeg, loot>>
        BY DEF BootPost, listVars, stealVars
  <1>4. \A t \in Threads : pc'[t] = pc[t]
        BY <1>2, Names
  <1>5. ListInv'
        BY <1>3, <1>4, ListsKept DEF Executing
  <1>6. FlowInv'
    <2> USE DEF FlowInv
    <2>1. Posting'
      <3> SUFFICES ASSUME NEW b \in Actors, b # Main PROVE GoesHome(b)'
          BY <1>2 DEF Posting
      <3> QED BY <1>2 DEF Posting, GoesHome
    <2>2. \A t : PollingQueued(t)' <=> PollingQueued(t)
          BY <1>3 DEF PollingQueued
    <2>3. NotStealing' /\ Polling'
          BY <1>3, <1>4, <2>2 DEF NotStealing, Polling, InLoop, Executing
    <2>4. Starting'
      <3> SUFFICES ASSUME NEW t \in Threads,
                          n >= Len(BootProgram) + 2 * (t + 1)
                   PROVE  \/ PollingQueued(t)
                          \/ /\ pc'[Main] = "post"
                             /\ posting'[Main].cb = "acheck"
                             /\ posting'[Main].color = NegList(t)
          BY <1>0, <1>3, <1>4, <2>2 DEF Starting
      <3>1. CASE n = Len(BootProgram) + 2 * (t + 1)
            BY <1>1, <1>2, <3>1, Names
      <3>2. CASE n # Len(BootProgram) + 2 * (t + 1)
        <4>1. Len(BootProgram) \in Nat /\ t \in Nat
              BY SchedulerAssumption, ElementsOf
              DEF SchedulerAssumption, Threads
        <4>2. booted >= Len(BootProgram) + 2 * (t + 1)
              BY <1>0, <3>2, <4>1
        <4> QED BY <1>0, <4>2 DEF Starting
      <3> QED BY <3>1, <3>2
    <2> QED BY <2>1, <2>3, <2>4
  <1> QED BY <1>5, <1>6

(* task_go: all polling tasks were posted.                                 *)
LEMMA TaskGoSafe ==
  ASSUME SafeInv, TaskGo
  PROVE  ListInv' /\ FlowInv'
  <1> USE DEF SafeInv
  <1>1. /\ pc[Main] = "run" /\ booted = NbBoot
        /\ pc' = [a \in Actors |-> IF a = Main THEN "join" ELSE "loop"]
        BY DEF TaskGo
  <1>2. acolor' = acolor
    <2>1. \A t \in Threads : acolor[t] = NoList
          BY <1>1 DEF FlowInv, Starting
    <2> QED BY <2>1 DEF TaskGo, TypeInv, TypeOK, ListsOK
  <1>3. UNCHANGED <<queueOf, running, colorList, stealList, headSeg, tailSeg,
                    loot>>
        BY DEF TaskGo, listVars, stealVars
  <1>4. \A t \in Threads : pc'[t] = "loop"
        BY <1>1, Names
  <1>5. ListInv'
        BY <1>2, <1>3, <1>4, ListsKept DEF Executing
  <1>6. \A t \in Threads : PollingQueued(t)'
    <2> SUFFICES ASSUME NEW t \in Threads PROVE PollingQueued(t)
        BY <1>3 DEF PollingQueued
    <2>1. booted >= Len(BootProgram) + 2 * (t + 1)
      <3>1. Len(BootProgram) \in Nat /\ NThreads \in Nat
            BY SchedulerAssumption, ElementsOf DEF SchedulerAssumption
      <3> QED BY <1>1, <3>1 DEF NbBoot, Threads
    <2> QED BY <1>1, <2>1 DEF FlowInv, Starting
  <1>7. Posting'
    <2>1. \A a \in Actors : pc'[a] \in {"join", "loop"}
          BY <1>1
    <2> QED BY <2>1 DEF Posting, GoesHome
  <1>8. NotStealing' /\ Polling' /\ Starting'
        BY <1>1, <1>3, <1>4, <1>6, Names
        DEF FlowInv, NotStealing, Polling, Starting
  <1> QED BY <1>5, <1>7, <1>8 DEF FlowInv

-----------------------------------------------------------------------------
(* register_task *)

(* The remainder of a number below the divisor. *)
LEMMA ModSmall ==
  ASSUME NEW k \in Nat, NEW n \in Nat \ {0}, k < n
  PROVE  k % n = k
  OBVIOUS

(* The list register_task uses is at home at the thread it locked. *)
LEMMA RegisterHome ==
  ASSUME SafeInv, NEW a \in Actors, pc[a] = "post", StillOwner(a)
  PROVE  /\ dest[a] \in Threads
         /\ ListOf(posting[a].color, dest[a]) \in Lists
         /\ HomeOf(ListOf(posting[a].color, dest[a]), dest[a])
  <1> DEFINE d == dest[a]
             k == posting[a].color
             l == ListOf(k, d)
  <1> USE DEF SafeInv
  <1>1. d \in Threads /\ k \in Int /\ GoesHome(a)
        BY DEF TypeInv, PostOK, TypeOK, ControlOK, Posts, FlowInv, Posting
  <1>2. /\ l \in Lists
        /\ k >= 0 => l = k % MaxColors /\ l >= 0
        /\ k < 0 => l = NegList(d)
        BY <1>1, ListOfColor
  <1>3. CASE k < 0
        BY <1>1, <1>2, <1>3, Names DEF HomeOf
  <1>4. CASE k >= 0 /\ Stealing
    <2>1. queueOf[k % MaxColors] = d
          BY <1>4 DEF StillOwner
    <2>2. l = k % MaxColors /\ ~(l < 0)
      <3>1. l \in Int /\ l >= 0 /\ l = k % MaxColors
            BY <1>2, <1>4, Names
      <3> HIDE DEF l
      <3> QED BY <3>1
    <2> QED BY <1>1, <1>2, <2>1, <2>2 DEF HomeOf
  <1>5. CASE k >= 0 /\ ~Stealing
    <2>1. k < MaxColors /\ d = k % NThreads
          BY <1>1, <1>5 DEF GoesHome
    <2>2. MaxColors \in Nat \ {0} /\ k \in Nat /\ k \in Colors
          BY <1>1, <1>5, <2>1, SchedulerAssumption
          DEF SchedulerAssumption, Colors
    <2>3. l = k /\ ~(l < 0)
          BY <1>2, <1>5, <2>1, <2>2, ModSmall
    <2>4. queueOf[k] = k % NThreads
          BY <1>5, <2>2 DEF FlowInv, NotStealing
    <2> QED BY <1>1, <1>2, <2>1, <2>3, <2>4 DEF HomeOf
  <1> QED BY <1>1, <1>3, <1>4, <1>5

(* A list is chained again exactly when it is not chained.                 *)
LEMMA FreshUnchained ==
  ASSUME SafeInv, NEW d \in Threads, NEW l \in Lists, HomeOf(l, d)
  PROVE  Fresh(d, l) <=> l \notin ToSet(colorList[d])
  <1> USE DEF SafeInv, ListInv
  <1>1. NbCallbacks(l) \in Nat
        BY NbCallbacksType DEF TypeInv, TypeOK
  <1>2. l # NoList
        BY Names
  <1> QED BY <1>1, <1>2 DEF Fresh, Useful, Chained, Current

(* What register_task does to the lists. *)
LEMMA RegisteredLists ==
  ASSUME SafeInv, NEW a \in Actors, RegisterTask(a),
         NEW d, d = dest[a], NEW l, l = ListOf(posting[a].color, d)
  PROVE  /\ d \in Threads /\ l \in Lists /\ HomeOf(l, d)
         /\ UNCHANGED <<queueOf, acolor, loot>>
         /\ \A t \in Threads : t # d => /\ colorList'[t] = colorList[t]
                                        /\ stealList'[t] = stealList[t]
         /\ ToSet(colorList'[d]) = ToSet(colorList[d]) \cup {l}
         /\ IsInjective(colorList'[d])
         /\ stealList'[d] = StealLinked(stealList[d], l)
         /\ \A x \in Lists : /\ x # l => /\ headSeg'[x] = headSeg[x]
                                         /\ tailSeg'[x] = tailSeg[x]
                             /\ NbCallbacks(x) > 0 => NbCallbacks(x)' > 0
         /\ NbCallbacks(l)' > 0
         /\ ToSet(tailSeg[l]) \subseteq ToSet(tailSeg'[l])
         /\ posting[a].last => posting[a].cb \in ToSet(tailSeg'[l])
         /\ IF posting[a].last
            THEN /\ tailSeg'[l] = Append(tailSeg[l], posting[a].cb)
                 /\ headSeg'[l] = headSeg[l]
            ELSE /\ headSeg'[l] = Append(headSeg[l], posting[a].cb)
                 /\ tailSeg'[l] = tailSeg[l]
  <1> DEFINE p == posting[a]
             s == Slot(colorList[d], p.prio, 0, acolor[d] = NoList)
  <1> USE DEF SafeInv
  <1>1. /\ pc[a] = "post" /\ StillOwner(a) /\ RegisterCb(d, p)
        /\ UNCHANGED <<queueOf, acolor, loot>>
        BY DEF RegisterTask, stealVars
  <1>2. d \in Threads /\ l \in Lists /\ HomeOf(l, d)
        BY <1>1, RegisterHome
  <1>3. /\ colorList \in [Threads -> Seq(Lists)]
        /\ stealList \in [Threads -> Seq(Colors)]
        /\ headSeg \in [Lists -> Seq(Tasks)]
        /\ tailSeg \in [Lists -> Seq(Tasks)]
        /\ IsInjective(colorList[d]) /\ p.cb \in Tasks
        BY <1>1, <1>2
        DEF TypeInv, TypeOK, ListsOK, PostOK, ListInv, NoDuplicates
  <1>4. /\ ToSet(colorList'[d]) = ToSet(colorList[d]) \cup {l}
        /\ IsInjective(colorList'[d])
        /\ \A t \in Threads : t # d => colorList'[t] = colorList[t]
    <2>1. CASE Fresh(d, l)
      <3>1. colorList' = [colorList EXCEPT ![d] = Linked(@, s, l)]
            BY <1>1, <2>1 DEF RegisterCb
      <3>2. s \in 0 .. Len(colorList[d])
            BY <1>2, <1>3, SlotRange
      <3>3. l \notin ToSet(colorList[d])
            BY <1>2, <2>1, FreshUnchained
      <3> HIDE DEF s
      <3>4. /\ ToSet(Linked(colorList[d], s, l)) = ToSet(colorList[d]) \cup {l}
            /\ IsInjective(Linked(colorList[d], s, l))
            BY <1>2, <1>3, <3>2, <3>3, LinkedList
      <3> QED BY <1>2, <1>3, <3>1, <3>4
    <2>2. CASE ~Fresh(d, l)
      <3>1. colorList' = colorList
            BY <1>1, <2>2 DEF RegisterCb
      <3>2. l \in ToSet(colorList[d])
            BY <1>2, <2>2, FreshUnchained
      <3> QED BY <1>3, <3>1, <3>2
    <2> QED BY <2>1, <2>2
  <1>5. /\ stealList'[d] = StealLinked(stealList[d], l)
        /\ \A t \in Threads : t # d => stealList'[t] = stealList[t]
        BY <1>1, <1>2, <1>3 DEF RegisterCb
  <1>6. /\ \A x \in Lists : x # l => /\ headSeg'[x] = headSeg[x]
                                     /\ tailSeg'[x] = tailSeg[x]
        /\ \/ /\ p.last /\ tailSeg'[l] = Append(tailSeg[l], p.cb)
              /\ headSeg'[l] = headSeg[l]
           \/ /\ ~p.last /\ headSeg'[l] = Append(headSeg[l], p.cb)
              /\ tailSeg'[l] = tailSeg[l]
        BY <1>1, <1>2, <1>3 DEF RegisterCb
  <1>7. /\ ToSet(tailSeg[l]) \subseteq ToSet(tailSeg'[l])
        /\ p.last => p.cb \in ToSet(tailSeg'[l])
    <2>1. ToSet(Append(tailSeg[l], p.cb)) = ToSet(tailSeg[l]) \cup {p.cb}
          BY <1>2, <1>3, AppendedElements
    <2> QED BY <1>6, <2>1
  <1>8. NbCallbacks(l)' > 0
    <2> DEFINE h == Len(headSeg[l])
               k == Len(tailSeg[l])
    <2>1. /\ Len(Append(tailSeg[l], p.cb)) = k + 1
          /\ Len(Append(headSeg[l], p.cb)) = h + 1
          BY <1>2, <1>3, AppendedElements
    <2>2. h \in Nat /\ k \in Nat
          BY <1>2, <1>3, ElementsOf
    <2>3. NbCallbacks(l)' = Len(headSeg'[l]) + Len(tailSeg'[l])
          BY DEF NbCallbacks
    <2> HIDE DEF h, k
    <2>4. NbCallbacks(l)' = (k + 1) + h \/ NbCallbacks(l)' = (h + 1) + k
      <3>1. CASE p.last
        <4>1. Len(tailSeg'[l]) = k + 1 /\ Len(headSeg'[l]) = h
              BY <1>6, <2>1, <3>1 DEF h
        <4> QED BY <2>2, <2>3, <4>1
      <3>2. CASE ~p.last
        <4>1. Len(headSeg'[l]) = h + 1 /\ Len(tailSeg'[l]) = k
              BY <1>6, <2>1, <3>2 DEF k
        <4> QED BY <2>2, <2>3, <4>1
      <3> QED BY <3>1, <3>2
    <2> QED BY <2>2, <2>4
  <1>9. \A x \in Lists : NbCallbacks(x) > 0 => NbCallbacks(x)' > 0
        BY <1>6, <1>8 DEF NbCallbacks
  <1> QED BY <1>1, <1>2, <1>4, <1>5, <1>6, <1>7, <1>8, <1>9

(* The lists after an insertion by register_task.                          *)
LEMMA RegisterListsSafe ==
  ASSUME SafeInv, NEW a \in Actors, RegisterTask(a),
         \A t \in Threads : Executing(t)' => Executing(t)
  PROVE  ListInv'
  <1>0. PICK d, l : d = dest[a] /\ l = ListOf(posting[a].color, d)
        OBVIOUS
  <1> USE DEF SafeInv, ListInv
  <1>1. /\ d \in Threads /\ l \in Lists /\ HomeOf(l, d)
        /\ UNCHANGED <<queueOf, acolor, loot>>
        /\ \A t \in Threads : t # d => /\ colorList'[t] = colorList[t]
                                       /\ stealList'[t] = stealList[t]
        /\ ToSet(colorList'[d]) = ToSet(colorList[d]) \cup {l}
        /\ IsInjective(colorList'[d])
        /\ stealList'[d] = StealLinked(stealList[d], l)
        /\ \A x \in Lists : /\ x # l => /\ headSeg'[x] = headSeg[x]
                                        /\ tailSeg'[x] = tailSeg[x]
                            /\ NbCallbacks(x) > 0 => NbCallbacks(x)' > 0
        /\ NbCallbacks(l)' > 0
        BY <1>0, RegisteredLists
  <1>2. /\ \A x \in Lists : x # l => NbCallbacks(x)' = NbCallbacks(x)
        /\ \A x, t : HomeOf(x, t)' <=> HomeOf(x, t)
        BY <1>1 DEF NbCallbacks, HomeOf
  <1>3. /\ stealList[d] \in Seq(Colors)
        /\ \A t \in Threads : /\ ToSet(colorList[t]) \subseteq Lists
                              /\ ToSet(stealList[t]) \subseteq Lists
                              /\ ToSet(loot[t]) \subseteq Lists
    <2>1. \A t \in Threads : /\ colorList[t] \in Seq(Lists)
                            /\ stealList[t] \in Seq(Colors)
                            /\ loot[t] \in Seq(Colors)
          BY DEF TypeInv, TypeOK, ListsOK
    <2> QED BY <1>1, <2>1, ElementsOf, Names
  <1>4. /\ ToSet(stealList'[d]) \subseteq ToSet(stealList[d]) \cup {l}
        /\ ToSet(stealList[d]) \subseteq ToSet(stealList'[d])
        /\ Stealing /\ l >= 0 => l \in ToSet(stealList'[d])
        /\ IsInjective(stealList[d]) => IsInjective(stealList'[d])
        BY <1>1, <1>3, StealLinkedList
  <1>5. NoDuplicates'
        BY <1>1, <1>4 DEF NoDuplicates
  <1>6. AtHome'
        BY <1>1, <1>2 DEF AtHome
  <1>7. Chained'
    <2> SUFFICES ASSUME NEW t \in Threads, NEW x \in Lists, HomeOf(x, t),
                        NbCallbacks(x)' > 0
                 PROVE  x \in ToSet(colorList'[t])
        BY <1>2 DEF Chained
    <2>1. CASE x = l
          BY <1>1, <2>1, HomeIsOne
    <2>2. CASE x # l
      <3>1. x \in ToSet(colorList[t])
            BY <1>2, <2>2 DEF Chained
      <3> QED BY <1>1, <3>1
    <2> QED BY <2>1, <2>2
  <1>8. Useful'
    <2> SUFFICES ASSUME NEW t \in Threads, NEW x \in ToSet(colorList'[t]),
                        x # l
                 PROVE  NbCallbacks(x)' > 0 \/ acolor[t] = x
        BY <1>1 DEF Useful
    <2>1. x \in ToSet(colorList[t])
          BY <1>1
    <2> QED BY <1>1, <1>3, <2>1 DEF Useful
  <1>9. Current'
    <2>1. \A t \in Threads : ToSet(colorList[t]) \subseteq ToSet(colorList'[t])
          BY <1>1
    <2> QED BY <1>1, <2>1 DEF Current
  <1>10. StealIn'
    <2> SUFFICES ASSUME NEW t \in Threads, NEW x \in ToSet(stealList'[t])
                 PROVE  x \in ToSet(colorList'[t]) /\ NbCallbacks(x)' > 0
        BY DEF StealIn
    <2>1. CASE x \in ToSet(stealList[t])
          BY <1>1, <1>3, <2>1 DEF StealIn
    <2>2. CASE x \notin ToSet(stealList[t])
          BY <1>1, <1>4, <2>2
    <2> QED BY <2>1, <2>2
  <1>11. StealAll'
    <2> SUFFICES ASSUME Stealing, NEW t \in Threads,
                        NEW x \in ToSet(colorList'[t]),
                        x >= 0, NbCallbacks(x)' > 0
                 PROVE  x \in ToSet(stealList'[t])
        BY DEF StealAll
    <2>1. CASE x = l
      <3>1. t = d
        <4>1. HomeOf(l, t)
              BY <1>2, <1>6, <2>1 DEF AtHome
        <4> QED BY <1>1, <4>1, HomeIsOne
      <3> QED BY <1>4, <2>1, <3>1
    <2>2. CASE x # l
      <3>1. x \in ToSet(colorList[t])
            BY <1>1, <2>2
      <3>2. NbCallbacks(x) > 0
            BY <1>2, <1>3, <2>2, <3>1
      <3>3. x \in ToSet(stealList[t])
            BY <3>1, <3>2 DEF StealAll
      <3> QED BY <1>1, <1>4, <3>3
    <2> QED BY <2>1, <2>2
  <1>12. Looted'
    <2>1. \A t \in Threads : \A x \in ToSet(loot[t]) : NbCallbacks(x)' > 0
          BY <1>1, <1>3 DEF Looted
    <2> QED BY <1>1, <2>1 DEF Looted
  <1> QED BY <1>5, <1>6, <1>7, <1>8, <1>9, <1>10, <1>11, <1>12

(* Where register_task leaves its caller; only a polling task goes back to *)
(* the loop, and it never has to write in a pipe.                          *)
LEMMA RegisteredControl ==
  ASSUME SafeInv, NEW a \in Actors, RegisterTask(a)
  PROVE  /\ pc[a] = "post" /\ UNCHANGED <<queueOf, acolor, booted>>
         /\ \A b \in Actors : b # a => /\ pc'[b] = pc[b]
                                       /\ posting'[b] = posting[b]
                                       /\ dest'[b] = dest[b]
         /\ \A t \in Threads : t # a => running'[t] = running[t]
         /\ \/ /\ pc'[a] = "run" /\ (a # Main => posting[a].cb # "acheck")
               /\ running' = running
            \/ /\ pc'[a] = "notify" /\ posting[a].cb # "acheck"
               /\ running' = running
               /\ posting'[a] = posting[a] /\ dest'[a] = dest[a]
            \/ pc'[a] = "loop" /\ a # Main /\ posting[a].cb = "acheck"
  <1> USE DEF SafeInv, TypeInv, TypeOK, ControlOK
  <1>1. pc[a] = "post" /\ UNCHANGED <<queueOf, acolor, booted>>
        BY DEF RegisterTask, bootVars
  <1>2. CASE writes' = writes
    <2>1. EndPost(a)
          BY <1>2 DEF RegisterTask
    <2>2. CASE a # Main /\ posting[a].cb = "acheck"
          BY <1>1, <2>1, <2>2 DEF EndPost
    <2>3. CASE ~(a # Main /\ posting[a].cb = "acheck")
          BY <1>1, <2>1, <2>3 DEF EndPost
    <2> QED BY <2>2, <2>3
  <1>3. CASE writes' # writes
    <2>1. Wakes(a, posting[a])
          BY <1>3 DEF RegisterTask, wakeVars
    <2>2. posting[a].cb # "acheck"
          BY <2>1 DEF Wakes
    <2>3. pc' = [pc EXCEPT ![a] = "notify"] /\ UNCHANGED <<running, postVars>>
          BY <1>3 DEF RegisterTask
    <2> QED BY <1>1, <2>2, <2>3 DEF postVars
  <1> QED BY <1>2, <1>3

(* register_task as a whole.                                               *)
LEMMA RegisterTaskSafe ==
  ASSUME SafeInv, NEW a \in Actors, RegisterTask(a)
  PROVE  ListInv' /\ FlowInv'
  <1> USE DEF SafeInv
  <1>0. PICK d, l, p : /\ d = dest[a] /\ p = posting[a]
                       /\ l = ListOf(p.color, d)
        OBVIOUS
  <1>1. /\ pc[a] = "post" /\ UNCHANGED <<queueOf, acolor, booted>>
        /\ \A b \in Actors : b # a => /\ pc'[b] = pc[b]
                                      /\ posting'[b] = posting[b]
                                      /\ dest'[b] = dest[b]
        /\ \A t \in Threads : t # a => running'[t] = running[t]
        /\ \/ /\ pc'[a] = "run" /\ (a # Main => p.cb # "acheck")
              /\ running' = running
           \/ /\ pc'[a] = "notify" /\ p.cb # "acheck"
              /\ running' = running
              /\ posting'[a] = posting[a] /\ dest'[a] = dest[a]
           \/ pc'[a] = "loop" /\ a # Main /\ p.cb = "acheck"
        BY <1>0, RegisteredControl
  <1>2. \A t \in Threads : Executing(t)' => Executing(t)
        BY <1>1, Names DEF Executing
  <1>3. ListInv'
        BY <1>2, RegisterListsSafe
  <1>4. GoesHome(a)
        BY DEF FlowInv, Posting
  <1>5. /\ d \in Threads /\ l \in Lists
        /\ \A x \in Lists : ToSet(tailSeg[x]) \subseteq ToSet(tailSeg'[x])
        /\ p.last => p.cb \in ToSet(tailSeg'[l])
    <2>1. /\ d \in Threads /\ l \in Lists
          /\ \A x \in Lists : x # l => tailSeg'[x] = tailSeg[x]
          /\ ToSet(tailSeg[l]) \subseteq ToSet(tailSeg'[l])
          /\ p.last => p.cb \in ToSet(tailSeg'[l])
          BY <1>0, RegisteredLists
    <2> QED BY <2>1
  <1>6. \A t \in Threads : PollingQueued(t) => PollingQueued(t)'
        BY <1>5, Names DEF PollingQueued
  <1>7. p.cb = "acheck" => \A t \in Threads :
                            p.color = NegList(t) => PollingQueued(t)'
    <2> SUFFICES ASSUME p.cb = "acheck", NEW t \in Threads,
                        p.color = NegList(t)
                 PROVE  PollingQueued(t)'
        OBVIOUS
    <2>1. p.last /\ p.color = NegList(d)
          BY <1>0, <1>1, <1>4, Names DEF GoesHome
    <2>2. l = NegList(t)
      <3>1. p.color < 0
            BY Names
      <3>2. l = NegList(d)
            BY <1>0, <3>1 DEF ListOf
      <3> QED BY <2>1, <3>2
    <2> QED BY <1>5, <2>1, <2>2 DEF PollingQueued
  <1>8. Posting'
    <2>1. GoesHome(a)'
      <3>1. CASE pc'[a] = "notify"
            BY <1>0, <1>1, <1>4, <3>1 DEF GoesHome
      <3>2. CASE pc'[a] # "notify"
            BY <1>1, <3>2 DEF GoesHome
      <3> QED BY <3>1, <3>2
    <2>2. ASSUME NEW b \in Actors, b # a PROVE GoesHome(b)'
          BY <1>1, <2>2 DEF FlowInv, Posting, GoesHome
    <2> QED BY <2>1, <2>2 DEF Posting
  <1>9. NotStealing'
        BY <1>1, Names DEF FlowInv, NotStealing
  <1>10. Polling'
    <2> SUFFICES ASSUME NEW t \in Threads,
                        \/ InLoop(t)'
                        \/ Executing(t)' /\ running'[t] # "acheck"
                 PROVE  PollingQueued(t)'
        BY DEF Polling
    <2>1. CASE t = a /\ p.cb = "acheck"
      <3>1. p.color = NegList(t)
            BY <1>0, <1>1, <1>4, <2>1, Names DEF GoesHome
      <3> QED BY <1>7, <2>1, <3>1
    <2>2. CASE t = a /\ p.cb # "acheck"
      <3>1. Executing(t) /\ running'[t] = running[t] /\ ~InLoop(t)'
            BY <1>1, <2>2 DEF Executing, InLoop
      <3> QED BY <1>6, <3>1 DEF FlowInv, Polling
    <2>3. CASE t # a
      <3>1. pc'[t] = pc[t] /\ running'[t] = running[t]
            BY <1>1, <2>3, Names
      <3> QED BY <1>6, <3>1 DEF FlowInv, Polling, Executing, InLoop
    <2> QED BY <2>1, <2>2, <2>3
  <1>11. Starting'
    <2> SUFFICES ASSUME pc'[Main] # "join" PROVE Starting'
        BY DEF Starting
    <2>1. a = Main
      <3>1. ASSUME a # Main PROVE FALSE
        <4>1. a \in Threads /\ pc[Main] = "join"
              BY <1>1, <3>1, Names, Joined
        <4> QED BY <1>1, <3>1, <4>1, Names
      <3> QED BY <3>1
    <2>2. pc[Main] # "join" /\ \A t \in Threads : pc'[t] = pc[t]
          BY <1>1, <2>1, Names
    <2> SUFFICES ASSUME NEW t \in Threads,
                        booted >= Len(BootProgram) + 2 * (t + 1)
                 PROVE  PollingQueued(t)'
        BY <1>1, <2>2 DEF FlowInv, Starting
    <2>3. CASE PollingQueued(t)
          BY <1>6, <2>3
    <2>4. CASE ~PollingQueued(t)
      <3>1. posting[Main].cb = "acheck" /\ posting[Main].color = NegList(t)
            BY <2>2, <2>4 DEF FlowInv, Starting
      <3> QED BY <1>0, <1>7, <2>1, <3>1
    <2> QED BY <2>3, <2>4
  <1> QED BY <1>3, <1>8, <1>9, <1>10, <1>11 DEF FlowInv

-----------------------------------------------------------------------------
(* task_thread_loop: the next callback *)

(* The thread always finds a callback: its polling task at least. *)
LEMMA NextTaskRuns ==
  ASSUME SafeInv, NEW t \in Threads, NextTask(t),
         NEW l, l = Head(Retired(t).list)
  PROVE  /\ InLoop(t) /\ PollingQueued(t)
         /\ l \in Lists /\ l \in ToSet(colorList[t])
         /\ l \in ToSet(Retired(t).list)
         /\ NbCallbacks(l) > 0
         /\ Run(t, l) /\ pc' = [pc EXCEPT ![t] = "run"]
  <1> DEFINE list == Retired(t).list
             n    == NegList(t)
  <1> USE DEF SafeInv, ListInv
  <1>1. InLoop(t) /\ PollingQueued(t)
        BY DEF NextTask, InLoop, FlowInv, Polling
  <1>2. n \in Lists /\ HomeOf(n, t)
        BY Names DEF HomeOf
  <1>3. NbCallbacks(n) > 0
    <2>1. tailSeg[n] \in Seq(Tasks) /\ tailSeg[n] # <<>>
          BY <1>1, <1>2, NbCallbacksType, EmptyList
          DEF PollingQueued, TypeInv, TypeOK
    <2> QED BY <1>2, <2>1, NbCallbacksType DEF TypeInv, TypeOK
  <1>4. /\ list \in Seq(Lists) /\ ToSet(list) \subseteq ToSet(colorList[t])
        /\ \A x \in ToSet(colorList[t]) :
             x # acolor[t] \/ NbCallbacks(x) > 0 => x \in ToSet(list)
        /\ \A x \in Lists :
             x = acolor[t] /\ NbCallbacks(x) = 0 => x \notin ToSet(list)
        BY RetiredList DEF TypeInv, TypeOK, Current, NoDuplicates
  <1> HIDE DEF list
  <1>5. n \in ToSet(list)
        BY <1>2, <1>3, <1>4 DEF Chained
  <1>6. list # <<>>
        BY <1>5, EmptyList
  <1>7. l \in ToSet(list) /\ l \in Lists
        BY <1>4, <1>6, HeadOf, ElementsOf DEF list
  <1>8. NbCallbacks(l) > 0
    <2>1. NbCallbacks(l) \in Nat
          BY <1>7, NbCallbacksType DEF TypeInv, TypeOK
    <2> QED BY <1>4, <1>7, <2>1 DEF Useful
  <1>9. Run(t, l) /\ pc' = [pc EXCEPT ![t] = "run"]
        BY <1>6, <1>8 DEF NextTask, list
  <1> QED BY <1>1, <1>4, <1>7, <1>8, <1>9 DEF list

(* What running the first callback of l does to the lists. *)
LEMMA RunLists ==
  ASSUME ListsOK, CountsOK, NEW t \in Threads, NEW l \in Lists,
         NbCallbacks(l) > 0, Run(t, l)
  PROVE  /\ \A x \in Lists : x # l => /\ headSeg'[x] = headSeg[x]
                                      /\ tailSeg'[x] = tailSeg[x]
         /\ NbCallbacks(l)' = NbCallbacks(l) - 1
         /\ acolor' = [acolor EXCEPT ![t] = l]
         /\ running' = [running EXCEPT ![t] = First(l)]
         /\ stealList' = [stealList EXCEPT
                            ![t] = IF NbCallbacks(l) = 1 THEN Unlinked(@, l)
                                   ELSE @]
         /\ First(l) # "acheck" /\ "acheck" \in ToSet(tailSeg[l])
              => "acheck" \in ToSet(tailSeg'[l])
  <1> DEFINE h == Len(headSeg[l])
             k == Len(tailSeg[l])
  <1>1. /\ headSeg \in [Lists -> Seq(Tasks)]
        /\ tailSeg \in [Lists -> Seq(Tasks)]
        /\ h \in Nat /\ k \in Nat /\ NbCallbacks(l) = h + k
        /\ headSeg[l] # <<>> \/ tailSeg[l] # <<>>
    <2>1. headSeg[l] \in Seq(Tasks) /\ tailSeg[l] \in Seq(Tasks)
          BY DEF ListsOK
    <2>2. h \in Nat /\ k \in Nat
          BY <2>1, ElementsOf
    <2> QED BY <2>2, NbCallbacksType DEF ListsOK, NbCallbacks
  <1>2. /\ acolor' = [acolor EXCEPT ![t] = l]
        /\ running' = [running EXCEPT ![t] = First(l)]
        /\ stealList' = [stealList EXCEPT
                            ![t] = IF NbCallbacks(l) = 1 THEN Unlinked(@, l)
                                   ELSE @]
        BY DEF Run
  <1>3. NbCallbacks(l)' = Len(headSeg'[l]) + Len(tailSeg'[l])
        BY DEF NbCallbacks
  <1>4. CASE headSeg[l] # <<>>
    <2>1. headSeg' = [headSeg EXCEPT ![l] = Tail(@)] /\ tailSeg' = tailSeg
          BY <1>4 DEF Run
    <2>2. Len(Tail(headSeg[l])) = h - 1
          BY <1>1, <1>4, TailElements
    <2>3. Len(headSeg'[l]) = h - 1 /\ Len(tailSeg'[l]) = k
          BY <1>1, <2>1, <2>2
    <2> HIDE DEF h, k
    <2>4. NbCallbacks(l)' = NbCallbacks(l) - 1
          BY <1>1, <1>3, <2>3
    <2> QED BY <1>1, <1>2, <2>1, <2>4
  <1>5. CASE headSeg[l] = <<>>
    <2>1. tailSeg' = [tailSeg EXCEPT ![l] = Tail(@)] /\ headSeg' = headSeg
          BY <1>5 DEF Run
    <2>2. /\ Len(Tail(tailSeg[l])) = k - 1
          /\ \A x \in ToSet(tailSeg[l]) :
               x # Head(tailSeg[l]) => x \in ToSet(Tail(tailSeg[l]))
          BY <1>1, <1>5, TailElements
    <2>3. Len(tailSeg'[l]) = k - 1 /\ Len(headSeg'[l]) = h
          BY <1>1, <2>1, <2>2
    <2>4. First(l) = Head(tailSeg[l])
          BY <1>5 DEF First
    <2>5. First(l) # "acheck" /\ "acheck" \in ToSet(tailSeg[l])
            => "acheck" \in ToSet(tailSeg'[l])
          BY <1>1, <2>1, <2>2, <2>4
    <2> HIDE DEF h, k
    <2>6. NbCallbacks(l)' = NbCallbacks(l) - 1
          BY <1>1, <1>3, <2>3
    <2> QED BY <1>1, <1>2, <2>1, <2>5, <2>6
  <1> QED BY <1>4, <1>5

(* choose_task and the start of what it chose.                             *)
LEMMA NextTaskSafe ==
  ASSUME SafeInv, NEW t \in Threads, NextTask(t)
  PROVE  ListInv' /\ FlowInv'
  <1>0. PICK l, list : list = Retired(t).list /\ l = Head(list)
        OBVIOUS
  <1> USE DEF SafeInv
  <1>1. /\ InLoop(t) /\ PollingQueued(t)
        /\ l \in Lists /\ l \in ToSet(colorList[t])
        /\ l \in ToSet(list) /\ NbCallbacks(l) > 0
        /\ Run(t, l) /\ pc' = [pc EXCEPT ![t] = "run"]
        BY <1>0, NextTaskRuns
  <1>2. /\ \A x \in Lists : x # l => /\ headSeg'[x] = headSeg[x]
                                     /\ tailSeg'[x] = tailSeg[x]
        /\ NbCallbacks(l)' = NbCallbacks(l) - 1
        /\ acolor' = [acolor EXCEPT ![t] = l]
        /\ running' = [running EXCEPT ![t] = First(l)]
        /\ stealList' = [stealList EXCEPT
                            ![t] = IF NbCallbacks(l) = 1 THEN Unlinked(@, l)
                                   ELSE @]
        /\ First(l) # "acheck" /\ "acheck" \in ToSet(tailSeg[l])
             => "acheck" \in ToSet(tailSeg'[l])
        BY <1>1, RunLists DEF TypeInv, TypeOK
  <1>3. /\ colorList' = [colorList EXCEPT ![t] = list]
        /\ UNCHANGED <<queueOf, loot, posting, dest, booted>>
        BY <1>0 DEF NextTask, postVars, stealVars, bootVars
  <1>4. /\ IsInjective(list) /\ ToSet(list) \subseteq ToSet(colorList[t])
        /\ \A x \in ToSet(colorList[t]) :
             x # acolor[t] \/ NbCallbacks(x) > 0 => x \in ToSet(list)
        /\ \A x \in Lists :
             x = acolor[t] /\ NbCallbacks(x) = 0 => x \notin ToSet(list)
        BY <1>0, RetiredList
        DEF TypeInv, TypeOK, ListInv, Current, NoDuplicates
  <1>5. /\ pc'[t] = "run" /\ acolor'[t] = l /\ running'[t] = First(l)
        /\ colorList'[t] = list
        /\ stealList'[t] = IF NbCallbacks(l) = 1 THEN Unlinked(stealList[t], l)
                           ELSE stealList[t]
        /\ \A u \in Threads : u # t => /\ acolor'[u] = acolor[u]
                                       /\ running'[u] = running[u]
                                       /\ colorList'[u] = colorList[u]
                                       /\ stealList'[u] = stealList[u]
        /\ \A a \in Actors : a # t => pc'[a] = pc[a]
    <2>1. /\ acolor = [u \in Threads |-> acolor[u]]
          /\ running = [u \in Threads |-> running[u]]
          /\ colorList = [u \in Threads |-> colorList[u]]
          /\ stealList = [u \in Threads |-> stealList[u]]
          /\ pc = [u \in Actors |-> pc[u]]
          BY DEF TypeInv, TypeOK, ListsOK, ControlOK
    <2> QED BY <1>1, <1>2, <1>3, <2>1, Names
  <1>6. /\ \A x \in Lists : x # l => NbCallbacks(x)' = NbCallbacks(x)
        /\ \A x \in Lists : NbCallbacks(x)' > 0 => NbCallbacks(x) > 0
        /\ NbCallbacks(l) # 1 => NbCallbacks(l)' > 0
        /\ NbCallbacks(l) = 1 => ~(NbCallbacks(l)' > 0)
        /\ \A x \in Lists : NbCallbacks(x) \in Nat
        /\ \A x, u : HomeOf(x, u)' <=> HomeOf(x, u)
    <2>1. \A x \in Lists : x # l => NbCallbacks(x)' = NbCallbacks(x)
          BY <1>2 DEF NbCallbacks
    <2>2. \A x \in Lists : NbCallbacks(x) \in Nat
          BY NbCallbacksType DEF TypeInv, TypeOK
    <2>3. \A x, u : HomeOf(x, u)' <=> HomeOf(x, u)
          BY <1>3 DEF HomeOf
    <2> QED BY <1>1, <1>2, <2>1, <2>2, <2>3
  <1>7. HomeOf(l, t)
        BY <1>1 DEF ListInv, AtHome
  <1>8. \A u \in Threads : /\ ToSet(colorList[u]) \subseteq Lists
                           /\ ToSet(stealList[u]) \subseteq Lists
                           /\ ToSet(loot[u]) \subseteq Colors
                           /\ stealList[u] \in Seq(Colors)
    <2>1. \A u \in Threads : /\ colorList[u] \in Seq(Lists)
                             /\ stealList[u] \in Seq(Colors)
                             /\ loot[u] \in Seq(Colors)
          BY DEF TypeInv, TypeOK, ListsOK
    <2> QED BY <2>1, ElementsOf, Names
  <1>9. ListInv'
    <2> USE DEF ListInv
    <2>0. /\ ToSet(Unlinked(stealList[t], l)) \subseteq ToSet(stealList[t])
          /\ \A x \in ToSet(stealList[t]) :
               x # l => x \in ToSet(Unlinked(stealList[t], l))
          /\ IsInjective(Unlinked(stealList[t], l))
          /\ l \notin ToSet(Unlinked(stealList[t], l))
          BY <1>8, UnlinkedList DEF NoDuplicates
    <2>1. NoDuplicates'
          BY <1>3, <1>4, <1>5, <2>0 DEF NoDuplicates
    <2>2. AtHome'
          BY <1>4, <1>5, <1>6 DEF AtHome
    <2>3. Chained'
      <3> SUFFICES ASSUME NEW u \in Threads, NEW x \in Lists, HomeOf(x, u),
                          NbCallbacks(x)' > 0
                   PROVE  x \in ToSet(colorList'[u])
          BY <1>6 DEF Chained
      <3>1. x \in ToSet(colorList[u]) /\ NbCallbacks(x) > 0
            BY <1>6 DEF Chained
      <3> QED BY <1>4, <1>5, <3>1
    <2>4. Useful'
      <3> SUFFICES ASSUME NEW u \in Threads, NEW x \in ToSet(colorList'[u])
                   PROVE  NbCallbacks(x)' > 0 \/ acolor'[u] = x
          BY DEF Useful
      <3>1. x \in ToSet(colorList[u]) /\ x \in Lists
            BY <1>4, <1>5, <1>8
      <3>2. CASE u = t /\ x = l
            BY <1>5, <3>2
      <3>3. CASE u = t /\ x # l
        <4>1. NbCallbacks(x) > 0
              BY <1>4, <1>5, <1>6, <3>1, <3>3 DEF Useful
        <4> QED BY <1>6, <3>1, <3>3, <4>1
      <3>4. CASE u # t
        <4>1. x # l
              BY <1>1, <1>7, <3>1, <3>4, HomeIsOne DEF AtHome
        <4> QED BY <1>5, <1>6, <3>1, <3>4, <4>1 DEF Useful
      <3> QED BY <3>2, <3>3, <3>4
    <2>5. Current'
      <3> SUFFICES ASSUME NEW u \in Threads
                   PROVE  /\ acolor'[u] # NoList
                               => acolor'[u] \in ToSet(colorList'[u])
                          /\ Executing(u)' => acolor'[u] # NoList
          BY DEF Current
      <3>1. CASE u = t
            BY <1>1, <1>5, <3>1, Names
      <3>2. CASE u # t
            BY <1>5, <3>2, Names DEF Current, Executing
      <3> QED BY <3>1, <3>2
    <2>6. StealIn'
      <3> SUFFICES ASSUME NEW u \in Threads, NEW x \in ToSet(stealList'[u])
                   PROVE  x \in ToSet(colorList'[u]) /\ NbCallbacks(x)' > 0
          BY DEF StealIn
      <3>1. x \in ToSet(stealList[u])
            BY <1>5, <2>0
      <3>2. x \in ToSet(colorList[u]) /\ NbCallbacks(x) > 0 /\ x \in Lists
            BY <1>8, <3>1 DEF StealIn
      <3>3. x \in ToSet(colorList'[u])
            BY <1>4, <1>5, <3>2
      <3>4. CASE x = l
        <4>1. u = t
              BY <1>1, <1>7, <3>2, <3>4, HomeIsOne DEF AtHome
        <4>2. NbCallbacks(l) # 1
              BY <1>5, <2>0, <3>4, <4>1
        <4> QED BY <1>6, <3>3, <3>4, <4>2
      <3>5. CASE x # l
            BY <1>6, <3>2, <3>3, <3>5
      <3> QED BY <3>4, <3>5
    <2>7. StealAll'
      <3> SUFFICES ASSUME Stealing, NEW u \in Threads,
                          NEW x \in ToSet(colorList'[u]),
                          x >= 0, NbCallbacks(x)' > 0
                   PROVE  x \in ToSet(stealList'[u])
          BY DEF StealAll
      <3>1. x \in ToSet(colorList[u]) /\ x \in Lists
            BY <1>4, <1>5, <1>8
      <3>2. x \in ToSet(stealList[u])
            BY <1>6, <3>1 DEF StealAll
      <3>3. x = l => NbCallbacks(l) # 1
            BY <1>6
      <3> QED BY <1>5, <2>0, <3>2, <3>3
    <2>8. Looted'
      <3>1. \A u \in Threads : \A x \in ToSet(loot[u]) : NbCallbacks(x)' > 0
        <4> SUFFICES ASSUME NEW u \in Threads, NEW x \in ToSet(loot[u])
                     PROVE  NbCallbacks(x)' > 0
            OBVIOUS
        <4>1. x \in Lists /\ x \in Colors /\ queueOf[x] = Nobody
              BY <1>8, Names DEF Looted
        <4>2. x # l
          <5>1. ~(x < 0)
                BY <4>1, SchedulerAssumption DEF Colors, SchedulerAssumption
          <5> QED BY <1>7, <4>1, <5>1, Names DEF HomeOf
        <4> QED BY <1>6, <4>1, <4>2 DEF Looted
      <3> QED BY <1>3, <3>1 DEF Looted
    <2> QED BY <2>1, <2>2, <2>3, <2>4, <2>5, <2>6, <2>7, <2>8
  <1>10. FlowInv'
    <2> USE DEF FlowInv
    <2>1. pc[Main] = "join" /\ pc'[Main] = "join"
      <3>1. pc[t] # "off" /\ t # Main
            BY <1>1, Names DEF InLoop
      <3> QED BY <1>5, <3>1, Joined, Names
    <2>2. Posting'
          BY <1>3, <1>5 DEF Posting, GoesHome
    <2>3. NotStealing'
          BY <1>3, <1>5, Names DEF NotStealing
    <2>4. Polling'
      <3> SUFFICES ASSUME NEW u \in Threads,
                          \/ InLoop(u)'
                          \/ Executing(u)' /\ running'[u] # "acheck"
                   PROVE  PollingQueued(u)'
          BY DEF Polling
      <3>1. CASE u = t /\ l = NegList(t)
        <4>1. First(l) # "acheck"
              BY <1>5, <3>1 DEF InLoop
        <4> QED BY <1>1, <1>2, <3>1, <4>1 DEF PollingQueued
      <3>2. CASE u = t /\ l # NegList(t)
        <4>1. tailSeg'[NegList(t)] = tailSeg[NegList(t)]
              BY <1>2, <3>2, Names
        <4> QED BY <1>1, <3>2, <4>1 DEF PollingQueued
      <3>3. CASE u # t
        <4>1. NegList(u) # l
              BY <1>7, <3>3, Names DEF HomeOf
        <4>2. tailSeg'[NegList(u)] = tailSeg[NegList(u)]
              BY <1>2, <4>1, Names
        <4>3. PollingQueued(u)
              BY <1>5, <3>3, Names DEF Polling, InLoop, Executing
        <4> QED BY <4>2, <4>3 DEF PollingQueued
      <3> QED BY <3>1, <3>2, <3>3
    <2>5. Starting'
          BY <2>1 DEF Starting
    <2> QED BY <2>2, <2>3, <2>4, <2>5
  <1> QED BY <1>9, <1>10

-----------------------------------------------------------------------------
(* The move of a list *)

(* Stealing a color moves it from the victim to the loot, and no callback  *)
(* of it runs.                                                             *)
LEMMA StealColorSafe ==
  ASSUME SafeInv, NEW t \in Threads, StealColor(t)
  PROVE  ListInv' /\ FlowInv'
  <1>0. PICK l, v : v = victim[t] /\ l = stealList[v][Min(Stealable(v))]
        OBVIOUS
  <1> USE DEF SafeInv
  <1>1. /\ v \in Threads /\ t \in Actors /\ pc[t] = "stealing" /\ Stealing
        /\ l \in ToSet(stealList[v]) /\ l \in Colors /\ l \in Lists
        /\ l # acolor[v]
    <2>1. v \in Threads /\ t \in Actors
          BY <1>0, Names DEF TypeInv, TypeOK, ControlOK
    <2>2. pc[t] = "stealing" /\ Stealable(v) # {}
          BY <1>0 DEF StealColor
    <2>3. Stealing
          BY <2>2 DEF FlowInv, NotStealing
    <2> QED BY <1>0, <2>1, <2>2, <2>3, StolenList DEF TypeInv, TypeOK
  <1>2. NbCallbacks(l) > 0 /\ l \in ToSet(colorList[v])
        BY <1>1 DEF ListInv, StealIn
  <1>3. HomeOf(l, v) /\ ~(l < 0) /\ queueOf[l] = v
    <2>1. HomeOf(l, v)
          BY <1>1, <1>2 DEF ListInv, AtHome
    <2>2. ~(l < 0)
          BY <1>1, SchedulerAssumption DEF Colors, SchedulerAssumption
    <2> QED BY <2>1, <2>2 DEF HomeOf
  <1>4. /\ queueOf' = [queueOf EXCEPT ![l] = Nobody]
        /\ colorList' = [colorList EXCEPT ![v] = Unlinked(@, l)]
        /\ stealList' = [stealList EXCEPT ![v] = Unlinked(@, l)]
        /\ loot' = [loot EXCEPT ![t] = Append(@, l)]
        /\ UNCHANGED <<pc, acolor, headSeg, tailSeg, running, posting, dest>>
        BY <1>0, <1>2 DEF StealColor, postVars
  <1>5. /\ \A x \in Colors : x # l => queueOf'[x] = queueOf[x]
        /\ queueOf'[l] = Nobody
        /\ \A u \in Threads : u # v => /\ colorList'[u] = colorList[u]
                                       /\ stealList'[u] = stealList[u]
        /\ colorList'[v] = Unlinked(colorList[v], l)
        /\ stealList'[v] = Unlinked(stealList[v], l)
        /\ \A u \in Threads : u # t => loot'[u] = loot[u]
        /\ loot'[t] = Append(loot[t], l)
    <2>1. /\ queueOf \in [Colors -> Threads \cup {Nobody}]
          /\ colorList \in [Threads -> Seq(Lists)]
          /\ stealList \in [Threads -> Seq(Colors)]
          /\ loot \in [Threads -> Seq(Colors)]
          BY DEF TypeInv, TypeOK, ListsOK
    <2> QED BY <1>1, <1>4, <2>1
  <1>6. /\ colorList[v] \in Seq(Lists) /\ stealList[v] \in Seq(Colors)
        /\ loot[t] \in Seq(Colors)
        /\ \A u \in Threads : /\ ToSet(colorList[u]) \subseteq Lists
                              /\ ToSet(loot[u]) \subseteq Colors
    <2>1. \A u \in Threads : /\ colorList[u] \in Seq(Lists)
                             /\ stealList[u] \in Seq(Colors)
                             /\ loot[u] \in Seq(Colors)
          BY DEF TypeInv, TypeOK, ListsOK
    <2> QED BY <1>1, <2>1, ElementsOf
  <1>7. /\ \A x : NbCallbacks(x)' = NbCallbacks(x)
        /\ \A x \in Lists : \A u \in Threads :
             /\ x # l => (HomeOf(x, u)' <=> HomeOf(x, u))
             /\ ~HomeOf(l, u)'
    <2>1. \A x : NbCallbacks(x)' = NbCallbacks(x)
          BY <1>4 DEF NbCallbacks
    <2>2. ASSUME NEW x \in Lists, NEW u \in Threads, x # l
          PROVE  HomeOf(x, u)' <=> HomeOf(x, u)
      <3>1. CASE x < 0
            BY <3>1 DEF HomeOf
      <3>2. CASE ~(x < 0)
        <4>1. queueOf'[x] = queueOf[x]
              BY <1>5, <2>2, <3>2, Names
        <4> QED BY <3>2, <4>1 DEF HomeOf
      <3> QED BY <3>1, <3>2
    <2>3. \A u \in Threads : ~HomeOf(l, u)'
          BY <1>3, <1>5, Names DEF HomeOf
    <2> QED BY <2>1, <2>2, <2>3
  <1>8. \A u \in Threads : l \in ToSet(colorList[u]) => u = v
        BY <1>1, <1>3, HomeIsOne DEF ListInv, AtHome
  <1>9. \A u \in Threads : l \notin ToSet(loot[u])
        BY <1>1, <1>3, Names DEF ListInv, Looted
  <1>10. /\ ToSet(colorList'[v]) \subseteq ToSet(colorList[v])
         /\ \A x \in ToSet(colorList[v]) : x # l => x \in ToSet(colorList'[v])
         /\ IsInjective(colorList'[v]) /\ l \notin ToSet(colorList'[v])
         BY <1>1, <1>5, <1>6, UnlinkedList DEF ListInv, NoDuplicates
  <1>11. /\ ToSet(stealList'[v]) \subseteq ToSet(stealList[v])
         /\ \A x \in ToSet(stealList[v]) : x # l => x \in ToSet(stealList'[v])
         /\ IsInjective(stealList'[v]) /\ l \notin ToSet(stealList'[v])
         BY <1>1, <1>5, <1>6, UnlinkedList DEF ListInv, NoDuplicates
  <1>12. /\ ToSet(loot'[t]) = ToSet(loot[t]) \cup {l}
         /\ IsInjective(loot'[t])
         BY <1>1, <1>5, <1>6, <1>9, AppendedElements DEF ListInv, NoDuplicates
  <1>13. /\ \A u \in Threads : \A x :
              x \in ToSet(colorList'[u])
                <=> x \in ToSet(colorList[u]) /\ x # l
         /\ \A u \in Threads : \A x \in ToSet(stealList'[u]) :
               x \in ToSet(stealList[u]) /\ x # l
         /\ \A u \in Threads : \A x \in ToSet(stealList[u]) :
               x # l => x \in ToSet(stealList'[u])
    <2>1. \A u \in Threads : l \in ToSet(stealList[u]) => u = v
          BY <1>8 DEF ListInv, StealIn
    <2> QED BY <1>5, <1>8, <1>10, <1>11, <2>1
  <1>14. ListInv'
    <2> USE DEF ListInv
    <2>1. NoDuplicates'
          BY <1>5, <1>10, <1>11, <1>12 DEF NoDuplicates
    <2>2. AtHome'
          BY <1>6, <1>7, <1>13 DEF AtHome
    <2>3. Chained'
      <3> SUFFICES ASSUME NEW u \in Threads, NEW x \in Lists,
                          HomeOf(x, u)', NbCallbacks(x) > 0
                   PROVE  x \in ToSet(colorList'[u])
          BY <1>7 DEF Chained
      <3>1. x # l /\ HomeOf(x, u)
            BY <1>7
      <3> QED BY <1>13, <3>1 DEF Chained
    <2>4. Useful'
          BY <1>4, <1>7, <1>13 DEF Useful
    <2>5. Current'
      <3>1. \A u \in Threads : acolor[u] \in ToSet(colorList[u]) =>
                               acolor[u] \in ToSet(colorList'[u])
            BY <1>1, <1>8, <1>13
      <3> QED BY <1>4, <3>1 DEF Current, Executing
    <2>6. StealIn'
          BY <1>7, <1>13 DEF StealIn
    <2>7. StealAll'
          BY <1>7, <1>13 DEF StealAll
    <2>8. Looted'
      <3>1. \A u \in Threads : \A x :
              x \in ToSet(loot'[u]) <=>
                x \in ToSet(loot[u]) \/ (u = t /\ x = l)
            BY <1>5, <1>12
      <3>2. \A x \in Colors :
              queueOf'[x] = Nobody <=> \E u \in Threads : x \in ToSet(loot'[u])
            BY <1>5, <3>1 DEF Looted
      <3>3. \A u, w \in Threads : \A x \in ToSet(loot'[u]) :
              x \in ToSet(loot'[w]) => u = w
            BY <1>9, <3>1 DEF Looted
      <3>4. \A u \in Threads : \A x \in ToSet(loot'[u]) : NbCallbacks(x)' > 0
            BY <1>2, <1>7, <3>1 DEF Looted
      <3> QED BY <3>2, <3>3, <3>4 DEF Looted
    <2> QED BY <2>1, <2>2, <2>3, <2>4, <2>5, <2>6, <2>7, <2>8
  <1>15. FlowInv'
        BY <1>1, <1>4, ThreadFlow DEF InLoop
  <1> QED BY <1>14, <1>15

(* The thief chains the lists it carries.                                  *)
LEMMA InsertStolenSafe ==
  ASSUME SafeInv, NEW t \in Threads, InsertStolen(t)
  PROVE  ListInv' /\ FlowInv'
  <1>0. PICK l, s : /\ l = Head(loot[t])
                    /\ s = Slot(colorList[t], prio[l], 0, acolor[t] = NoList)
        OBVIOUS
  <1> USE DEF SafeInv
  <1>1. /\ colorList[t] \in Seq(Lists) /\ stealList[t] \in Seq(Colors)
        /\ loot[t] \in Seq(Colors)
        /\ \A u \in Threads : /\ ToSet(colorList[u]) \subseteq Lists
                              /\ ToSet(loot[u]) \subseteq Colors
    <2>1. \A u \in Threads : /\ colorList[u] \in Seq(Lists)
                             /\ stealList[u] \in Seq(Colors)
                             /\ loot[u] \in Seq(Colors)
          BY DEF TypeInv, TypeOK, ListsOK
    <2> QED BY <2>1, ElementsOf
  <1>2. /\ t \in Actors /\ pc[t] = "insert" /\ Stealing
        /\ l \in ToSet(loot[t]) /\ l \in Colors /\ l \in Lists /\ ~(l < 0)
    <2>1. pc[t] = "insert" /\ loot[t] # <<>>
          BY DEF InsertStolen
    <2>2. Stealing
          BY <2>1 DEF FlowInv, NotStealing
    <2>3. l \in ToSet(loot[t])
          BY <1>0, <1>1, <2>1, HeadOf
    <2>4. l \in Colors
          BY <1>1, <2>3
    <2>5. l \in Lists /\ ~(l < 0)
      <3>1. l \in Nat
            BY <2>4, SchedulerAssumption DEF Colors, SchedulerAssumption
      <3> QED BY <2>4, <3>1, Names
    <2> QED BY <2>1, <2>2, <2>3, <2>4, <2>5, Names
  <1>3. /\ NbCallbacks(l) > 0 /\ queueOf[l] = Nobody
        /\ \A u \in Threads : ~HomeOf(l, u) /\ l \notin ToSet(colorList[u])
    <2>1. NbCallbacks(l) > 0 /\ queueOf[l] = Nobody
          BY <1>2 DEF ListInv, Looted
    <2>2. \A u \in Threads : ~HomeOf(l, u)
          BY <1>2, <2>1, Names DEF HomeOf
    <2> QED BY <2>1, <2>2 DEF ListInv, AtHome
  <1>4. /\ loot' = [loot EXCEPT ![t] = Tail(@)]
        /\ colorList' = [colorList EXCEPT ![t] = Linked(@, s, l)]
        /\ stealList' = [stealList EXCEPT ![t] = StealLinked(@, l)]
        /\ queueOf' = [queueOf EXCEPT ![l] = t]
        /\ UNCHANGED <<pc, acolor, headSeg, tailSeg, running, posting, dest>>
        BY <1>0 DEF InsertStolen, postVars
  <1>5. /\ \A x \in Colors : x # l => queueOf'[x] = queueOf[x]
        /\ queueOf'[l] = t
        /\ \A u \in Threads : u # t => /\ colorList'[u] = colorList[u]
                                       /\ stealList'[u] = stealList[u]
                                       /\ loot'[u] = loot[u]
        /\ colorList'[t] = Linked(colorList[t], s, l)
        /\ stealList'[t] = StealLinked(stealList[t], l)
        /\ loot'[t] = Tail(loot[t])
    <2>1. /\ queueOf \in [Colors -> Threads \cup {Nobody}]
          /\ colorList \in [Threads -> Seq(Lists)]
          /\ stealList \in [Threads -> Seq(Colors)]
          /\ loot \in [Threads -> Seq(Colors)]
          BY DEF TypeInv, TypeOK, ListsOK
    <2> QED BY <1>2, <1>4, <2>1
  <1>6. /\ \A x : NbCallbacks(x)' = NbCallbacks(x)
        /\ \A x \in Lists : \A u \in Threads :
             /\ x # l => (HomeOf(x, u)' <=> HomeOf(x, u))
             /\ (HomeOf(l, u)' <=> u = t)
    <2>1. \A x : NbCallbacks(x)' = NbCallbacks(x)
          BY <1>4 DEF NbCallbacks
    <2>2. ASSUME NEW x \in Lists, NEW u \in Threads, x # l
          PROVE  HomeOf(x, u)' <=> HomeOf(x, u)
      <3>1. CASE x < 0
            BY <3>1 DEF HomeOf
      <3>2. CASE ~(x < 0)
        <4>1. queueOf'[x] = queueOf[x]
              BY <1>5, <2>2, <3>2, Names
        <4> QED BY <3>2, <4>1 DEF HomeOf
      <3> QED BY <3>1, <3>2
    <2>3. \A u \in Threads : HomeOf(l, u)' <=> u = t
          BY <1>2, <1>5 DEF HomeOf
    <2> QED BY <2>1, <2>2, <2>3
  <1>7. /\ ToSet(colorList'[t]) = ToSet(colorList[t]) \cup {l}
        /\ IsInjective(colorList'[t])
    <2>1. s \in 0 .. Len(colorList[t])
          BY <1>0, <1>1, SlotRange
    <2> QED BY <1>1, <1>2, <1>3, <1>5, <2>1, LinkedList
            DEF ListInv, NoDuplicates
  <1>8. /\ ToSet(stealList'[t]) \subseteq ToSet(stealList[t]) \cup {l}
        /\ ToSet(stealList[t]) \subseteq ToSet(stealList'[t])
        /\ l \in ToSet(stealList'[t])
        /\ IsInjective(stealList'[t])
    <2>1. l >= 0
          BY <1>2, Names
    <2> QED BY <1>1, <1>2, <1>5, <2>1, StealLinkedList
            DEF ListInv, NoDuplicates
  <1>9. /\ ToSet(loot'[t]) \subseteq ToSet(loot[t])
        /\ \A x \in ToSet(loot[t]) : x # l => x \in ToSet(loot'[t])
        /\ IsInjective(loot'[t]) /\ l \notin ToSet(loot'[t])
    <2>1. loot[t] # <<>>
          BY <1>2, EmptyList
    <2> QED BY <1>0, <1>1, <1>5, <2>1, TailElements DEF ListInv, NoDuplicates
  <1>10. /\ \A u \in Threads : \A x :
              x \in ToSet(colorList'[u]) <=>
                x \in ToSet(colorList[u]) \/ (u = t /\ x = l)
         /\ \A u \in Threads : \A x :
              x \in ToSet(stealList'[u]) <=>
                x \in ToSet(stealList[u]) \/ (u = t /\ x = l)
         /\ \A u \in Threads : \A x :
              x \in ToSet(loot'[u]) <=> x \in ToSet(loot[u]) /\ x # l
    <2>1. \A u \in Threads : l \in ToSet(loot[u]) => u = t
          BY <1>2 DEF ListInv, Looted
    <2> QED BY <1>5, <1>7, <1>8, <1>9, <2>1
  <1>11. ListInv'
    <2> USE DEF ListInv
    <2>1. NoDuplicates'
          BY <1>5, <1>7, <1>8, <1>9 DEF NoDuplicates
    <2>2. AtHome'
      <3> SUFFICES ASSUME NEW u \in Threads, NEW x \in ToSet(colorList'[u])
                   PROVE  HomeOf(x, u)'
          BY DEF AtHome
      <3>1. CASE x = l
            BY <1>2, <1>3, <1>6, <1>10, <3>1
      <3>2. CASE x # l
            BY <1>1, <1>6, <1>10, <3>2 DEF AtHome
      <3> QED BY <3>1, <3>2
    <2>3. Chained'
      <3> SUFFICES ASSUME NEW u \in Threads, NEW x \in Lists,
                          HomeOf(x, u)', NbCallbacks(x) > 0
                   PROVE  x \in ToSet(colorList'[u])
          BY <1>6 DEF Chained
      <3> QED BY <1>6, <1>10 DEF Chained
    <2>4. Useful'
          BY <1>3, <1>4, <1>6, <1>10 DEF Useful
    <2>5. Current'
          BY <1>4, <1>10 DEF Current, Executing
    <2>6. StealIn'
          BY <1>3, <1>6, <1>10 DEF StealIn
    <2>7. StealAll'
          BY <1>6, <1>10 DEF StealAll
    <2>8. Looted'
      <3>1. \A x \in Colors :
              queueOf'[x] = Nobody <=> \E u \in Threads : x \in ToSet(loot'[u])
            BY <1>5, <1>10, Names DEF Looted
      <3>2. \A u \in Threads : \A x \in ToSet(loot'[u]) : NbCallbacks(x)' > 0
            BY <1>6, <1>10 DEF Looted
      <3>3. \A u, w \in Threads : \A x \in ToSet(loot'[u]) :
              x \in ToSet(loot'[w]) => u = w
            BY <1>10 DEF Looted
      <3> QED BY <3>1, <3>2, <3>3 DEF Looted
    <2> QED BY <2>1, <2>2, <2>3, <2>4, <2>5, <2>6, <2>7, <2>8
  <1>12. FlowInv'
        BY <1>2, <1>4, ThreadFlow DEF InLoop
  <1> QED BY <1>11, <1>12

-----------------------------------------------------------------------------
(* The invariant *)

(* Every step keeps the invariant. *)
LEMMA SafeStep == ColorsFit /\ SafeInv /\ [Next]_vars => SafeInv'
  <1> SUFFICES ASSUME ColorsFit, SafeInv, [Next]_vars PROVE SafeInv'
      OBVIOUS
  <1>1. TypeInv'
        BY TypeInvStep DEF SafeInv
  <1> SUFFICES ListInv' /\ FlowInv'
      BY <1>1 DEF SafeInv
  <1>2. CASE UNCHANGED vars
    <2>1. ListInv'
          BY <1>2, ListsKept
          DEF SafeInv, vars, listVars, stealVars, Executing
    <2>2. \A a : GoesHome(a)' <=> GoesHome(a)
          BY <1>2 DEF GoesHome, vars, postVars
    <2>3. \A t : /\ PollingQueued(t)' <=> PollingQueued(t)
                 /\ InLoop(t)' <=> InLoop(t)
                 /\ Executing(t)' <=> Executing(t)
          BY <1>2 DEF vars, listVars, PollingQueued, InLoop, Executing
    <2>4. Posting' /\ NotStealing' /\ Polling' /\ Starting'
          BY <1>2, <2>2, <2>3
          DEF SafeInv, FlowInv, Posting, NotStealing, Polling, Starting, vars,
              postVars, bootVars
    <2> QED BY <2>1, <2>4 DEF FlowInv
  <1>3. ASSUME NEW a \in Actors, PostSteps(a) PROVE ListInv' /\ FlowInv'
        BY <1>3, ReadOwnerSafe, RegisterTaskSafe DEF PostSteps
  <1>4. ASSUME NEW t \in Threads, LoopSteps(t) PROVE ListInv' /\ FlowInv'
        BY <1>4, BeginStealSafe, NextTaskSafe, EndCallbackSafe DEF LoopSteps
  <1>5. ASSUME NEW t \in Threads, StealSteps(t) PROVE ListInv' /\ FlowInv'
        BY <1>5, WatchVictimSafe, StealColorSafe, InsertStolenSafe
        DEF StealSteps
  <1>6. ASSUME NEW t \in Threads, PollSteps(t) \/ Event(t)
        PROVE  ListInv' /\ FlowInv'
        BY <1>6, PollSafe, RepostSafe DEF PollSteps
  <1>7. ASSUME NEW t \in Threads, NEW c \in Callbacks, Post(t, c)
        PROVE  ListInv' /\ FlowInv'
        BY <1>7, PostSafe
  <1>8. CASE BootPost \/ TaskGo
        BY <1>8, BootPostSafe, TaskGoSafe
  <1> QED BY <1>2, <1>3, <1>4, <1>5, <1>6, <1>7, <1>8 DEF Next

(* The inductive invariant of the scheduler.                               *)
LEMMA SafeInvariant == ASSUME ColorsFit PROVE Spec => []SafeInv
  <1>1. SafeInv /\ [Next]_vars => SafeInv'
        BY SafeStep
  <1> QED BY <1>1, SafeInit, PTL DEF Spec

(* Two threads never run callbacks of one list, however colors move and    *)
(* whoever posts them: "Each thread treats a different color"              *)
(* (task.lbc.C:27), for every number of threads and colors.                *)
THEOREM ColorsExclusive == ASSUME ColorsFit PROVE Spec => []ColorExclusion
  BY SafeInvariant, ExclusionFromSafe, PTL

(* A list is chained at its owner only, once, or carried by one thief while*)
(* COLOR_TO_QUEUE says it has no owner.                                    *)
THEOREM ListsHaveOneHome == ASSUME ColorsFit PROVE Spec => []OneHome
  BY SafeInvariant, HomeFromSafe, PTL

(* A queued callback is in a list that is chained, or that a thief carries:*)
(* no post and no steal leaves it behind.                                  *)
THEOREM NothingStranded == ASSUME ColorsFit PROVE Spec => []NoStrandedTask
  BY SafeInvariant, StrandedFromSafe, PTL

(* steal_color_list is exactly the colors of a thread that hold callbacks. *)
THEOREM StealListsExact == ASSUME ColorsFit PROVE Spec => []StealListExact
  BY SafeInvariant, StealListFromSafe, PTL

-----------------------------------------------------------------------------
(* What the locks of the scheduler protect: a thief that found something   *)
(* to steal under the lock of its victim still finds it when it steals, so *)
(* that the exit of steal_work, and every other panic, is out of reach.    *)

(* Who is inside a section that takes several steps holds its lock. *)
Holding ==
  /\ \A t \in Threads : pc[t] = "stealing" => mu[victim[t]] = t
  /\ \A t \in Threads : pc[t] = "insert" => mu[t] = t
  /\ \A a \in Actors : pc[a] = "notify" => mu[dest[a]] = a

(* The test made under the lock holds until the first list is taken. *)
Found ==
  \A t \in Threads :
    pc[t] = "stealing" /\ loot[t] = <<>> => IsStealable(victim[t])

CalmInv == Holding /\ Found /\ NoPanic

-----------------------------------------------------------------------------
(* A victim worth a steal has a list that it does not run. *)
LEMMA WorthSomething ==
  ASSUME SafeInv, NEW v \in Threads, IsStealable(v)
  PROVE  Stealable(v) # {}
  <1> DEFINE s == stealList[v]
             n == Len(s)
  <1>1. s \in Seq(Colors) /\ n \in Nat
        BY ElementsOf DEF SafeInv, TypeInv, TypeOK, ListsOK
  <1>2. \A i, j \in 1 .. n : s[i] = s[j] => i = j
        BY <1>1, ElementsOf DEF SafeInv, ListInv, NoDuplicates
  <1>3. n > 1
    <2>1. PICK k \in {0, 1} : n - k > 1
          BY DEF IsStealable, Worth
    <2> HIDE DEF n
    <2> QED BY <1>1, <2>1
  <1> HIDE DEF s, n
  <1>4. 1 \in 1 .. n /\ 2 \in 1 .. n /\ 1 # 2
        BY <1>1, <1>3
  <1>5. s[1] # acolor[v] \/ s[2] # acolor[v]
        BY <1>2, <1>4
  <1> QED BY <1>4, <1>5 DEF Stealable, s, n

(* A thief without loot has not reached its quota. *)
LEMMA QuotaLeft ==
  ASSUME SafeInv, NEW t \in Threads, loot[t] = <<>>
  PROVE  ~(Len(loot[t]) >= Quota(t))
  <1> DEFINE k == Len(stealList[victim[t]])
             T == {1, (k + Len(loot[t])) \div 2}
  <1>1. k \in Nat /\ Len(loot[t]) = 0
        BY ElementsOf, EmptyList
        DEF SafeInv, TypeInv, TypeOK, ListsOK, ControlOK
  <1>2. Quota(t) = Max(T)
        BY DEF Quota
  <1> HIDE DEF k
  <1>3. (k + 0) \div 2 \in Nat /\ (k + 0) \div 2 <= k
        BY <1>1, Half
  <1>4. T \subseteq 0 .. k + 1 /\ 1 \in T /\ k + 1 \in Nat
        BY <1>1, <1>3
  <1> HIDE DEF T
  <1>5. Max(T) \in 0 .. k + 1 /\ Max(T) >= 1
        BY <1>4, MaxOfBounded
  <1>6. PICK q : q = Quota(t)
        OBVIOUS
  <1>7. q \in Int /\ q >= 1
        BY <1>1, <1>2, <1>5, <1>6
  <1> QED BY <1>1, <1>6, <1>7

(* An actor changes locks that are free or its own, and what these locks   *)
(* protect; others keep theirs.                                            *)
LEMMA ActorCalm ==
  ASSUME TypeInv, CalmInv, NEW a \in Actors,
         \A b \in Actors : b # a => pc'[b] = pc[b] /\ dest'[b] = dest[b],
         \A t \in Threads : t # a => victim'[t] = victim[t]
                                     /\ loot'[t] = loot[t],
         \A v \in Threads : mu[v] \notin {a, Nobody} =>
                              /\ mu'[v] = mu[v]
                              /\ stealList'[v] = stealList[v]
                              /\ acolor'[v] = acolor[v],
         pc'[a] # "panic",
         a \in Threads /\ pc'[a] = "insert" => mu'[a] = a,
         a \in Threads /\ pc'[a] = "stealing" =>
           /\ mu'[victim'[a]] = a
           /\ loot'[a] = <<>> => IsStealable(victim[a])',
         pc'[a] = "notify" => mu'[dest'[a]] = a
  PROVE  CalmInv'
  <1> USE DEF CalmInv, Holding
  <1>1. NoPanic'
        BY DEF NoPanic
  <1>2. Holding'
    <2>1. ASSUME NEW t \in Threads, pc'[t] = "stealing"
          PROVE  mu'[victim'[t]] = t
      <3>1. CASE t = a
            BY <2>1, <3>1
      <3>2. CASE t # a
        <4>1. pc[t] = "stealing" /\ victim'[t] = victim[t]
              BY <2>1, <3>2, Names
        <4>2. mu[victim[t]] = t /\ victim[t] \in Threads
              BY <4>1 DEF TypeInv, TypeOK, ControlOK
        <4> QED BY <3>2, <4>1, <4>2, Names
      <3> QED BY <3>1, <3>2
    <2>2. ASSUME NEW t \in Threads, pc'[t] = "insert"
          PROVE  mu'[t] = t
          BY <2>2, Names
    <2>3. ASSUME NEW b \in Actors, pc'[b] = "notify"
          PROVE  mu'[dest'[b]] = b
      <3>1. CASE b = a
            BY <2>3, <3>1
      <3>2. CASE b # a
        <4>1. pc[b] = "notify" /\ dest'[b] = dest[b]
              BY <2>3, <3>2
        <4>2. mu[dest[b]] = b /\ dest[b] \in Threads
              BY <4>1 DEF TypeInv, PostOK
        <4> QED BY <3>2, <4>1, <4>2, Names
      <3> QED BY <3>1, <3>2
    <2> QED BY <2>1, <2>2, <2>3
  <1>3. Found'
    <2> SUFFICES ASSUME NEW t \in Threads, pc'[t] = "stealing",
                        loot'[t] = <<>>
                 PROVE  IsStealable(victim[t])'
        BY DEF Found
    <2>1. CASE t = a
          BY <2>1
    <2>2. CASE t # a
      <3> DEFINE v == victim[t]
      <3>1. /\ pc[t] = "stealing" /\ loot[t] = <<>>
            /\ victim'[t] = v /\ v \in Threads
            BY <2>2, Names DEF TypeInv, TypeOK, ControlOK
      <3>2. mu[v] = t /\ IsStealable(v)
            BY <3>1 DEF Found
      <3>3. stealList'[v] = stealList[v] /\ acolor'[v] = acolor[v]
            BY <2>2, <3>1, <3>2, Names
      <3> QED BY <3>1, <3>2, <3>3 DEF IsStealable, Worth
    <2> QED BY <2>1, <2>2
  <1> QED BY <1>1, <1>2, <1>3

(* Steps outside of the locked sections. *)
LEMMA UnlockedCalm ==
  ASSUME TypeInv, CalmInv, NEW a \in Actors,
         \A b \in Actors : b # a => pc'[b] = pc[b] /\ dest'[b] = dest[b],
         \A t \in Threads : t # a => victim'[t] = victim[t],
         UNCHANGED <<mu, stealList, acolor, loot>>,
         pc'[a] \notin {"panic", "insert", "stealing", "notify"}
  PROVE  CalmInv'
  BY ActorCalm

-----------------------------------------------------------------------------
(* register_task *)

(* The first step of a post keeps CalmInv. *)
LEMMA BeginPostCalm ==
  ASSUME TypeInv, CalmInv, NEW a \in Actors, NEW p, BeginPost(a, p),
         UNCHANGED <<mu, stealList, acolor, stealVars>>
  PROVE  CalmInv'
  <1>1. pc'[a] \in {"read", "post"}
        /\ \A b \in Actors : b # a => pc'[b] = pc[b] /\ dest'[b] = dest[b]
        BY DEF BeginPost, TypeInv, TypeOK, ControlOK
  <1> QED BY <1>1, UnlockedCalm DEF stealVars

(* register_task reads the owner and takes its lock.                       *)
LEMMA ReadCalm ==
  ASSUME TypeInv, CalmInv, NEW a \in Actors, ReadOwner(a) \/ RetryPost(a)
  PROVE  CalmInv'
  <1>1. pc'[a] \in {"read", "post"}
        /\ \A b \in Actors : b # a => pc'[b] = pc[b] /\ dest'[b] = dest[b]
        BY DEF ReadOwner, RetryPost, TypeInv, TypeOK, ControlOK
  <1>2. UNCHANGED <<mu, stealList, acolor, loot, victim>>
        BY DEF ReadOwner, RetryPost, stealVars, listVars
  <1> QED BY <1>1, <1>2, UnlockedCalm

(* The end of a post moves no other actor.                                 *)
LEMMA EndPostStep ==
  ASSUME TypeInv, NEW a \in Actors, EndPost(a)
  PROVE  /\ pc'[a] \in {"run", "loop"}
         /\ \A b \in Actors : b # a => pc'[b] = pc[b] /\ dest'[b] = dest[b]
  BY DEF EndPost, TypeInv, TypeOK, ControlOK

(* register_task under the lock of the owner.                              *)
LEMMA RegisterTaskCalm ==
  ASSUME TypeInv, CalmInv, NEW a \in Actors, RegisterTask(a)
  PROVE  CalmInv'
  <1> DEFINE d == dest[a]
  <1>1. /\ d \in Threads /\ mu[d] = Nobody
        /\ UNCHANGED <<acolor, victim, loot>>
        BY DEF RegisterTask, stealVars, TypeInv, PostOK
  <1>2. \A v \in Threads : v # d => stealList'[v] = stealList[v]
        BY DEF RegisterTask, RegisterCb, TypeInv, TypeOK, ListsOK
  <1>3. CASE writes' = writes
    <2>1. EndPost(a) /\ UNCHANGED mu
          BY <1>3 DEF RegisterTask
    <2> QED BY <1>1, <1>2, <2>1, EndPostStep, ActorCalm
  <1>4. CASE writes' # writes
    <2>1. /\ pc' = [pc EXCEPT ![a] = "notify"]
          /\ mu' = [mu EXCEPT ![d] = a] /\ dest' = dest
          BY <1>4 DEF RegisterTask, postVars
    <2>2. /\ pc'[a] = "notify" /\ mu'[d] = a
          /\ \A b \in Actors : b # a => pc'[b] = pc[b]
          /\ \A v \in Threads : v # d => mu'[v] = mu[v]
          BY <1>1, <2>1 DEF TypeInv, TypeOK, ControlOK
    <2> QED BY <1>1, <1>2, <2>1, <2>2, ActorCalm
  <1> QED BY <1>3, <1>4

(* wakeup_fdwatcher, without a lock.                                       *)
LEMMA NotifyCalm ==
  ASSUME TypeInv, CalmInv, NEW a \in Actors, Notify(a)
  PROVE  CalmInv'
  <1> DEFINE d == dest[a]
  <1>1. /\ d \in Threads /\ mu[d] = a
        /\ mu' = [mu EXCEPT ![d] = Nobody] /\ EndPost(a)
        /\ UNCHANGED <<acolor, stealList, victim, loot>>
        BY DEF Notify, listVars, stealVars, TypeInv, PostOK, CalmInv, Holding
  <1>2. \A v \in Threads : v # d => mu'[v] = mu[v]
        BY <1>1 DEF TypeInv, TypeOK, ControlOK
  <1> QED BY <1>1, <1>2, EndPostStep, ActorCalm

-----------------------------------------------------------------------------
(* task_thread_loop and steal_work *)

(* Taking the next callback keeps CalmInv. *)
LEMMA NextTaskCalm ==
  ASSUME SafeInv, CalmInv, NEW t \in Threads, NextTask(t)
  PROVE  CalmInv'
  <1> USE DEF SafeInv
  <1> DEFINE l == Head(Retired(t).list)
  <1>1. t \in Actors /\ Run(t, l) /\ pc' = [pc EXCEPT ![t] = "run"]
        BY NextTaskRuns, Names
  <1>2. mu[t] \in {t, Nobody}
        BY DEF NextTask, CalmInv, Holding
  <1>3. /\ mu' = [mu EXCEPT ![t] = Nobody]
        /\ UNCHANGED <<dest, victim, loot>>
        BY DEF NextTask, postVars, stealVars
  <1>4. /\ pc'[t] = "run" /\ \A b \in Actors : b # t => pc'[b] = pc[b]
        /\ \A v \in Threads : v # t => mu'[v] = mu[v]
        BY <1>1, <1>3 DEF TypeInv, TypeOK, ControlOK
  <1>5. \A v \in Threads : v # t => /\ stealList'[v] = stealList[v]
                                    /\ acolor'[v] = acolor[v]
        BY <1>1 DEF Run, TypeInv, TypeOK, ListsOK
  <1> QED BY <1>1, <1>2, <1>3, <1>4, <1>5, ActorCalm

(* Steps of the loop without a lock.                                       *)
LEMMA LoopCalm ==
  ASSUME TypeInv, CalmInv, NEW t \in Threads,
         BeginSteal(t) \/ EndCallback(t) \/ Poll(t) \/ Event(t)
  PROVE  CalmInv'
  <1>1. /\ t \in Actors /\ UNCHANGED <<mu, stealList, acolor, loot, dest>>
        /\ \A u \in Threads : u # t => victim'[u] = victim[u]
        BY Names DEF BeginSteal, EndCallback, Poll, Event, listVars, postVars,
                     stealVars, TypeInv, TypeOK, ControlOK
  <1>2. /\ pc'[t] \in {"victim", "loop", "run"}
        /\ \A b \in Actors : b # t => pc'[b] = pc[b]
        BY <1>1 DEF BeginSteal, EndCallback, Poll, Event, TypeInv, TypeOK,
                    ControlOK
  <1> QED BY <1>1, <1>2, UnlockedCalm

(* Advance moves to another victim, or back to the queue of the thread. *)
LEMMA AdvanceCalm ==
  ASSUME TypeInv, CalmInv, NEW t \in Threads, Advance(t),
         UNCHANGED <<mu, stealList, acolor, loot, dest>>
  PROVE  CalmInv'
  <1>1. /\ t \in Actors /\ pc'[t] \in {"relock", "victim"}
        /\ \A u \in Actors : u # t => pc'[u] = pc[u]
        BY AdvanceStep, Names
  <1>2. \A u \in Threads : u # t => victim'[u] = victim[u]
        BY DEF Advance, TypeInv, TypeOK, ControlOK
  <1> QED BY <1>1, <1>2, UnlockedCalm

(* The steps of steal_work that look at the victim and lock it.            *)
LEMMA VictimCalm ==
  ASSUME TypeInv, CalmInv, NEW t \in Threads,
         CheckVictim(t) \/ LockVictim(t) \/ Relock(t)
  PROVE  CalmInv'
  <1> DEFINE v == victim[t]
  <1>1. /\ t \in Actors /\ v \in Threads
        /\ UNCHANGED <<stealList, acolor, loot, dest>>
        BY Names DEF CheckVictim, LockVictim, Relock, listVars, postVars,
                     stealVars, TypeInv, TypeOK, ControlOK
  <1>2. CASE Advance(t) /\ (CheckVictim(t) \/ LockVictim(t)) /\ mu' = mu
        BY <1>1, <1>2, AdvanceCalm
  <1>3. CASE /\ CheckVictim(t) /\ pc' = [pc EXCEPT ![t] = "lockvictim"]
             /\ UNCHANGED <<victim, mu>>
    <2>1. /\ pc'[t] = "lockvictim"
          /\ \A b \in Actors : b # t => pc'[b] = pc[b]
          BY <1>1, <1>3 DEF TypeInv, TypeOK, ControlOK
    <2> QED BY <1>1, <1>3, <2>1, UnlockedCalm
  <1>4. CASE LockVictim(t) /\ IsStealable(v)
    <2>1. /\ mu[v] = Nobody /\ mu' = [mu EXCEPT ![v] = t]
          /\ pc' = [pc EXCEPT ![t] = "stealing"] /\ victim' = victim
          BY <1>4 DEF LockVictim
    <2>2. /\ pc'[t] = "stealing" /\ mu'[v] = t
          /\ \A b \in Actors : b # t => pc'[b] = pc[b]
          /\ \A u \in Threads : u # v => mu'[u] = mu[u]
          BY <1>1, <2>1 DEF TypeInv, TypeOK, ControlOK
    <2>3. IsStealable(victim[t])'
          BY <1>1, <1>4, <2>1 DEF IsStealable, Worth
    <2> QED BY <1>1, <2>1, <2>2, <2>3, ActorCalm
  <1>5. CASE Relock(t)
    <2>1. /\ mu[t] = Nobody /\ mu' = [mu EXCEPT ![t] = t]
          /\ pc' = [pc EXCEPT ![t] = "insert"] /\ victim' = victim
          BY <1>5 DEF Relock, stealVars
    <2>2. /\ pc'[t] = "insert" /\ mu'[t] = t
          /\ \A b \in Actors : b # t => pc'[b] = pc[b]
          /\ \A u \in Threads : u # t => mu'[u] = mu[u]
          BY <1>1, <2>1 DEF TypeInv, TypeOK, ControlOK
    <2> QED BY <1>1, <2>1, <2>2, ActorCalm
  <1> QED BY <1>2, <1>3, <1>4, <1>5 DEF CheckVictim, LockVictim

(* The victim has a color to take, as the test under its lock said.        *)
LEMMA StealColorCalm ==
  ASSUME SafeInv, CalmInv, NEW t \in Threads, StealColor(t)
  PROVE  CalmInv'
  <1>0. PICK l, v : v = victim[t] /\ l = stealList[v][Min(Stealable(v))]
        OBVIOUS
  <1> USE DEF SafeInv
  <1>1. /\ t \in Actors /\ v \in Threads /\ pc[t] = "stealing"
        /\ mu[v] = t /\ Stealable(v) # {}
        BY <1>0, Names
        DEF StealColor, CalmInv, Holding, TypeInv, TypeOK, ControlOK
  <1>2. l \in ToSet(stealList[v]) /\ l \in Colors
        BY <1>0, <1>1, StolenList DEF TypeInv, TypeOK
  <1>3. NbCallbacks(l) > 0
        BY <1>1, <1>2 DEF ListInv, StealIn
  <1>4. /\ stealList' = [stealList EXCEPT ![v] = Unlinked(@, l)]
        /\ loot' = [loot EXCEPT ![t] = Append(@, l)]
        /\ UNCHANGED <<pc, mu, acolor, dest, victim>>
        BY <1>0, <1>3 DEF StealColor, postVars
  <1>5. /\ \A u \in Threads : u # v => stealList'[u] = stealList[u]
        /\ \A u \in Threads : u # t => loot'[u] = loot[u]
        BY <1>1, <1>4 DEF TypeInv, TypeOK, ListsOK
  <1>6. loot'[t] # <<>>
    <2>1. loot[t] \in Seq(Colors) /\ loot'[t] = Append(loot[t], l)
          BY <1>4 DEF TypeInv, TypeOK, ListsOK
    <2>2. Len(loot[t]) \in Nat /\ Len(loot'[t]) = Len(loot[t]) + 1
          BY <1>2, <2>1, AppendedElements, ElementsOf
    <2>3. Len(loot'[t]) # 0
          BY <2>2
    <2> QED BY <2>3, EmptyList
  <1> QED BY <1>0, <1>1, <1>4, <1>5, <1>6, ActorCalm

(* The thief leaves the victim with a color, or having found none.         *)
LEMMA LeaveVictimCalm ==
  ASSUME SafeInv, CalmInv, NEW t \in Threads, LeaveVictim(t)
  PROVE  CalmInv'
  <1> USE DEF SafeInv
  <1> DEFINE v == victim[t]
  <1>1. /\ t \in Actors /\ v \in Threads /\ pc[t] = "stealing" /\ mu[v] = t
        BY Names
        DEF LeaveVictim, CalmInv, Holding, TypeInv, TypeOK, ControlOK
  <1>2. loot[t] # <<>>
    <2> SUFFICES ASSUME loot[t] = <<>> PROVE FALSE
        OBVIOUS
    <2>1. Stealable(v) # {}
          BY <1>1, WorthSomething DEF CalmInv, Found
    <2> QED BY <2>1, QuotaLeft DEF LeaveVictim
  <1>3. /\ mu' = [mu EXCEPT ![v] = Nobody]
        /\ pc' = [pc EXCEPT ![t] = "relock"]
        /\ victim' = [victim EXCEPT ![t] = 0]
        /\ UNCHANGED <<stealList, acolor, loot, dest>>
        BY <1>2 DEF LeaveVictim, listVars, postVars
  <1>4. /\ pc'[t] = "relock" /\ \A b \in Actors : b # t => pc'[b] = pc[b]
        /\ \A u \in Threads : u # v => mu'[u] = mu[u]
        /\ \A u \in Threads : u # t => victim'[u] = victim[u]
        BY <1>1, <1>3 DEF TypeInv, TypeOK, ControlOK
  <1> QED BY <1>1, <1>3, <1>4, ActorCalm

(* The thief inserts what it took.                                         *)
LEMMA InsertStolenCalm ==
  ASSUME TypeInv, CalmInv, NEW t \in Threads, InsertStolen(t)
  PROVE  CalmInv'
  <1>1. /\ t \in Actors /\ pc[t] = "insert" /\ mu[t] = t
        /\ UNCHANGED <<pc, mu, acolor, dest, victim>>
        BY Names DEF InsertStolen, CalmInv, Holding, postVars
  <1>2. /\ \A u \in Threads : u # t => stealList'[u] = stealList[u]
        /\ \A u \in Threads : u # t => loot'[u] = loot[u]
        BY DEF InsertStolen, TypeInv, TypeOK, ListsOK
  <1> QED BY <1>1, <1>2, ActorCalm

-----------------------------------------------------------------------------
(* task_go: nobody steals yet.                                             *)
LEMMA TaskGoCalm ==
  ASSUME TypeInv, CalmInv, TaskGo
  PROVE  CalmInv'
  <1>1. \A a \in Actors : pc'[a] \in {"join", "loop"}
        BY DEF TaskGo
  <1> QED BY <1>1, Names DEF CalmInv, Holding, Found, NoPanic

(* Every step keeps the panics out of reach.                               *)
LEMMA CalmStep == SafeInv /\ CalmInv /\ [Next]_vars => CalmInv'
  <1> SUFFICES ASSUME SafeInv, CalmInv, [Next]_vars PROVE CalmInv'
      OBVIOUS
  <1>0. TypeInv
        BY DEF SafeInv
  <1>1. CASE UNCHANGED vars
        BY <1>1
        DEF CalmInv, Holding, Found, NoPanic, IsStealable, Worth, vars,
            listVars, postVars, stealVars
  <1>2. ASSUME NEW a \in Actors, PostSteps(a) PROVE CalmInv'
        BY <1>0, <1>2, ReadCalm, RegisterTaskCalm, NotifyCalm DEF PostSteps
  <1>3. ASSUME NEW t \in Threads, NEW c \in Callbacks, Post(t, c)
        PROVE  CalmInv'
        BY <1>0, <1>3, BeginPostCalm, Names DEF Post, listVars
  <1>4. ASSUME NEW t \in Threads, LoopSteps(t) \/ Event(t) PROVE CalmInv'
        BY <1>0, <1>4, NextTaskCalm, LoopCalm DEF LoopSteps
  <1>5. ASSUME NEW t \in Threads, StealSteps(t) PROVE CalmInv'
        BY <1>0, <1>5, VictimCalm, StealColorCalm, LeaveVictimCalm,
           InsertStolenCalm
        DEF StealSteps
  <1>6. ASSUME NEW t \in Threads, PollSteps(t) PROVE CalmInv'
    <2>1. CASE Poll(t)
          BY <1>0, <2>1, LoopCalm
    <2>2. CASE Repost(t)
          BY <1>0, <2>2, BeginPostCalm, Names DEF Repost, listVars
    <2> QED BY <1>6, <2>1, <2>2 DEF PollSteps
  <1>7. CASE BootPost
        BY <1>0, <1>7, BeginPostCalm, Names DEF BootPost, listVars
  <1>8. CASE TaskGo
        BY <1>0, <1>8, TaskGoCalm
  <1> QED BY <1>1, <1>2, <1>3, <1>4, <1>5, <1>6, <1>7, <1>8 DEF Next

(* The invariant of the locks.                                             *)
LEMMA CalmInvariant == ASSUME ColorsFit PROVE Spec => []CalmInv
  <1>1. Init => CalmInv
        BY Names DEF Init, CalmInv, Holding, Found, NoPanic
  <1> QED BY <1>1, SafeInvariant, CalmStep, PTL DEF Spec

(* No panic and no exit of the scheduler is reached: choose_task finds a   *)
(* task, and a thief that locked a victim worth a steal gets a color       *)
(* (task.lbc.C:782), because the lock keeps the steal list and ACOLOR of   *)
(* the victim as they were tested.                                         *)
THEOREM NothingPanics == ASSUME ColorsFit PROVE Spec => []NoPanic
  BY CalmInvariant, PTL DEF CalmInv
=============================================================================
