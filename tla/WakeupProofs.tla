----------------------------- MODULE WakeupProofs -----------------------------
(***************************************************************************)
(* What holds of the wakeup protocol for every number of threads.          *)
(***************************************************************************)
EXTENDS Wakeup, TLAPS

(* epoll_active tells where the watcher is, and what it says when it is    *)
(* down while the watcher is blocked: somebody took the duty to write.     *)
ActiveOnlyInWait ==
  \A w \in Watchers : active[w] => at[w] \in {"poll", "block", "late", "returned"}

DownMeansWoken ==
  \A w \in Watchers :
    Asleep(w) /\ ~active[w] => pipe[w] \/ Announced(w)

AskedMeansDown ==
  \A w \in Watchers : Asleep(w) /\ nowait[w] => ~active[w]

WakeInv == TypeOK /\ ActiveOnlyInWait /\ DownMeansWoken /\ AskedMeansDown

-----------------------------------------------------------------------------
(* The type of every variable is kept by all steps of the protocol. *)
LEMMA TypeInit == Init => TypeOK
  BY DEF Init, TypeOK, Places

(* The type invariant is inductive. *)
LEMMA TypeStep == TypeOK /\ [Next]_vars => TypeOK'
  <1> SUFFICES ASSUME TypeOK, [Next]_vars PROVE TypeOK'
      OBVIOUS
  <1> USE DEF TypeOK, Places
  <1>1. CASE UNCHANGED vars
        BY <1>1 DEF vars
  <1>2. ASSUME NEW w \in Watchers,
               Watch(w) \/ ReturnEvent(w) \/ TimerDue(w)
        PROVE  TypeOK'
    <2>1. CASE InitPrivate(w)  BY <2>1 DEF InitPrivate
    <2>2. CASE EnterEpoll(w)   BY <2>2 DEF EnterEpoll, Waits
    <2>3. CASE Return(w)       BY <2>3 DEF Return
    <2>4. CASE ClearActive(w)  BY <2>4 DEF ClearActive
    <2>5. CASE DrainPipe(w)    BY <2>5 DEF DrainPipe
    <2>6. CASE Leave(w)        BY <2>6 DEF Leave
    <2>7. CASE ReturnEvent(w)  BY <2>7 DEF ReturnEvent
    <2>8. CASE TimerDue(w)     BY <2>8 DEF TimerDue
    <2> QED BY <1>2, <2>1, <2>2, <2>3, <2>4, <2>5, <2>6, <2>7, <2>8 DEF Watch
  <1>3. ASSUME NEW k \in Wakers, NEW w \in Watchers, Signal(k, w)
        PROVE  TypeOK'
        BY <1>3 DEF Signal
  <1>4. ASSUME NEW k \in Wakers, NEW w \in Watchers, Write(k, w)
        PROVE  TypeOK'
        BY <1>4 DEF Write
  <1> QED BY <1>1, <1>2, <1>3, <1>4 DEF Next

(* The flags, the pipe, the announced writes and the place of each watcher *)
(* keep their types whatever the threads and the order of their steps.     *)
THEOREM TypeCorrect == Spec => []TypeOK
  BY TypeInit, TypeStep, PTL DEF Spec

-----------------------------------------------------------------------------
(* A step of the watcher w leaves the other watchers and the writes alone. *)
LEMMA WatcherStep ==
  ASSUME WakeInv, NEW w \in Watchers,
         Watch(w) \/ ReturnEvent(w) \/ TimerDue(w)
  PROVE  /\ ActiveOnlyInWait' /\ DownMeansWoken' /\ AskedMeansDown'
  <1> USE DEF WakeInv, TypeOK, ActiveOnlyInWait, DownMeansWoken,
              AskedMeansDown, Announced, Asleep
  <1>1. CASE InitPrivate(w)  BY <1>1 DEF InitPrivate
  <1>2. CASE EnterEpoll(w)   BY <1>2 DEF EnterEpoll, Waits
  <1>3. CASE Return(w)       BY <1>3 DEF Return
  <1>4. CASE ClearActive(w)  BY <1>4 DEF ClearActive
  <1>5. CASE DrainPipe(w)    BY <1>5 DEF DrainPipe
  <1>6. CASE Leave(w)        BY <1>6 DEF Leave
  <1>7. CASE ReturnEvent(w)  BY <1>7 DEF ReturnEvent
  <1>8. CASE TimerDue(w)     BY <1>8 DEF TimerDue
  <1> QED BY <1>1, <1>2, <1>3, <1>4, <1>5, <1>6, <1>7, <1>8 DEF Watch

(* The waker that lowers epoll_active of a blocked watcher announces its   *)
(* write; the announcement ends when the byte is in the pipe.              *)
LEMMA WakerStep ==
  ASSUME WakeInv, NEW k \in Wakers, NEW w \in Watchers,
         Signal(k, w) \/ Write(k, w)
  PROVE  /\ ActiveOnlyInWait' /\ DownMeansWoken' /\ AskedMeansDown'
  <1> USE DEF WakeInv, TypeOK
  <1>1. CASE Signal(k, w)
    <2>1. ActiveOnlyInWait'
          BY <1>1 DEF Signal, ActiveOnlyInWait
    <2>2. DownMeansWoken'
          BY <1>1 DEF Signal, DownMeansWoken, Announced, Asleep
    <2>3. AskedMeansDown'
          BY <1>1 DEF Signal, AskedMeansDown, Asleep
    <2> QED BY <2>1, <2>2, <2>3
  <1>2. CASE Write(k, w)
    <2>1. ActiveOnlyInWait'
          BY <1>2 DEF Write, ActiveOnlyInWait
    <2>2. DownMeansWoken'
          BY <1>2 DEF Write, DownMeansWoken, Announced, Asleep
    <2>3. AskedMeansDown'
          BY <1>2 DEF Write, AskedMeansDown, Asleep
    <2> QED BY <2>1, <2>2, <2>3
  <1> QED BY <1>1, <1>2

(* So is what the flags say of the watcher. *)
LEMMA WakeInvStep == WakeInv /\ [Next]_vars => WakeInv'
  <1> SUFFICES ASSUME WakeInv, [Next]_vars PROVE WakeInv'
      OBVIOUS
  <1>1. TypeOK'
        BY TypeStep DEF WakeInv
  <1>2. CASE UNCHANGED vars
        BY <1>1, <1>2 DEF vars, WakeInv, ActiveOnlyInWait, DownMeansWoken,
                          AskedMeansDown, Announced, Asleep
  <1>3. CASE Next
        BY <1>1, <1>3, WatcherStep, WakerStep DEF Next, WakeInv
  <1> QED BY <1>2, <1>3

(* The invariant of the wakeup protocol. *)
LEMMA WakeInvariant == Spec => []WakeInv
  <1>1. Init => WakeInv
        BY TypeInit DEF Init, WakeInv, ActiveOnlyInWait, DownMeansWoken,
                        AskedMeansDown, Asleep
  <1> QED BY <1>1, WakeInvStep, PTL DEF Spec

(* No wakeup is lost, however the unlocked write, the return of epoll_wait *)
(* and the draining of the pipe interleave.                                *)
THEOREM WakeupsKept == Spec => []NoLostWakeup
  <1>1. WakeInv => NoLostWakeup
        BY DEF WakeInv, DownMeansWoken, AskedMeansDown, NoLostWakeup
  <1> QED BY <1>1, WakeInvariant, PTL

(* A write is decided only for a watcher that is in epoll_wait or has just *)
(* returned from it.                                                       *)
THEOREM WritesUseful == Spec => NoUselessWrite
  <1> DEFINE Useful == \A k \in Wakers, w \in Watchers :
                         <<k, w>> \in writes' \ writes =>
                           at[w] \in {"poll", "block", "late", "returned"}
  <1>1. WakeInv /\ [Next]_vars => [Useful]_vars
    <2> SUFFICES ASSUME WakeInv, Next PROVE Useful
        OBVIOUS
    <2>1. ASSUME NEW w \in Watchers,
                 Watch(w) \/ ReturnEvent(w) \/ TimerDue(w)
          PROVE  writes' = writes
          BY <2>1 DEF Watch, InitPrivate, EnterEpoll, Return, ClearActive,
                      DrainPipe, Leave, ReturnEvent, TimerDue
    <2>2. ASSUME NEW k \in Wakers, NEW w \in Watchers, Signal(k, w)
          PROVE  Useful
          BY <2>2 DEF Signal, WakeInv, ActiveOnlyInWait
    <2>3. ASSUME NEW k \in Wakers, NEW w \in Watchers, Write(k, w)
          PROVE  Useful
          BY <2>3 DEF Write
    <2> QED BY <2>1, <2>2, <2>3 DEF Next
  <1> QED BY <1>1, WakeInvariant, PTL DEF Spec, NoUselessWrite
=============================================================================
