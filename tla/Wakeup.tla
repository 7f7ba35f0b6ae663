------------------------------- MODULE Wakeup -------------------------------
(***************************************************************************)
(* How a Mely thread sleeps in epoll_wait and how the others wake it       *)
(* (core_epoll.C).  Every worker thread is the watcher of its own epoll    *)
(* set.  A thread that posts work for it, or changes what it must wait     *)
(* for, calls wakeup_fdwatcher: it raises epoll_nowait and, if the watcher *)
(* announced through epoll_active that it may be blocked, writes one byte  *)
(* in the pipe the watcher polls.  The two flags are protected by          *)
(* wakeup_select_lock, but the write, the return of epoll_wait, the        *)
(* lowering of epoll_active and the draining of the pipe are not: these    *)
(* are the steps of this module.                                           *)
(*                                                                         *)
(* A section under wakeup_select_lock is one step.  Bytes in a pipe are    *)
(* not counted: epoll is level triggered and a drain reads them all.       *)
(***************************************************************************)
CONSTANTS Watchers, \* the threads that sleep in epoll_wait
          Wakers    \* the threads that may call wakeup_fdwatcher

VARIABLES
  nowait,  \* nowait[w]: epoll_nowait(w), the next epoll_wait must not block
  active,  \* active[w]: epoll_active(w), the watcher may be in epoll_wait
  pipe,    \* pipe[w]: selpipes[w] holds at least one byte
  gotany,  \* gotany[w]: fdwatcher_gotany[w], the last epoll_wait found events
  at,      \* at[w]: where w is in init_private_stuff/fdcb_fdwatcher_check
  writes   \* <<k, w>>: k left the lock with write_in_the_pipe = 1 for w

vars == <<nowait, active, pipe, gotany, at, writes>>

(* "new" before init_private_stuff, "out" of fdcb_fdwatcher_check, "due"   *)
(* when timecb_check has just found an expired timer, in epoll_wait with a *)
(* null timeout ("poll"), with the one of the next timer ("block"), or     *)
(* with a wrong one although a timer was due ("late"), and after it:       *)
(* "returned", active lowered ("cleared"), pipe read ("drained").          *)
Places == {"new", "out", "due", "poll", "block", "late", "returned",
           "cleared", "drained"}

Init ==
  /\ nowait = [w \in Watchers |-> FALSE]
  /\ active = [w \in Watchers |-> FALSE]
  /\ pipe   = [w \in Watchers |-> FALSE]
  /\ gotany = [w \in Watchers |-> FALSE]
  /\ at     = [w \in Watchers |-> "new"]
  /\ writes = {}

Busy(k) == \E w \in Watchers : <<k, w>> \in writes

(* A watcher runs other code, and may be a waker, only outside of the wait.*)
Running(k) == k \in Watchers => at[k] \in {"new", "out", "due", "drained"}

-----------------------------------------------------------------------------
(* init_private_stuff: the thread resets its flags, once.  Others may have *)
(* called wakeup_fdwatcher for it before.                                  *)
InitPrivate(w) ==
  /\ at[w] = "new" /\ ~Busy(w)
  /\ at' = [at EXCEPT ![w] = "out"]
  /\ nowait' = [nowait EXCEPT ![w] = FALSE]
  /\ active' = [active EXCEPT ![w] = FALSE]
  /\ gotany' = [gotany EXCEPT ![w] = FALSE]
  /\ UNCHANGED <<pipe, writes>>

(* wakeup_fdwatcher, the part under wakeup_select_lock[w]. *)
Signal(k, w) ==
  /\ ~Busy(k) /\ Running(k)
  /\ nowait' = [nowait EXCEPT ![w] = TRUE]
  /\ active' = [active EXCEPT ![w] = FALSE]
  /\ writes' = IF active[w] THEN writes \cup {<<k, w>>} ELSE writes
  /\ UNCHANGED <<pipe, gotany, at>>

WriteLost(k, w) == \* mutant: nothing gets in the pipe
  /\ <<k, w>> \in writes
  /\ writes' = writes \ {<<k, w>>}
  /\ UNCHANGED <<nowait, active, pipe, gotany, at>>

(* wakeup_fdwatcher, the write after the unlock. *)
Write(k, w) ==
  /\ <<k, w>> \in writes
  /\ writes' = writes \ {<<k, w>>}
  /\ pipe' = [pipe EXCEPT ![w] = TRUE]
  /\ UNCHANGED <<nowait, active, gotany, at>>

-----------------------------------------------------------------------------
(* timecb_check finds an expired timer, and posts its callback.            *)
TimerDue(w) ==
  /\ at[w] \in {"out", "due"} /\ ~Busy(w)
  /\ at' = [at EXCEPT ![w] = "due"]
  /\ UNCHANGED <<nowait, active, pipe, gotany, writes>>

(* The timeout of epoll_wait is null if epoll_nowait is raised.  It is     *)
(* null too when a timer was due, unless another thread stores an older or *)
(* a newer time in tsnow, which they all share, while timecb_check         *)
(* computes it: it may then be of any length, or negative, which is        *)
(* without end.                                                            *)
Waits(w) ==
  IF nowait[w] THEN {"poll"}
  ELSE IF at[w] = "due" THEN {"poll", "late"} ELSE {"block"}

EnterSilently(w) == \* mutant: epoll_active is not raised
  /\ at[w] \in {"out", "due"} /\ ~Busy(w)
  /\ \E place \in Waits(w) : at' = [at EXCEPT ![w] = place]
  /\ nowait' = [nowait EXCEPT ![w] = FALSE]
  /\ UNCHANGED <<active, pipe, gotany, writes>>

(* fdcb_fdwatcher_check, the part under wakeup_select_lock[w]: announce    *)
(* the epoll_wait and choose its timeout.                                  *)
EnterEpoll(w) ==
  /\ at[w] \in {"out", "due"} /\ ~Busy(w)
  /\ \E place \in Waits(w) : at' = [at EXCEPT ![w] = place]
  /\ nowait' = [nowait EXCEPT ![w] = FALSE]
  /\ active' = [active EXCEPT ![w] = TRUE]
  /\ UNCHANGED <<pipe, gotany, writes>>

Asleep(w) == at[w] \in {"block", "late"}

(* epoll_wait returns because it had a null timeout or because the pipe is *)
(* readable; other descriptors may be ready as well.                       *)
Return(w) ==
  /\ at[w] = "poll" \/ (Asleep(w) /\ pipe[w])
  /\ at' = [at EXCEPT ![w] = "returned"]
  /\ \E ready \in BOOLEAN : gotany' = [gotany EXCEPT ![w] = pipe[w] \/ ready]
  /\ UNCHANGED <<nowait, active, pipe, writes>>

(* epoll_wait returns for another reason: a descriptor is ready (n > 0) or *)
(* its timeout is over (n = 0).                                            *)
ReturnEvent(w) ==
  /\ Asleep(w) /\ ~pipe[w]
  /\ at' = [at EXCEPT ![w] = "returned"]
  /\ \E ready \in BOOLEAN : gotany' = [gotany EXCEPT ![w] = ready]
  /\ UNCHANGED <<nowait, active, pipe, writes>>

StayActive(w) == \* mutant: epoll_active is not lowered
  /\ at[w] = "returned"
  /\ at' = [at EXCEPT ![w] = "cleared"]
  /\ UNCHANGED <<nowait, active, pipe, gotany, writes>>

(* epoll_active(w) = 0, without the lock. *)
ClearActive(w) ==
  /\ at[w] = "returned"
  /\ at' = [at EXCEPT ![w] = "cleared"]
  /\ active' = [active EXCEPT ![w] = FALSE]
  /\ UNCHANGED <<nowait, pipe, gotany, writes>>

(* The loop that reads the pipe until it is empty. *)
DrainPipe(w) ==
  /\ at[w] = "cleared"
  /\ at' = [at EXCEPT ![w] = "drained"]
  /\ pipe' = [pipe EXCEPT ![w] = FALSE]
  /\ UNCHANGED <<nowait, active, gotany, writes>>

(* The events are dispatched, fdcb_fdwatcher_check returns, and            *)
(* acheck_task calls wakeup_fdwatcher for its own thread if there were any.*)
Leave(w) ==
  /\ at[w] = "drained" /\ ~Busy(w)
  /\ at' = [at EXCEPT ![w] = "out"]
  /\ nowait' = [nowait EXCEPT ![w] = @ \/ gotany[w]]
  /\ UNCHANGED <<active, pipe, gotany, writes>>

-----------------------------------------------------------------------------
Watch(w) ==
  \/ InitPrivate(w) \/ EnterEpoll(w) \/ Return(w)
  \/ ClearActive(w) \/ DrainPipe(w) \/ Leave(w)

Next ==
  \/ \E w \in Watchers : Watch(w) \/ ReturnEvent(w) \/ TimerDue(w)
  \/ \E k \in Wakers, w \in Watchers : Signal(k, w) \/ Write(k, w)

Spec == Init /\ [][Next]_vars

(* A thread in fdcb_fdwatcher_check, and a waker between its unlock and    *)
(* its write, keep running; nothing forces a descriptor to become ready or *)
(* a thread to call wakeup_fdwatcher.                                      *)
Fairness ==
  /\ \A w \in Watchers : WF_vars(Watch(w))
  /\ \A k \in Wakers, w \in Watchers : WF_vars(Write(k, w))

FairSpec == Spec /\ Fairness

-----------------------------------------------------------------------------
TypeOK ==
  /\ nowait \in [Watchers -> BOOLEAN]
  /\ active \in [Watchers -> BOOLEAN]
  /\ pipe   \in [Watchers -> BOOLEAN]
  /\ gotany \in [Watchers -> BOOLEAN]
  /\ at     \in [Watchers -> Places]
  /\ writes \subseteq Wakers \X Watchers

Announced(w) == \E k \in Wakers : <<k, w>> \in writes

(* No wakeup is lost: a watcher blocked in epoll_wait that was asked not   *)
(* to wait (epoll_nowait raised after it chose its timeout) has a byte in  *)
(* its pipe, or the waker that is about to write it.                       *)
NoLostWakeup ==
  \A w \in Watchers : Asleep(w) /\ nowait[w] => pipe[w] \/ Announced(w)

(* wakeup_fdwatcher decides to write only for a watcher that is between    *)
(* its announcement and the lowering of epoll_active: the flag is there to *)
(* "avoid useless writes in selpipes" (core_epoll.C:60).                   *)
NoUselessWrite ==
  [][\A k \in Wakers, w \in Watchers :
        <<k, w>> \in writes' \ writes =>
          at[w] \in {"poll", "block", "late", "returned"}]_vars

(* A watcher that was asked not to wait leaves epoll_wait. *)
WakeupDelivered ==
  \A w \in Watchers : Asleep(w) /\ nowait[w] ~> ~Asleep(w)
=============================================================================
