---------------------------- MODULE FdCallbacks ----------------------------
(***************************************************************************)
(* The callbacks a program attaches to file descriptors (core_epoll.C).    *)
(* Every thread has an epoll set of its own.  fdcb registers a callback    *)
(* for reading or writing in the set of the thread that calls it; when the *)
(* polling task of a thread finds an event it removes the descriptor from  *)
(* the set, so that the event is posted once, and posts do_fd_check on the *)
(* color of the callback; do_fd_check runs the callback and puts the       *)
(* descriptor back, in the set of the thread it runs on.  A thief moves    *)
(* the descriptors of the color it steals from one set to the other.       *)
(*                                                                         *)
(* An operation on an epoll set is one step of the kernel; it fails when   *)
(* the descriptor is not in the set or is closed, and Mely panics.  All    *)
(* the callbacks of a descriptor have its color, as in the servers.  The   *)
(* steps of a thread between two accesses to what others may change at the *)
(* same time are one step; fdcb and do_fd_check access epoll_queued        *)
(* without a lock, and a processor may do their load before their store.   *)
(***************************************************************************)
EXTENDS Integers, FiniteSetsExt, SequencesExt

CONSTANTS
  NThreads,    \* number of worker threads
  Fds,         \* descriptors
  Colors,      \* colors of their callbacks, natural numbers
  FdColor,     \* the color of a descriptor
  Settings     \* builds of Mely, and programs that use it

Threads == 0 .. NThreads - 1
Nobody  == -1
NoFd    == 0

(* ops: the operations a program waits for; stealing: the STEALING build   *)
(* option; removes: programs remove callbacks whose check is posted;       *)
(* others: tasks of the color that are not checks act on descriptors;      *)
(* reuses: programs close descriptors, and accept gives them again;        *)
(* errors: epoll_wait may report EPOLLERR alone; anywhere: a descriptor is *)
(* registered by a task of another color.  fds and cbs bound the           *)
(* descriptors a program opens and the callbacks it allocates.             *)
ASSUME FdAssumption ==
  /\ NThreads \in Nat \ {0} /\ Colors \subseteq Nat
  /\ NoFd \notin Fds /\ FdColor \in [Fds -> Colors]
  /\ \A s \in Settings :
       /\ s.fds \subseteq Fds /\ s.cbs \in Nat
       /\ s.ops \subseteq {"read", "write"}
       /\ {s.stealing, s.removes, s.others, s.reuses, s.errors, s.anywhere}
            \subseteq BOOLEAN

VARIABLES
  setting,  \* the build and the program
  open,     \* the descriptors that are open
  fdcbs,    \* fdcbs[f][o]: the callbacks of a descriptor, in order
  queued,   \* epoll_queued: the check of f for o is posted or runs
  interest, \* interest[t][f]: the events of f in the epoll set of t
  fdcol,    \* fdcol[c][o]: the descriptors to move with color c
  fdToCore, \* fd_to_core
  owner,    \* the thread of a color, Nobody during a steal
  tasks,    \* tasks[c]: the checks posted on c
  found,    \* found[t]: what epoll_wait returned and t has not handled
  pc,       \* where a thread is
  cur,      \* the check a thread posts or runs, the descriptor it accepts
  again,    \* reenqueue_cb of a thread
  used,     \* number of callbacks allocated
  freed,    \* callbacks freed
  loot,     \* the color a thief holds, and its victim
  panic     \* somebody called PANIC

regVars   == <<fdcbs, queued, fdcol, fdToCore>>
runVars   == <<pc, cur, again>>
colorVars == <<owner, tasks, loot>>
vars == <<setting, open, regVars, interest, colorVars, found, runVars, used,
          freed, panic>>

Stealing == setting.stealing
Ops      == setting.ops
MaxCbs   == setting.cbs

Other(o) == IF o = "read" THEN "write" ELSE "read"
AllOps == {"read", "write"}
NoCheck == [fd |-> NoFd, op |-> "read", cb |-> 0]
NoLoot == [color |-> Nobody, victim |-> Nobody]
Goto(t, place) == pc' = [pc EXCEPT ![t] = place]

(* calloc; no descriptor is open, no color has been stolen. *)
Init ==
  /\ setting \in Settings
  /\ open = {}
  /\ fdcbs = [f \in Fds |-> [o \in AllOps |-> <<>>]]
  /\ queued = [f \in Fds |-> [o \in AllOps |-> FALSE]]
  /\ interest = [t \in Threads |-> [f \in Fds |-> {}]]
  /\ fdcol = [c \in Colors |-> [o \in AllOps |-> {}]]
  /\ fdToCore = [f \in Fds |-> 0]
  /\ owner = [c \in Colors |-> c % NThreads]
  /\ tasks = [c \in Colors |-> <<>>]
  /\ found = [t \in Threads |-> {}]
  /\ pc = [t \in Threads |-> "loop"]
  /\ cur = [t \in Threads |-> NoCheck]
  /\ again = [t \in Threads |-> TRUE]
  /\ used = 0 /\ freed = {} /\ panic = FALSE
  /\ loot = [t \in Threads |-> NoLoot]

-----------------------------------------------------------------------------
(* epoll *)

(* The events of the other operation stay, or come along, when it has      *)
(* callbacks and no check.                                                 *)
OtherToo(cbs, q, f, o) ==
  IF cbs[f][Other(o)] # <<>> /\ ~q[f][Other(o)] THEN {Other(o)} ELSE {}

(* _epoll_add *)
EpollAdd(in, cbs, q, t, f, o) ==
  [in EXCEPT ![t][f] = {o} \cup OtherToo(cbs, q, f, o)]

(* _epoll_remove *)
EpollRemove(in, cbs, q, t, f, o) == [in EXCEPT ![t][f] = OtherToo(cbs, q, f, o)]

(* epoll_ctl finds the descriptor neither to modify nor to remove. *)
Missing(in, t, f) == in[t][f] = {}

-----------------------------------------------------------------------------
(* An acceptor runs anywhere, or is a task of the color of f.              *)
MayAccept(t, f) ==
  /\ pc[t] = "loop" /\ f \in setting.fds \ open /\ used < MaxCbs
  /\ setting.anywhere \/ owner[FdColor[f]] = t

(* fdcb(f, o, cb), called by an acceptor: the descriptor is new and so is  *)
(* the callback.                                                           *)
AcceptStore(t, f) ==
  /\ MayAccept(t, f)
  /\ open' = open \cup {f} /\ used' = used + 1
  /\ fdcbs' = [fdcbs EXCEPT ![f]["read"] = Append(@, used + 1)]
  /\ cur' = [cur EXCEPT ![t] = [NoCheck EXCEPT !.fd = f]]
  /\ Goto(t, "accepted")
  /\ UNCHANGED <<queued, interest, fdcol, fdToCore, colorVars, found, again,
                 freed, panic>>

AcceptAdd(t) ==
  /\ pc[t] = "accepted"
  /\ LET f == cur[t].fd
     IN IF queued[f]["read"] THEN UNCHANGED <<interest, fdcol, fdToCore>>
        ELSE /\ interest' = EpollAdd(interest, fdcbs, queued, t, f, "read")
             /\ fdcol' = [fdcol EXCEPT ![FdColor[f]]["read"] = @ \cup {f}]
             /\ fdToCore' = IF Stealing THEN [fdToCore EXCEPT ![f] = t]
                                        ELSE fdToCore
  /\ cur' = [cur EXCEPT ![t] = NoCheck]
  /\ Goto(t, "loop")
  /\ UNCHANGED <<open, fdcbs, queued, colorVars, found, again, used, freed,
                 panic>>

(* The load of epoll_queued passes the store of the callback. *)
AcceptLoadFirst(t, f) ==
  /\ MayAccept(t, f) /\ queued[f]["read"]
  /\ open' = open \cup {f} /\ used' = used + 1
  /\ cur' = [cur EXCEPT ![t] = [NoCheck EXCEPT !.fd = f, !.cb = used + 1]]
  /\ Goto(t, "storing")
  /\ UNCHANGED <<regVars, interest, colorVars, found, again, freed, panic>>

AcceptLateStore(t) ==
  /\ pc[t] = "storing"
  /\ fdcbs' = [fdcbs EXCEPT ![cur[t].fd]["read"] = Append(@, cur[t].cb)]
  /\ cur' = [cur EXCEPT ![t] = NoCheck]
  /\ Goto(t, "loop")
  /\ UNCHANGED <<open, queued, interest, fdcol, fdToCore, colorVars, found,
                 again, used, freed, panic>>

-----------------------------------------------------------------------------
(* What a program does in a callback of the color of f *)

(* t runs the check of f, or another task of its color. *)
InColor(t, f) ==
  /\ f \in open
  /\ \/ pc[t] = "check" /\ cur[t].fd = f
     \/ pc[t] = "loop" /\ setting.others /\ owner[FdColor[f]] = t

(* fdcb(f, o, cb) with a new callback. *)
Register(t, f, o) ==
  /\ InColor(t, f) /\ o \in Ops /\ used < MaxCbs
  /\ used' = used + 1
  /\ fdcbs' = [fdcbs EXCEPT ![f][o] = Append(@, used + 1)]
  /\ IF queued[f][o] THEN UNCHANGED <<interest, fdcol, fdToCore>>
     ELSE /\ interest' = EpollAdd(interest, fdcbs', queued, t, f, o)
          /\ fdcol' = [fdcol EXCEPT ![FdColor[f]][o] = @ \cup {f}]
          /\ fdToCore' = IF Stealing THEN [fdToCore EXCEPT ![f] = t]
                                     ELSE fdToCore
  /\ UNCHANGED <<open, queued, colorVars, found, runVars, freed, panic>>

UnregisterKept(t, f, o) == \* mutant: the descriptor stays in the epoll set
  /\ InColor(t, f) /\ fdcbs[f][o] # <<>>
  /\ queued[f][o] => setting.removes \/ (pc[t] = "check" /\ cur[t].op = o)
  /\ pc[t] = "check" /\ cur[t].op = o => again[t]
  /\ fdcol' = IF Stealing THEN [fdcol EXCEPT ![FdColor[f]][o] = @ \ {f}]
                          ELSE fdcol
  /\ freed' = freed \cup ToSet(fdcbs[f][o])
  /\ fdcbs' = [fdcbs EXCEPT ![f][o] = <<>>]
  /\ UNCHANGED <<open, queued, interest, fdToCore, colorVars, found, runVars,
                 used, panic>>

(* fdcb(f, o, NULL): every callback is freed, the one that runs included.  *)
(* A program that said fdcb_finished does not remove the callback as well. *)
Unregister(t, f, o) ==
  /\ InColor(t, f) /\ fdcbs[f][o] # <<>>
  /\ queued[f][o] => setting.removes \/ (pc[t] = "check" /\ cur[t].op = o)
  /\ pc[t] = "check" /\ cur[t].op = o => again[t]
  /\ IF queued[f][o] THEN UNCHANGED <<interest, fdcol, panic>>
     ELSE /\ interest' = EpollRemove(interest, fdcbs, queued, t, f, o)
          /\ panic' = (panic \/ Missing(interest, t, f))
          /\ fdcol' = IF Stealing
                      THEN [fdcol EXCEPT ![FdColor[f]][o] = @ \ {f}] ELSE fdcol
  /\ freed' = freed \cup ToSet(fdcbs[f][o])
  /\ fdcbs' = [fdcbs EXCEPT ![f][o] = <<>>]
  /\ UNCHANGED <<open, queued, fdToCore, colorVars, found, runVars, used>>

(* close, once no callback is left: the kernel forgets the descriptor. *)
Close(t, f) ==
  /\ setting.reuses /\ InColor(t, f) /\ \A o \in AllOps : fdcbs[f][o] = <<>>
  /\ open' = open \ {f}
  /\ interest' = [u \in Threads |-> [interest[u] EXCEPT ![f] = {}]]
  /\ UNCHANGED <<regVars, colorVars, found, runVars, used, freed, panic>>

(* fdcb_finished(true) in the callback of a check. *)
Finished(t) ==
  /\ pc[t] = "check" /\ again[t] /\ fdcbs[cur[t].fd][cur[t].op] # <<>>
  /\ again' = [again EXCEPT ![t] = FALSE]
  /\ UNCHANGED <<open, regVars, interest, colorVars, found, pc, cur, used,
                 freed, panic>>

-----------------------------------------------------------------------------
(* epoll_wait returns some of the events of the set of t, each EPOLLIN,    *)
(* EPOLLOUT or both.                                                       *)
Wait(t) ==
  /\ pc[t] = "loop"
  /\ \E s \in SUBSET {e \in Fds \X AllOps : e[2] \in interest[t][e[1]]} :
       s # {} /\ found' = [found EXCEPT ![t] = s]
  /\ Goto(t, "dispatch")
  /\ UNCHANGED <<open, regVars, interest, colorVars, cur, again, used, freed,
                 panic>>

(* An error without an event, which epoll reports of any descriptor of the  *)
(* set: "Notify all owners".                                               *)
WaitError(t) ==
  /\ setting.errors /\ pc[t] = "loop"
  /\ \E f \in Fds :
       /\ interest[t][f] # {}
       /\ found' = [found EXCEPT ![t] =
                      {<<f, o>> : o \in {p \in AllOps : fdcbs[f][p] # <<>>}}]
  /\ Goto(t, "dispatch")
  /\ UNCHANGED <<open, regVars, interest, colorVars, cur, again, used, freed,
                 panic>>

(* Of the two events of a descriptor EPOLLIN is handled first. *)
NextEvent(t, f, o) ==
  /\ pc[t] = "dispatch" /\ <<f, o>> \in found[t]
  /\ o = "write" => <<f, "read">> \notin found[t]

StartUnmarked(t, f, o) == \* mutant: the descriptor stays in the epoll set
  /\ NextEvent(t, f, o)
  /\ Stealing => fdToCore[f] = t
  /\ fdcbs[f][o] # <<>>
  /\ found' = [found EXCEPT ![t] = @ \ {<<f, o>>}]
  /\ queued' = [queued EXCEPT ![f][o] = TRUE]
  /\ UNCHANGED <<interest, panic>>
  /\ fdcol' = IF Stealing THEN [fdcol EXCEPT ![FdColor[f]][o] = @ \ {f}]
                          ELSE fdcol
  /\ cur' = [cur EXCEPT ![t] = [fd |-> f, op |-> o, cb |-> Head(fdcbs[f][o])]]
  /\ Goto(t, "post")
  /\ UNCHANGED <<open, fdcbs, fdToCore, colorVars, again, used, freed>>

(* start_fd_poll_check, up to the unlock of epoll_queued_lock. *)
StartCheck(t, f, o) ==
  /\ NextEvent(t, f, o)
  /\ Stealing => fdToCore[f] = t
  /\ fdcbs[f][o] # <<>>
  /\ found' = [found EXCEPT ![t] = @ \ {<<f, o>>}]
  /\ queued' = [queued EXCEPT ![f][o] = TRUE]
  /\ interest' = EpollRemove(interest, fdcbs, queued', t, f, o)
  /\ panic' = (panic \/ Missing(interest, t, f))
  /\ fdcol' = IF Stealing THEN [fdcol EXCEPT ![FdColor[f]][o] = @ \ {f}]
                          ELSE fdcol
  /\ cur' = [cur EXCEPT ![t] = [fd |-> f, op |-> o, cb |-> Head(fdcbs[f][o])]]
  /\ Goto(t, "post")
  /\ UNCHANGED <<open, fdcbs, fdToCore, colorVars, again, used, freed>>

(* With STEALING, an event of a descriptor that has left is dropped; a     *)
(* removed one makes Mely panic.                                           *)
DropEvent(t, f, o) ==
  /\ NextEvent(t, f, o)
  /\ (Stealing /\ fdToCore[f] # t) \/ fdcbs[f][o] = <<>>
  /\ found' = [found EXCEPT ![t] = @ \ {<<f, o>>}]
  /\ panic' = (panic \/ ~(Stealing /\ fdToCore[f] # t))
  /\ UNCHANGED <<open, regVars, interest, colorVars, runVars, used, freed>>

(* register_task of do_fd_check, once the color has an owner. *)
PostCheck(t) ==
  /\ pc[t] = "post" /\ owner[FdColor[cur[t].fd]] # Nobody
  /\ tasks' = [tasks EXCEPT ![FdColor[cur[t].fd]] = Append(@, cur[t])]
  /\ cur' = [cur EXCEPT ![t] = NoCheck]
  /\ Goto(t, "dispatch")
  /\ UNCHANGED <<open, regVars, interest, owner, loot, found, again, used,
                 freed, panic>>

EndDispatch(t) ==
  /\ pc[t] = "dispatch" /\ found[t] = {}
  /\ Goto(t, "loop")
  /\ UNCHANGED <<open, regVars, interest, colorVars, found, cur, again, used,
                 freed, panic>>

-----------------------------------------------------------------------------
(* do_fd_check *)

(* The callback begins; what it does are steps of the program. *)
RunCheck(t, c) ==
  /\ pc[t] = "loop" /\ owner[c] = t /\ tasks[c] # <<>>
  /\ tasks' = [tasks EXCEPT ![c] = Tail(@)]
  /\ cur' = [cur EXCEPT ![t] = Head(tasks[c])]
  /\ again' = [again EXCEPT ![t] = TRUE]
  /\ Goto(t, "check")
  /\ UNCHANGED <<open, regVars, interest, owner, loot, found, used, freed,
                 panic>>

FinishedLast(t) == \* mutant: the last one of the list goes
  LET f == cur[t].fd  o == cur[t].op
  IN IF again[t] THEN fdcbs ELSE [fdcbs EXCEPT ![f][o] = Front(@)]

(* The callback is over: a finished one is freed, and the next one of the  *)
(* list takes its place.                                                   *)
AfterFinished(t) ==
  LET f == cur[t].fd  o == cur[t].op
  IN IF again[t] THEN fdcbs ELSE [fdcbs EXCEPT ![f][o] = Tail(@)]

FreedFinished(t) == IF again[t] THEN freed ELSE freed \cup {cur[t].cb}

ClearLeavesQueued(t) == \* mutant: epoll_queued stays set
  /\ pc[t] = "check"
  /\ fdcbs' = AfterFinished(t) /\ freed' = FreedFinished(t)
  /\ Goto(t, "cleared")
  /\ UNCHANGED <<open, queued, interest, fdcol, fdToCore, colorVars, found,
                 cur, again, used, panic>>

ClearQueued(t) ==
  /\ pc[t] = "check"
  /\ queued' = [queued EXCEPT ![cur[t].fd][cur[t].op] = FALSE]
  /\ fdcbs' = AfterFinished(t) /\ freed' = FreedFinished(t)
  /\ Goto(t, "cleared")
  /\ UNCHANGED <<open, interest, fdcol, fdToCore, colorVars, found, cur, again,
                 used, panic>>

(* "Re-add the fd", on the thread that ran the callback. *)
ReAdd(t) ==
  /\ pc[t] = "cleared"
  /\ LET f == cur[t].fd  o == cur[t].op
     IN IF fdcbs[f][o] # <<>>
        THEN /\ interest' = EpollAdd(interest, fdcbs, queued, t, f, o)
             /\ panic' = (panic \/ f \notin open)
             /\ fdcol' = [fdcol EXCEPT ![FdColor[f]][o] = @ \cup {f}]
             /\ fdToCore' = IF Stealing THEN [fdToCore EXCEPT ![f] = t]
                                        ELSE fdToCore
        ELSE /\ fdToCore' = IF Stealing /\ fdcbs[f][Other(o)] = <<>>
                            THEN [fdToCore EXCEPT ![f] = Nobody] ELSE fdToCore
             /\ UNCHANGED <<interest, fdcol, panic>>
  /\ cur' = [cur EXCEPT ![t] = NoCheck]
  /\ Goto(t, "loop")
  /\ UNCHANGED <<open, fdcbs, queued, colorVars, found, again, used, freed>>

(* The load of the list passes the store of epoll_queued: nothing to add.  *)
LoadFirst(t) ==
  /\ pc[t] = "check"
  /\ AfterFinished(t)[cur[t].fd][cur[t].op] = <<>>
  /\ fdcbs' = AfterFinished(t) /\ freed' = FreedFinished(t)
  /\ Goto(t, "clearing")
  /\ UNCHANGED <<open, queued, interest, fdcol, fdToCore, colorVars, found, cur,
                 again, used, panic>>

LateClear(t) ==
  /\ pc[t] = "clearing"
  /\ queued' = [queued EXCEPT ![cur[t].fd][cur[t].op] = FALSE]
  /\ cur' = [cur EXCEPT ![t] = NoCheck]
  /\ Goto(t, "loop")
  /\ UNCHANGED <<open, fdcbs, fdcol, fdToCore, interest, colorVars, found,
                 again, used, freed, panic>>

-----------------------------------------------------------------------------
(* v runs a task of color c. *)
RunsColor(v, c) ==
  /\ cur[v].fd # NoFd /\ FdColor[cur[v].fd] = c
  /\ \/ pc[v] \in {"check", "cleared", "clearing"}
     \/ ~setting.anywhere /\ pc[v] \in {"accepted", "storing"}

(* steal_work takes a color with tasks that is not running. *)
Steal(t, c) ==
  /\ Stealing /\ pc[t] = "loop" /\ owner[c] \notin {t, Nobody}
  /\ tasks[c] # <<>> /\ ~RunsColor(owner[c], c)
  /\ loot' = [loot EXCEPT ![t] = [color |-> c, victim |-> owner[c]]]
  /\ owner' = [owner EXCEPT ![c] = Nobody]
  /\ Goto(t, "stealread")
  /\ UNCHANGED <<open, regVars, interest, tasks, found, cur, again, used, freed,
                 panic>>

(* Both loops of _epoll_steal test epoll_queued[selread]. *)
Moved(c, o) == {f \in fdcol[c][o] : ~queued[f]["read"]}

(* _epoll_remove from the set of the victim, then _epoll_add to one's own. *)
MovedInterest(t, v, o, fs) ==
  [u \in Threads |-> [f \in Fds |->
     IF f \notin fs THEN interest[u][f]
     ELSE IF u = t THEN {o} \cup OtherToo(fdcbs, queued, f, o)
     ELSE IF u = v THEN OtherToo(fdcbs, queued, f, o)
     ELSE interest[u][f]]]

(* The loop of _epoll_steal a thief is in. *)
Loop(o) == IF o = "read" THEN "stealread" ELSE "stealwrite"

MoveNothing(t, o) == \* mutant: the descriptors stay with the victim
  /\ pc[t] = Loop(o)
  /\ LET c == loot[t].color
     IN fdToCore' = [f \in Fds |-> IF f \in fdcol[c][o] THEN t ELSE fdToCore[f]]
  /\ Goto(t, IF o = "read" THEN "stealwrite" ELSE "land")
  /\ UNCHANGED <<open, fdcbs, queued, fdcol, interest, colorVars, found, cur,
                 again, used, freed, panic>>

(* A loop of _epoll_steal, under epoll_queued_lock[o]. *)
EpollSteal(t, o) ==
  /\ pc[t] = Loop(o)
  /\ LET c  == loot[t].color
         v  == loot[t].victim
         fs == Moved(c, o)
     IN /\ interest' = MovedInterest(t, v, o, fs)
        /\ panic' = (panic \/ \E f \in fs : Missing(interest, v, f))
        /\ fdToCore' = [f \in Fds |-> IF f \in fdcol[c][o] THEN t
                                      ELSE fdToCore[f]]
  /\ Goto(t, IF o = "read" THEN "stealwrite" ELSE "land")
  /\ UNCHANGED <<open, fdcbs, queued, fdcol, colorVars, found, cur, again, used,
                 freed>>

Land(t) ==
  /\ pc[t] = "land"
  /\ owner' = [owner EXCEPT ![loot[t].color] = t]
  /\ loot' = [loot EXCEPT ![t] = NoLoot]
  /\ Goto(t, "loop")
  /\ UNCHANGED <<open, regVars, interest, tasks, found, cur, again, used, freed,
                 panic>>

-----------------------------------------------------------------------------
ProgramSteps(t) ==
  \/ \E f \in Fds : AcceptStore(t, f) \/ AcceptLoadFirst(t, f) \/ Close(t, f)
  \/ \E f \in Fds, o \in AllOps : Register(t, f, o) \/ Unregister(t, f, o)
  \/ AcceptAdd(t) \/ AcceptLateStore(t) \/ Finished(t)

PollSteps(t) ==
  \/ Wait(t) \/ WaitError(t) \/ PostCheck(t) \/ EndDispatch(t)
  \/ \E f \in Fds, o \in AllOps : StartCheck(t, f, o) \/ DropEvent(t, f, o)

CheckSteps(t) ==
  \/ \E c \in Colors : RunCheck(t, c)
  \/ ClearQueued(t) \/ ReAdd(t) \/ LoadFirst(t) \/ LateClear(t)

StealSteps(t) ==
  \/ \E c \in Colors : Steal(t, c)
  \/ \E o \in AllOps : EpollSteal(t, o)
  \/ Land(t)

(* PANIC is the end; the build and the program do not change. *)
Goes == ~panic /\ UNCHANGED setting

Next == /\ Goes
        /\ \E t \in Threads : ProgramSteps(t) \/ PollSteps(t) \/ CheckSteps(t)
                                \/ StealSteps(t)

Spec == Init /\ [][Next]_vars

(* A posted task runs (Scheduler), a callback returns, and a thread handles *)
(* the events it was given.                                                *)
HandlesEvents(t) ==
  \/ PostCheck(t) \/ EndDispatch(t) \/ AcceptAdd(t) \/ AcceptLateStore(t)
  \/ \E f \in Fds, o \in AllOps : StartCheck(t, f, o) \/ DropEvent(t, f, o)

Fairness ==
  \A t \in Threads : /\ WF_vars(Goes /\ HandlesEvents(t))
                     /\ WF_vars(Goes /\ StealSteps(t) /\ pc[t] # "loop")
                     /\ SF_vars(Goes /\ CheckSteps(t))

FairSpec == Spec /\ Fairness

-----------------------------------------------------------------------------
(* A descriptor is closed in its color while another task accepts: the     *)
(* number of the one may become that of the other between the steps of     *)
(* do_fd_check.  Then only CheckEnds holds.                                *)
SharedNumbers == setting.reuses /\ setting.anywhere

(* The checks of f for o that are posted, being posted, or running. *)
Posted(f, o) ==
  {i \in DOMAIN tasks[FdColor[f]] :
     tasks[FdColor[f]][i].fd = f /\ tasks[FdColor[f]][i].op = o}
Has(t, f, o) ==
  pc[t] \in {"post", "check", "clearing"} /\ cur[t].fd = f /\ cur[t].op = o
NbChecks(f, o) ==
  Cardinality(Posted(f, o)) + Cardinality({t \in Threads : Has(t, f, o)})

(* "Suppress the callback event to avoid having the callback posted twice":*)
(* a descriptor has one check for an operation, and epoll_queued says so.  *)
PostedOnce ==
  SharedNumbers \/
    \A f \in Fds, o \in AllOps : NbChecks(f, o) = IF queued[f][o] THEN 1 ELSE 0

(* The callback of a posted check is still the first of its descriptor, so *)
(* do_fd_check does not call a callback that was freed.                    *)
CallsRegistered ==
  SharedNumbers \/
    /\ \A c \in Colors : \A i \in DOMAIN tasks[c] :
         LET k == tasks[c][i]
         IN fdcbs[k.fd][k.op] # <<>> /\ Head(fdcbs[k.fd][k.op]) = k.cb
    /\ \A t \in Threads : pc[t] = "post" => cur[t].cb \notin freed

(* A callback that is registered and not posted is watched by the thread   *)
(* that will listen to its events: nothing is forgotten.                   *)
Watched ==
  \A f \in Fds, o \in AllOps :
    (/\ ~SharedNumbers /\ fdcbs[f][o] # <<>> /\ ~queued[f][o]
     /\ \A t \in Threads : cur[t].fd # f /\ loot[t].color # FdColor[f])
    => \E t \in Threads : o \in interest[t][f] /\ (Stealing => fdToCore[f] = t)

(* fd_to_core, "file descriptor -> core": one thread watches a descriptor, *)
OneSet ==
  \A f \in Fds :
    (/\ ~SharedNumbers
     /\ \A t \in Threads : cur[t].fd # f /\ loot[t].color # FdColor[f])
    => Cardinality({t \in Threads : interest[t][f] # {}}) <= 1

(* The mark of a posted check is cleared: the descriptor is watched again. *)
CheckEnds ==
  \A f \in Fds, o \in AllOps : queued[f][o] ~> (~queued[f][o] \/ panic)

(* epoll_ctl never fails, and no event comes for a removed descriptor. *)
NoPanic == SharedNumbers \/ ~panic
=============================================================================
