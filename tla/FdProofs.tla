------------------------------ MODULE FdProofs ------------------------------
(***************************************************************************)
(* What is proved of the callbacks of descriptors, for any number of       *)
(* threads, descriptors, colors and callbacks, and any build: a program    *)
(* that is Careful has one check at a time for an operation of a           *)
(* descriptor, which calls a callback that is still registered; what is    *)
(* registered and not posted is watched, by one thread; and epoll_ctl      *)
(* never fails.                                                            *)
(*                                                                         *)
(* The heart of the argument is that events are never stale: what          *)
(* epoll_wait returned is handled while the descriptor is in the set of    *)
(* the thread (Fresh), or dropped because fd_to_core says that it left.    *)
(* It needs that the set of one thread only has the descriptor (OneWatch), *)
(* that of the thread where the color is (AtHome), for what has a check    *)
(* running there is put back in the set of that thread.                    *)
(***************************************************************************)
EXTENDS FdCallbacks, FiniteSetTheorems, TLAPS

(* What the faults that the runs of FdFreed, FdOther, FdError, FdStealSets *)
(* and FdStealPanic show ask of a program and its build.                   *)
Careful ==
  /\ ~setting.removes /\ ~setting.others
  /\ setting.errors \/ Stealing => Ops \subseteq {"read"}
  /\ Stealing => ~setting.anywhere

-----------------------------------------------------------------------------
(* The inductive invariant, in parts *)

Check == [fd : Fds, op : AllOps, cb : Nat]
Running  == {"check", "cleared", "clearing"}
Handling == Running \cup {"post", "accepted", "storing"}
Thieving == {"stealread", "stealwrite", "land"}

TypeOK ==
  /\ setting \in Settings
  /\ open \subseteq Fds
  /\ fdcbs \in [Fds -> [AllOps -> Seq(Nat)]]
  /\ queued \in [Fds -> [AllOps -> BOOLEAN]]
  /\ interest \in [Threads -> [Fds -> SUBSET AllOps]]
  /\ fdcol \in [Colors -> [AllOps -> SUBSET Fds]]
  /\ fdToCore \in [Fds -> Threads \cup {Nobody}]
  /\ owner \in [Colors -> Threads \cup {Nobody}]
  /\ tasks \in [Colors -> Seq(Check)]
  /\ found \in [Threads -> SUBSET (Fds \X AllOps)]
  /\ pc \in [Threads -> {"loop", "dispatch"} \cup Handling \cup Thieving]
  /\ cur \in [Threads -> [fd : Fds \cup {NoFd}, op : AllOps, cb : Nat]]
  /\ again \in [Threads -> BOOLEAN]
  /\ used \in Nat /\ freed \in SUBSET Nat
  /\ loot \in [Threads -> [color : Colors \cup {Nobody},
                           victim : Threads \cup {Nobody}]]
  /\ panic \in BOOLEAN

(* The descriptor a thread handles; a check runs where its color is, and   *)
(* so does an acceptor, unless it runs anywhere.                           *)
InPlace ==
  \A t \in Threads :
    /\ pc[t] # "storing"
    /\ found[t] # {} => pc[t] \in {"dispatch", "post"}
    /\ pc[t] \in Handling => cur[t].fd \in Fds
    /\ pc[t] \in Running => owner[FdColor[cur[t].fd]] = t
    /\ pc[t] = "accepted" /\ ~setting.anywhere => owner[FdColor[cur[t].fd]] = t

(* A thief holds a color that nobody owns, and is the only one.            *)
Thieves ==
  /\ \A t \in Threads :
       pc[t] \in Thieving =>
         /\ Stealing /\ loot[t].color \in Colors
         /\ loot[t].victim \in Threads \ {t} /\ owner[loot[t].color] = Nobody
  /\ \A t, u \in Threads :
       pc[t] \in Thieving /\ pc[u] \in Thieving /\ loot[t].color = loot[u].color
       => t = u

(* A callback is in one list, once, and not freed.                         *)
Listed ==
  /\ freed \subseteq 1 .. used
  /\ \A f \in Fds, o \in AllOps : \A i \in DOMAIN fdcbs[f][o] :
       fdcbs[f][o][i] \in (1 .. used) \ freed
  /\ \A f, g \in Fds, o, p \in AllOps :
       \A i \in DOMAIN fdcbs[f][o], j \in DOMAIN fdcbs[g][p] :
         fdcbs[f][o][i] = fdcbs[g][p][j] => f = g /\ o = p /\ i = j

(* Nothing is registered on a descriptor that is closed; one that was      *)
(* never open has no check either.                                         *)
ClosedEmpty ==
  \A f \in Fds \ open :
    /\ \A o \in AllOps : fdcbs[f][o] = <<>>
    /\ \/ setting.reuses
       \/ /\ \A o \in AllOps : ~queued[f][o]
          /\ \A t \in Threads : pc[t] \in Handling => cur[t].fd # f

(* A descriptor that is accepted, and not yet watched. *)
Unwatched(t, f) ==
  /\ f \in open /\ cur[t].op = "read"
  /\ fdcbs[f]["read"] # <<>> /\ fdcbs[f]["write"] = <<>>
  /\ \A o \in AllOps : ~queued[f][o]
  /\ \A u \in Threads : /\ interest[u][f] = {}
                        /\ pc[u] \in Handling /\ cur[u].fd = f => u = t

Accepted ==
  \A t \in Threads : pc[t] = "accepted" => Unwatched(t, cur[t].fd)

(* A descriptor has one check for an operation, and epoll_queued says so.  *)
OneCheck ==
  /\ \A c \in Colors : \A i \in DOMAIN tasks[c] : FdColor[tasks[c][i].fd] = c
  /\ \A f \in Fds, o \in AllOps :
       /\ \A i, j \in Posted(f, o) : i = j
       /\ \A t, u \in Threads : Has(t, f, o) /\ Has(u, f, o) => t = u
       /\ Posted(f, o) # {} => \A t \in Threads : ~Has(t, f, o)
       /\ queued[f][o] <=> Posted(f, o) # {} \/ \E t \in Threads : Has(t, f, o)
  /\ \A t \in Threads :
       pc[t] = "cleared" => ~queued[cur[t].fd][cur[t].op]

First(k) == fdcbs[k.fd][k.op] # <<>> /\ Head(fdcbs[k.fd][k.op]) = k.cb

(* Its callback is the first of the list, until it removes it.             *)
CallsFirst ==
  /\ \A c \in Colors : \A i \in DOMAIN tasks[c] : First(tasks[c][i])
  /\ \A t \in Threads :
       /\ pc[t] = "post" => First(cur[t])
       /\ pc[t] = "check" => cur[t].cb \in freed \/ First(cur[t])
       /\ pc[t] = "check" /\ ~again[t] => fdcbs[cur[t].fd][cur[t].op] # <<>>
       /\ pc[t] = "clearing" => fdcbs[cur[t].fd][cur[t].op] = <<>>

(* A thread watches what is registered and not posted.                     *)
Interested ==
  \A t \in Threads, f \in Fds : \A o \in interest[t][f] :
    /\ fdcbs[f][o] # <<>> /\ ~queued[f][o]
    /\ Stealing => fdToCore[f] = t /\ f \in fdcol[FdColor[f]][o]

(* What is registered and not posted is watched, or a thread is about to   *)
(* put it in its set.                                                      *)
Remembered ==
  \A f \in Fds, o \in AllOps : fdcbs[f][o] # <<>> /\ ~queued[f][o] =>
    \/ \E t \in Threads : o \in interest[t][f]
    \/ \E t \in Threads : /\ pc[t] \in {"accepted", "cleared"}
                          /\ cur[t].fd = f /\ cur[t].op = o

OneWatch ==
  \A t, u \in Threads, f \in Fds :
    interest[t][f] # {} /\ interest[u][f] # {} => t = u

(* An event that t is to handle is one that t still watches.               *)
Fresh ==
  \A t \in Threads, f \in Fds, o \in AllOps :
    <<f, o>> \in found[t] /\ (Stealing => fdToCore[f] = t)
    => o \in interest[t][f]

(* The lists of _epoll_steal.                                              *)
Movable ==
  Stealing => \A f \in Fds, c \in Colors, o \in AllOps :
    f \in fdcol[c][o] =>
      c = FdColor[f] /\ \E t \in Threads : o \in interest[t][f]

WritesOnly ==
  \A f \in Fds : fdcbs[f]["write"] # <<>> => "write" \in Ops

(* u owns the color, or is where a thief has left its descriptors so far.  *)
AtHome(u, c) ==
  \/ owner[c] = u
  \/ \E t \in Threads : /\ pc[t] \in Thieving /\ loot[t].color = c
                        /\ u = IF pc[t] = "stealread" THEN loot[t].victim ELSE t

(* f had its first event. *)
Touched(f) ==
  \/ fdcbs[f]["write"] # <<>> \/ \E o \in AllOps : queued[f][o]
  \/ \E t \in Threads : pc[t] = "cleared" /\ cur[t].fd = f

WatchedHome ==
  \A t \in Threads, f \in Fds :
    interest[t][f] # {} /\ (~setting.anywhere \/ Touched(f))
    => AtHome(t, FdColor[f])

FdInv ==
  /\ InPlace /\ Thieves /\ Listed /\ ClosedEmpty /\ Accepted /\ OneCheck
  /\ CallsFirst /\ Interested /\ Remembered /\ OneWatch /\ Fresh /\ Movable
  /\ WritesOnly /\ WatchedHome

(* The descriptors of a careful program have numbers of their own.         *)
Plain == Careful /\ ~SharedNumbers
-----------------------------------------------------------------------------
(* What the state says of a descriptor *)

(* Threads and colors are numbers, Nobody and NoFd are others; a           *)
(* descriptor has two operations.                                          *)
LEMMA Constants ==
  /\ Nobody \notin Threads /\ Nobody \notin Colors /\ Threads \subseteq Int
  /\ Colors \subseteq Nat /\ NoFd \notin Fds
  /\ \A f \in Fds : FdColor[f] \in Colors
  /\ \A o \in AllOps : Other(o) \in AllOps /\ Other(o) # o
                       /\ Other(Other(o)) = o
  /\ "read" \in AllOps /\ "write" \in AllOps
  /\ \A o \in AllOps : o = "read" \/ o = "write"
  /\ \A s \in Settings : s.fds \subseteq Fds /\ s.ops \subseteq AllOps
                         /\ s.cbs \in Nat
  BY FdAssumption DEF FdAssumption, Threads, Nobody, NoFd, AllOps, Other

(* With stealing nothing is registered for writing. *)
LEMMA ReadsOnly ==
  ASSUME Plain, TypeOK, FdInv, Stealing \/ setting.errors, NEW f \in Fds
  PROVE  fdcbs[f]["write"] = <<>>
         /\ \A t \in Threads : interest[t][f] \subseteq {"read"}
<1>1. fdcbs[f]["write"] = <<>>
  BY DEF FdInv, WritesOnly, Plain, Careful, Ops
<1>2. \A t \in Threads : interest[t][f] \subseteq {"read"}
  <2>1. TAKE t \in Threads
  <2>2. interest[t][f] \subseteq AllOps
    BY DEF TypeOK
  <2>3. "write" \notin interest[t][f]
    BY <1>1 DEF FdInv, Interested
  <2> QED  BY <2>2, <2>3 DEF AllOps
<1> QED  BY <1>1, <1>2

(* Nobody else holds the color that runs on t, and the sets of the others  *)
(* do not have the descriptor that t checks.                               *)
LEMMA RunsAlone ==
  ASSUME Plain, TypeOK, FdInv, NEW t \in Threads, pc[t] \in Running
  PROVE  /\ cur[t].fd \in Fds /\ cur[t].op \in AllOps
         /\ owner[FdColor[cur[t].fd]] = t
         /\ \A u \in Threads : AtHome(u, FdColor[cur[t].fd]) => u = t
         /\ \A u \in Threads :
              pc[u] \in Running /\ FdColor[cur[u].fd] = FdColor[cur[t].fd]
              => u = t
         /\ pc[t] \in {"check", "clearing"} => queued[cur[t].fd][cur[t].op]
         /\ Touched(cur[t].fd)
         /\ \A u \in Threads : interest[u][cur[t].fd] # {} => u = t
         /\ \A u \in Threads : pc[u] = "accepted" => cur[u].fd # cur[t].fd
<1> DEFINE f == cur[t].fd
           o == cur[t].op
<1>1. f \in Fds /\ o \in AllOps /\ owner[FdColor[f]] = t
  BY DEF FdInv, InPlace, Running, Handling, TypeOK
<1>2. \A u \in Threads : AtHome(u, FdColor[f]) => u = t
  BY <1>1, Constants DEF AtHome, FdInv, Thieves, Thieving
<1>3. \A u \in Threads : pc[u] \in Running /\ FdColor[cur[u].fd] = FdColor[f]
        => u = t
  BY <1>1 DEF FdInv, InPlace, Running
<1>4. pc[t] \in {"check", "clearing"} => queued[f][o]
  BY <1>1 DEF FdInv, OneCheck, Has
<1>5. Touched(f)
  BY <1>1, <1>4 DEF Touched, Running
<1>6. \A u \in Threads : interest[u][f] # {} => u = t
  BY <1>1, <1>2, <1>5 DEF FdInv, WatchedHome
<1>7. \A u \in Threads : pc[u] = "accepted" => cur[u].fd # f
  BY <1>1 DEF FdInv, Accepted, Unwatched, Handling, Running
<1> QED  BY <1>1, <1>2, <1>3, <1>4, <1>5, <1>6, <1>7

-----------------------------------------------------------------------------
(* What a step leaves as it is *)

(* The checks are those there were, and nobody has cleared a mark. *)
LEMMA SameChecks ==
  ASSUME TypeOK, OneCheck, UNCHANGED <<tasks, queued>>,
         \A t \in Threads, f \in Fds, o \in AllOps :
           Has(t, f, o)' <=> Has(t, f, o),
         \A t \in Threads : pc'[t] = "cleared" =>
           pc[t] = "cleared" /\ cur'[t] = cur[t]
  PROVE  OneCheck'
<1>1. \A f \in Fds, o \in AllOps : Posted(f, o)' = Posted(f, o)
  BY DEF Posted
<1>2. \A c \in Colors : \A i \in DOMAIN tasks'[c] : FdColor[tasks'[c][i].fd] = c
  BY DEF OneCheck
<1>3. ASSUME NEW f \in Fds, NEW o \in AllOps
      PROVE  /\ \A i, j \in Posted(f, o)' : i = j
             /\ \A t, u \in Threads : Has(t, f, o)' /\ Has(u, f, o)' => t = u
             /\ Posted(f, o)' # {} => \A t \in Threads : ~Has(t, f, o)'
             /\ queued'[f][o] <=>
                  Posted(f, o)' # {} \/ \E t \in Threads : Has(t, f, o)'
  <2>1. Posted(f, o)' = Posted(f, o)
    BY <1>1
  <2>2. \A t \in Threads : Has(t, f, o)' <=> Has(t, f, o)
    OBVIOUS
  <2>3. /\ \A i, j \in Posted(f, o) : i = j
        /\ \A t, u \in Threads : Has(t, f, o) /\ Has(u, f, o) => t = u
        /\ Posted(f, o) # {} => \A t \in Threads : ~Has(t, f, o)
        /\ queued[f][o] <=>
             Posted(f, o) # {} \/ \E t \in Threads : Has(t, f, o)
    BY DEF OneCheck
  <2> QED  BY <2>1, <2>2, <2>3
<1>4. \A t \in Threads : pc'[t] = "cleared" => ~queued'[cur'[t].fd][cur'[t].op]
  BY DEF OneCheck
<1> QED  BY <1>2, <1>3, <1>4 DEF OneCheck

(* What is registered, posted and watched stays, and so does who is about  *)
(* to watch it.                                                            *)
LEMMA SameWatch ==
  ASSUME Remembered, UNCHANGED <<fdcbs, queued, interest>>,
         \A t \in Threads : pc[t] \in {"accepted", "cleared"} =>
           pc'[t] = pc[t] /\ cur'[t] = cur[t]
  PROVE  Remembered'
<1> SUFFICES ASSUME NEW f \in Fds, NEW o \in AllOps,
                    fdcbs'[f][o] # <<>>, ~queued'[f][o],
                    \A t \in Threads : o \notin interest'[t][f]
             PROVE  \E t \in Threads : /\ pc'[t] \in {"accepted", "cleared"}
                                       /\ cur'[t].fd = f /\ cur'[t].op = o
  BY DEF Remembered
<1>1. PICK t \in Threads : /\ pc[t] \in {"accepted", "cleared"}
                           /\ cur[t].fd = f /\ cur[t].op = o
  BY DEF Remembered
<1>2. pc'[t] \in {"accepted", "cleared"} /\ cur'[t].fd = f /\ cur'[t].op = o
  BY <1>1
<1> QED  BY <1>2

(* Nothing is watched or touched that was not, and the colors are where    *)
(* they were.                                                              *)
LEMMA LessTouched ==
  ASSUME WatchedHome, UNCHANGED setting,
         \A t \in Threads, f \in Fds : interest'[t][f] # {} =>
           interest[t][f] # {} \/ AtHome(t, FdColor[f]),
         \A f \in Fds : Touched(f)' => Touched(f),
         \A u \in Threads, c \in Colors : AtHome(u, c) => AtHome(u, c)'
  PROVE  WatchedHome'
<1>1. \A f \in Fds : FdColor[f] \in Colors
  BY Constants
<1> QED  BY <1>1 DEF WatchedHome

(* No mark was cleared, and the colors are where they were. *)
LEMMA SameHomes ==
  ASSUME TypeOK, WatchedHome, UNCHANGED <<setting, fdcbs, queued, interest>>,
         \A t \in Threads : pc'[t] = "cleared" =>
           pc[t] = "cleared" /\ cur'[t] = cur[t],
         \A u \in Threads, c \in Colors : AtHome(u, c) => AtHome(u, c)'
  PROVE  WatchedHome'
<1>1. \A f \in Fds : Touched(f)' => Touched(f)
  BY DEF Touched
<1>2. \A f \in Fds : FdColor[f] \in Colors
  BY Constants
<1> QED  BY <1>1, <1>2 DEF WatchedHome

(* What a thread has accepted is left alone. *)
LEMMA SameAccepted ==
  ASSUME Accepted, InPlace,
         \A u \in Threads, f \in Fds :
           pc'[u] = "accepted" /\ cur'[u].fd = f =>
             /\ pc[u] = "accepted" /\ cur'[u] = cur[u]
             /\ f \in open' /\ fdcbs'[f] = fdcbs[f] /\ queued'[f] = queued[f]
             /\ \A v \in Threads : interest'[v][f] = interest[v][f],
         \A u \in Threads : pc'[u] = "accepted" => cur'[u].fd \in Fds,
         \A v \in Threads :
           pc'[v] \in Handling =>
             \/ pc[v] \in Handling /\ cur[v].fd = cur'[v].fd
             \/ \A u \in Threads : pc'[u] = "accepted" => cur'[u].fd # cur'[v].fd
  PROVE  Accepted'
<1> SUFFICES ASSUME NEW u \in Threads, pc'[u] = "accepted"
             PROVE  Unwatched(u, cur[u].fd)'
  BY DEF Accepted
<1>1. /\ pc[u] = "accepted" /\ cur'[u] = cur[u] /\ cur[u].fd \in Fds
      /\ cur[u].fd \in open' /\ fdcbs'[cur[u].fd] = fdcbs[cur[u].fd]
      /\ queued'[cur[u].fd] = queued[cur[u].fd]
      /\ \A v \in Threads : interest'[v][cur[u].fd] = interest[v][cur[u].fd]
  OBVIOUS
<1>2. Unwatched(u, cur[u].fd)
  BY <1>1 DEF Accepted
<1>3. ASSUME NEW v \in Threads, pc'[v] \in Handling, cur'[v].fd = cur[u].fd
      PROVE  v = u
  BY <1>1, <1>2, <1>3 DEF Unwatched
<1> QED  BY <1>1, <1>2, <1>3 DEF Unwatched

(* The colors are where they were: no thief moved. *)
LEMMA SameOwners ==
  ASSUME UNCHANGED <<owner, loot>>,
         \A t \in Threads : pc[t] \in Thieving => pc'[t] = pc[t]
  PROVE  \A u \in Threads, c \in Colors : AtHome(u, c) => AtHome(u, c)'
<1> SUFFICES ASSUME NEW u \in Threads, NEW c \in Colors, AtHome(u, c)
             PROVE  AtHome(u, c)'
  OBVIOUS
<1>1. CASE owner[c] = u
  BY <1>1 DEF AtHome
<1>2. CASE owner[c] # u
  <2>1. PICK t \in Threads :
          /\ pc[t] \in Thieving /\ loot[t].color = c
          /\ u = IF pc[t] = "stealread" THEN loot[t].victim ELSE t
    BY <1>2 DEF AtHome
  <2>2. /\ pc'[t] \in Thieving /\ loot'[t].color = c
        /\ u = IF pc'[t] = "stealread" THEN loot'[t].victim ELSE t
    BY <2>1
  <2> QED  BY <2>2 DEF AtHome
<1> QED  BY <1>1, <1>2

(* A step that only looks at events, or says fdcb_finished. *)
LEMMA StillKeeps ==
  ASSUME Plain, TypeOK, FdInv, NEW t \in Threads,
         UNCHANGED <<setting, open, regVars, interest, colorVars, cur, used,
                     freed>>,
         \/ pc' = pc
         \/ /\ pc[t] \in {"loop", "dispatch"}
            /\ pc' = [pc EXCEPT ![t] = "loop"] \/ Goto(t, "dispatch")
  PROVE  /\ pc' \in [Threads -> {"loop", "dispatch"} \cup Handling \cup Thieving]
         /\ Thieves' /\ Listed' /\ ClosedEmpty' /\ Accepted' /\ OneCheck'
         /\ Interested' /\ Remembered' /\ OneWatch' /\ Movable' /\ WritesOnly'
         /\ WatchedHome'
<1>1. \A u \in Threads : \/ pc'[u] = pc[u]
                         \/ pc[u] \in {"loop", "dispatch"}
                            /\ pc'[u] \in {"loop", "dispatch"}
  BY DEF TypeOK, Goto
<1>2. pc' \in [Threads -> {"loop", "dispatch"} \cup Handling \cup Thieving]
  BY DEF TypeOK, Goto
<1>3. \A u \in Threads, f \in Fds, o \in AllOps : Has(u, f, o)' <=> Has(u, f, o)
  BY <1>1 DEF Has
<1>4. OneCheck'
  <2>1. OneCheck /\ UNCHANGED <<tasks, queued>>
    BY DEF FdInv, regVars, colorVars
  <2> QED  BY <1>1, <1>3, <2>1, SameChecks
<1>5. Remembered' /\ WatchedHome'
  <2>1. UNCHANGED <<fdcbs, queued, interest, owner, loot>>
    BY DEF regVars, colorVars
  <2>2. \A u \in Threads : pc[u] \in Thieving => pc'[u] = pc[u]
    BY <1>1 DEF Thieving
  <2> QED  BY <1>1, <2>1, <2>2, SameWatch, SameOwners, SameHomes DEF FdInv
<1>6. Thieves'
  BY <1>1 DEF FdInv, Thieves, Thieving, colorVars, Stealing
<1>7. Listed' /\ Interested' /\ OneWatch' /\ Movable' /\ WritesOnly'
  BY DEF FdInv, Listed, Interested, OneWatch, Movable, WritesOnly, regVars,
         Stealing, Ops
<1>8. ClosedEmpty' /\ Accepted'
  BY <1>1 DEF FdInv, ClosedEmpty, Accepted, Unwatched, Handling, Running,
              regVars
<1> QED  BY <1>2, <1>4, <1>5, <1>6, <1>7, <1>8

-----------------------------------------------------------------------------
(* The polling task *)

(* What epoll_wait returns is watched by the thread. *)
LEMMA WaitKeeps ==
  ASSUME Plain, TypeOK, FdInv, UNCHANGED setting, NEW t \in Threads, Wait(t)
  PROVE  TypeOK' /\ FdInv' /\ panic' = panic
<1>1. PICK s \in SUBSET {e \in Fds \X AllOps : e[2] \in interest[t][e[1]]} :
        found' = [found EXCEPT ![t] = s]
  BY DEF Wait
<1>2. /\ pc' \in [Threads -> {"loop", "dispatch"} \cup Handling \cup Thieving]
      /\ Thieves' /\ Listed' /\ ClosedEmpty' /\ Accepted' /\ OneCheck'
      /\ Interested' /\ Remembered' /\ OneWatch' /\ Movable' /\ WritesOnly'
      /\ WatchedHome'
  BY StillKeeps DEF Wait, runVars
<1>3. TypeOK'
  BY <1>1, <1>2 DEF TypeOK, Wait, regVars, colorVars
<1>4. InPlace'
  BY <1>1 DEF TypeOK, FdInv, InPlace, Running, Handling, Wait, Goto, colorVars
<1>5. CallsFirst'
  BY DEF TypeOK, FdInv, CallsFirst, First, Wait, Goto, regVars, colorVars
<1>6. Fresh'
  <2>1. \A f \in Fds, o \in AllOps : <<f, o>> \in s => o \in interest[t][f]
    OBVIOUS
  <2> QED  BY <1>1, <2>1 DEF TypeOK, FdInv, Fresh, Wait, regVars, Stealing
<1> QED  BY <1>2, <1>3, <1>4, <1>5, <1>6 DEF FdInv, Wait

(* "Notify all owners" finds those that wait: the others have no callback. *)
LEMMA WaitErrorKeeps ==
  ASSUME Plain, TypeOK, FdInv, UNCHANGED setting, NEW t \in Threads,
         WaitError(t)
  PROVE  TypeOK' /\ FdInv' /\ panic' = panic
<1>1. PICK f \in Fds :
        /\ interest[t][f] # {}
        /\ found' = [found EXCEPT ![t] =
                       {<<f, o>> : o \in {p \in AllOps : fdcbs[f][p] # <<>>}}]
  BY DEF WaitError
<1>2. /\ pc' \in [Threads -> {"loop", "dispatch"} \cup Handling \cup Thieving]
      /\ Thieves' /\ Listed' /\ ClosedEmpty' /\ Accepted' /\ OneCheck'
      /\ Interested' /\ Remembered' /\ OneWatch' /\ Movable' /\ WritesOnly'
      /\ WatchedHome'
  BY StillKeeps DEF WaitError, runVars
<1>3. TypeOK'
  <2>1. found' \in [Threads -> SUBSET (Fds \X AllOps)]
    BY <1>1 DEF TypeOK
  <2> QED  BY <1>2, <2>1 DEF TypeOK, WaitError, regVars, colorVars
<1>4. InPlace'
  BY <1>1 DEF TypeOK, FdInv, InPlace, Running, Handling, WaitError, Goto,
              colorVars
<1>5. CallsFirst'
  BY DEF TypeOK, FdInv, CallsFirst, First, WaitError, Goto, regVars, colorVars
<1>6. Fresh'
  <2>1. "read" \in interest[t][f] /\ fdcbs[f]["write"] = <<>>
    BY <1>1, ReadsOnly DEF WaitError
  <2>2. \A g \in Fds, o \in AllOps :
          <<g, o>> \in found'[t] => g = f /\ o = "read"
    BY <1>1, <2>1, Constants DEF TypeOK
  <2>3. found'[t] = {<<f, o>> : o \in {p \in AllOps : fdcbs[f][p] # <<>>}}
        /\ \A u \in Threads : u # t => found'[u] = found[u]
    BY <1>1 DEF TypeOK
  <2>4. UNCHANGED <<interest, fdToCore, Stealing>>
    BY DEF WaitError, regVars, Stealing
  <2>5. \A g \in Fds, o \in AllOps : <<g, o>> \in found'[t]
          => o \in interest[t][g]
    BY <2>1, <2>2
  <2>6. \A u \in Threads, g \in Fds, o \in AllOps :
          u # t /\ <<g, o>> \in found'[u] /\ (Stealing => fdToCore[g] = u)
          => o \in interest[u][g]
    BY <2>3 DEF FdInv, Fresh
  <2> QED  BY <2>4, <2>5, <2>6 DEF Fresh
<1> QED  BY <1>2, <1>3, <1>4, <1>5, <1>6 DEF FdInv, WaitError

(* All events are handled. *)
LEMMA EndDispatchKeeps ==
  ASSUME Plain, TypeOK, FdInv, UNCHANGED setting, NEW t \in Threads,
         EndDispatch(t)
  PROVE  TypeOK' /\ FdInv' /\ panic' = panic
<1>1. /\ pc' \in [Threads -> {"loop", "dispatch"} \cup Handling \cup Thieving]
      /\ Thieves' /\ Listed' /\ ClosedEmpty' /\ Accepted' /\ OneCheck'
      /\ Interested' /\ Remembered' /\ OneWatch' /\ Movable' /\ WritesOnly'
      /\ WatchedHome'
  BY StillKeeps DEF EndDispatch, Goto
<1>2. TypeOK'
  BY <1>1 DEF TypeOK, EndDispatch, regVars, colorVars
<1>3. InPlace'
  BY DEF TypeOK, FdInv, InPlace, Running, Handling, EndDispatch, Goto,
         colorVars
<1>4. CallsFirst' /\ Fresh'
  BY DEF TypeOK, FdInv, CallsFirst, First, Fresh, EndDispatch, Goto, regVars,
         colorVars, Stealing
<1> QED  BY <1>1, <1>2, <1>3, <1>4 DEF FdInv, EndDispatch

(* A dropped event is one of a descriptor that has left. *)
LEMMA DropEventKeeps ==
  ASSUME Plain, TypeOK, FdInv, UNCHANGED setting, NEW t \in Threads,
         NEW f \in Fds, NEW o \in AllOps, DropEvent(t, f, o)
  PROVE  TypeOK' /\ FdInv' /\ panic' = panic
<1>1. found' = [found EXCEPT ![t] = @ \ {<<f, o>>}] /\ UNCHANGED pc
  BY DEF DropEvent, runVars
<1>2. /\ pc' \in [Threads -> {"loop", "dispatch"} \cup Handling \cup Thieving]
      /\ Thieves' /\ Listed' /\ ClosedEmpty' /\ Accepted' /\ OneCheck'
      /\ Interested' /\ Remembered' /\ OneWatch' /\ Movable' /\ WritesOnly'
      /\ WatchedHome'
  BY <1>1, StillKeeps DEF DropEvent, runVars
<1>3. panic' = panic
  <2>1. <<f, o>> \in found[t] /\ pc[t] = "dispatch"
    BY DEF DropEvent, NextEvent
  <2>2. (Stealing => fdToCore[f] = t) => fdcbs[f][o] # <<>>
    BY <2>1 DEF FdInv, Fresh, Interested
  <2> QED  BY <2>2 DEF DropEvent, TypeOK
<1>4. TypeOK'
  <2>1. found' \in [Threads -> SUBSET (Fds \X AllOps)]
    BY <1>1 DEF TypeOK
  <2>2. UNCHANGED <<open, regVars, interest, colorVars, runVars, used, freed>>
    BY DEF DropEvent
  <2> QED  BY <1>3, <2>1, <2>2 DEF TypeOK, regVars, colorVars, runVars
<1>5. InPlace'
  BY <1>1 DEF TypeOK, FdInv, InPlace, DropEvent, colorVars, runVars
<1>6. CallsFirst' /\ Fresh'
  BY <1>1 DEF TypeOK, FdInv, CallsFirst, First, Fresh, DropEvent, regVars,
              runVars, colorVars, Stealing
<1> QED  BY <1>2, <1>3, <1>4, <1>5, <1>6 DEF FdInv

(* fdcb_finished. *)
LEMMA FinishedKeeps ==
  ASSUME Plain, TypeOK, FdInv, UNCHANGED setting, NEW t \in Threads,
         Finished(t)
  PROVE  TypeOK' /\ FdInv' /\ panic' = panic
<1>1. /\ pc' \in [Threads -> {"loop", "dispatch"} \cup Handling \cup Thieving]
      /\ Thieves' /\ Listed' /\ ClosedEmpty' /\ Accepted' /\ OneCheck'
      /\ Interested' /\ Remembered' /\ OneWatch' /\ Movable' /\ WritesOnly'
      /\ WatchedHome'
  BY StillKeeps DEF Finished
<1>2. TypeOK'
  BY <1>1 DEF TypeOK, Finished, regVars, colorVars
<1>3. InPlace' /\ CallsFirst' /\ Fresh'
  BY DEF TypeOK, FdInv, InPlace, CallsFirst, First, Fresh, Finished, regVars,
         colorVars, Stealing
<1> QED  BY <1>1, <1>2, <1>3 DEF FdInv, Finished

(* A posted check goes to the tasks of its color. *)
LEMMA PostCheckKeeps ==
  ASSUME Plain, TypeOK, FdInv, UNCHANGED setting, NEW t \in Threads,
         PostCheck(t)
  PROVE  TypeOK' /\ FdInv' /\ panic' = panic
<1> DEFINE k == cur[t]
           c == FdColor[k.fd]
<1>1. /\ pc[t] = "post" /\ k \in Check /\ c \in Colors
      /\ tasks' = [tasks EXCEPT ![c] = Append(@, k)]
      /\ cur' = [cur EXCEPT ![t] = NoCheck]
      /\ pc' = [pc EXCEPT ![t] = "dispatch"]
      /\ UNCHANGED <<setting, open, fdcbs, queued, fdcol, fdToCore, interest,
                     owner, loot, found, again, used, freed, panic>>
  BY Constants DEF PostCheck, Goto, TypeOK, FdInv, InPlace, Handling, Check,
                   regVars
<1> HIDE DEF k, c
<1>2. /\ tasks[c] \in Seq(Check) /\ Len(tasks'[c]) = Len(tasks[c]) + 1
      /\ tasks'[c][Len(tasks[c]) + 1] = k
      /\ \A i \in DOMAIN tasks[c] : tasks'[c][i] = tasks[c][i]
      /\ \A d \in Colors : d # c => tasks'[d] = tasks[d]
      /\ DOMAIN tasks[c] = 1 .. Len(tasks[c])
      /\ DOMAIN tasks'[c] = 1 .. Len(tasks[c]) + 1
      /\ tasks' \in [Colors -> Seq(Check)]
  BY <1>1 DEF TypeOK
<1>3. TypeOK'
  BY <1>1, <1>2 DEF TypeOK, NoCheck, AllOps
<1>4. \A u \in Threads : \/ u # t /\ pc'[u] = pc[u] /\ cur'[u] = cur[u]
                         \/ u = t /\ pc'[u] = "dispatch"
  BY <1>1 DEF TypeOK
<1>5. InPlace' /\ Thieves'
  BY <1>1, <1>4 DEF FdInv, InPlace, Thieves, Handling, Running, Thieving,
                    Stealing
<1>6. Listed' /\ Interested' /\ OneWatch' /\ Fresh' /\ Movable' /\ WritesOnly'
  BY <1>1 DEF FdInv, Listed, Interested, OneWatch, Fresh, Movable, WritesOnly,
              Stealing, Ops
<1>7. ClosedEmpty'
  BY <1>1, <1>4 DEF FdInv, ClosedEmpty, Handling, Running
<1>7a. Accepted'
  BY <1>1, <1>4 DEF FdInv, Accepted, Unwatched, Handling, Running
<1>2a. \A d \in Colors : \A i \in DOMAIN tasks'[d] :
         \/ tasks'[d][i] = k /\ d = c
         \/ i \in DOMAIN tasks[d] /\ tasks'[d][i] = tasks[d][i]
  BY <1>1, <1>2
<1>8. CallsFirst'
  <2>1. First(k)
    BY <1>1 DEF FdInv, CallsFirst, k
  <2>2. \A l : First(l)' <=> First(l)
    BY <1>1 DEF First
  <2>3. \A d \in Colors : \A i \in DOMAIN tasks'[d] : First(tasks'[d][i])
    BY <1>2a, <2>1 DEF FdInv, CallsFirst
  <2>4. \A u \in Threads :
          /\ pc'[u] = "post" => First(cur'[u])
          /\ pc'[u] = "check" => cur'[u].cb \in freed' \/ First(cur'[u])
          /\ pc'[u] = "check" /\ ~again'[u] =>
               fdcbs'[cur'[u].fd][cur'[u].op] # <<>>
          /\ pc'[u] = "clearing" => fdcbs'[cur'[u].fd][cur'[u].op] = <<>>
    BY <1>1, <1>4 DEF FdInv, CallsFirst
  <2> QED  BY <1>1, <2>2, <2>3, <2>4 DEF CallsFirst
<1>9. OneCheck'
  <2>1. \A d \in Colors : \A i \in DOMAIN tasks'[d] :
          FdColor[tasks'[d][i].fd] = d
    BY <1>2a DEF FdInv, OneCheck, c
  <2>2. \A u \in Threads :
          pc'[u] = "cleared" => ~queued'[cur'[u].fd][cur'[u].op]
    BY <1>1, <1>4 DEF FdInv, OneCheck
  <2>3. ASSUME NEW f \in Fds, NEW o \in AllOps
        PROVE  /\ \A i, j \in Posted(f, o)' : i = j
               /\ \A u, v \in Threads : Has(u, f, o)' /\ Has(v, f, o)' => u = v
               /\ Posted(f, o)' # {} => \A u \in Threads : ~Has(u, f, o)'
               /\ queued'[f][o] <=>
                    Posted(f, o)' # {} \/ \E u \in Threads : Has(u, f, o)'
    <3>1. /\ \A i, j \in Posted(f, o) : i = j
          /\ \A u, v \in Threads : Has(u, f, o) /\ Has(v, f, o) => u = v
          /\ Posted(f, o) # {} => \A u \in Threads : ~Has(u, f, o)
          /\ queued[f][o] <=>
               Posted(f, o) # {} \/ \E u \in Threads : Has(u, f, o)
      BY DEF FdInv, OneCheck
    <3>2. \A u \in Threads : Has(u, f, o)' <=> Has(u, f, o) /\ u # t
      BY <1>4 DEF Has
    <3>3. CASE k.fd = f /\ k.op = o
      <4>1. Has(t, f, o) /\ Posted(f, o) = {}
        BY <1>1, <3>1, <3>3 DEF Has, k
      <4>2. c = FdColor[f]
        BY <3>3 DEF c
      <4>3. \A i \in 1 .. Len(tasks[c]) :
              ~(tasks[c][i].fd = f /\ tasks[c][i].op = o)
        BY <1>2, <4>1, <4>2 DEF Posted
      <4>4. Posted(f, o)' = {i \in 1 .. Len(tasks[c]) + 1 :
                               tasks'[c][i].fd = f /\ tasks'[c][i].op = o}
        BY <1>2, <4>2 DEF Posted
      <4>5. Posted(f, o)' = {Len(tasks[c]) + 1}
        BY <1>2, <3>3, <4>3, <4>4
      <4> QED  BY <1>1, <3>1, <3>2, <4>1, <4>5
    <3>4. CASE ~(k.fd = f /\ k.op = o)
      <4>1. ~Has(t, f, o)
        BY <3>4 DEF Has, k
      <4>2. CASE FdColor[f] # c
        <5>1. Posted(f, o)' = Posted(f, o)
          BY <1>2, <4>2, Constants DEF Posted
        <5> QED  BY <1>1, <3>1, <3>2, <4>1, <5>1
      <4>3. CASE FdColor[f] = c
        <5>1. Posted(f, o)' = {i \in 1 .. Len(tasks[c]) + 1 :
                                 tasks'[c][i].fd = f /\ tasks'[c][i].op = o}
          BY <1>2, <4>3 DEF Posted
        <5>2. Posted(f, o) = {i \in 1 .. Len(tasks[c]) :
                                tasks[c][i].fd = f /\ tasks[c][i].op = o}
          BY <1>2, <4>3 DEF Posted
        <5>3. Posted(f, o)' = Posted(f, o)
          BY <1>2, <3>4, <5>1, <5>2
        <5> QED  BY <1>1, <3>1, <3>2, <4>1, <5>3
      <4> QED  BY <4>2, <4>3
    <3> QED  BY <3>3, <3>4
  <2> QED  BY <2>1, <2>2, <2>3 DEF OneCheck
<1>10. Remembered' /\ WatchedHome'
  <2>1. \A u \in Threads : pc[u] \in {"accepted", "cleared"} =>
          pc'[u] = pc[u] /\ cur'[u] = cur[u]
    BY <1>1, <1>4
  <2>2. \A u \in Threads : pc'[u] = "cleared" =>
          pc[u] = "cleared" /\ cur'[u] = cur[u]
    BY <1>4
  <2>3. \A u \in Threads : pc[u] \in Thieving => pc'[u] = pc[u]
    BY <1>1, <1>4 DEF Thieving
  <2> QED  BY <1>1, <2>1, <2>2, <2>3, SameWatch, SameOwners, SameHomes
           DEF FdInv
<1> QED  BY <1>1, <1>3, <1>5, <1>6, <1>7, <1>7a, <1>8, <1>9, <1>10 DEF FdInv

(* The thread that starts a check watches the descriptor, which no thread  *)
(* is about to put in its set.                                             *)
LEMMA StartsWatched ==
  ASSUME Plain, TypeOK, FdInv, NEW t \in Threads, NEW f \in Fds,
         NEW o \in AllOps, StartCheck(t, f, o)
  PROVE  /\ o \in interest[t][f] /\ ~queued[f][o] /\ fdcbs[f][o] # <<>>
         /\ Stealing => o = "read"
         /\ \A u \in Threads : u # t => interest[u][f] = {}
         /\ \A u \in Threads : pc[u] = "accepted" => cur[u].fd # f
         /\ \A u \in Threads :
              pc[u] = "cleared" => ~(cur[u].fd = f /\ cur[u].op = o)
<1>1. o \in interest[t][f] /\ pc[t] = "dispatch"
  BY DEF StartCheck, NextEvent, FdInv, Fresh
<1>2. ~queued[f][o] /\ fdcbs[f][o] # <<>>
  BY <1>1 DEF FdInv, Interested
<1>3. Stealing => o = "read"
  BY <1>1, ReadsOnly
<1>4. \A u \in Threads : u # t => interest[u][f] = {}
  BY <1>1 DEF FdInv, OneWatch, TypeOK
<1>5. \A u \in Threads : pc[u] = "accepted" => cur[u].fd # f
  BY <1>1 DEF FdInv, Accepted, Unwatched
<1>6. \A u \in Threads :
        pc[u] = "cleared" => ~(cur[u].fd = f /\ cur[u].op = o)
  BY <1>1, RunsAlone DEF Running
<1> QED  BY <1>1, <1>2, <1>3, <1>4, <1>5, <1>6

(* The event is fresh, so that the descriptor is in the set: it is removed,*)
(* and its check is the only one.                                         *)
LEMMA StartCheckKeeps ==
  ASSUME Plain, TypeOK, FdInv, UNCHANGED setting, NEW t \in Threads,
         NEW f \in Fds, NEW o \in AllOps, StartCheck(t, f, o)
  PROVE  TypeOK' /\ FdInv' /\ panic' = panic
<1>0. /\ o \in interest[t][f] /\ ~queued[f][o] /\ fdcbs[f][o] # <<>>
      /\ Stealing => o = "read"
      /\ \A u \in Threads : u # t => interest[u][f] = {}
      /\ \A u \in Threads : pc[u] = "accepted" => cur[u].fd # f
      /\ \A u \in Threads :
           pc[u] = "cleared" => ~(cur[u].fd = f /\ cur[u].op = o)
  BY StartsWatched
<1> DEFINE k == [fd |-> f, op |-> o, cb |-> Head(fdcbs[f][o])]
           other == OtherToo(fdcbs, queued', f, o)
<1>1. /\ pc[t] = "dispatch"
      /\ found' = [found EXCEPT ![t] = @ \ {<<f, o>>}]
      /\ queued' = [queued EXCEPT ![f][o] = TRUE]
      /\ interest' = [interest EXCEPT ![t][f] = other]
      /\ fdcol' = IF Stealing THEN [fdcol EXCEPT ![FdColor[f]][o] = @ \ {f}]
                              ELSE fdcol
      /\ cur' = [cur EXCEPT ![t] = k]
      /\ pc' = [pc EXCEPT ![t] = "post"]
      /\ UNCHANGED <<open, fdcbs, fdToCore, owner, tasks, loot, again, used,
                     freed>>
  BY DEF StartCheck, NextEvent, EpollRemove, Goto, colorVars
<1>2. panic' = panic
  BY <1>0 DEF StartCheck, Missing, TypeOK
<1>3. k \in Check /\ k.fd = f /\ k.op = o /\ First(k)
  <2>1. fdcbs[f][o] \in Seq(Nat)
    BY DEF TypeOK
  <2> QED  BY <1>0, <2>1 DEF Check, First
<1> HIDE DEF k
<1>4. /\ other \subseteq AllOps /\ o \notin other
      /\ \A p \in other : fdcbs[f][p] # <<>> /\ ~queued[f][p]
      /\ \A p \in AllOps : fdcbs[f][p] # <<>> /\ ~queued[f][p] =>
                             p = o \/ p \in other
      /\ other # {} => fdcbs[f]["write"] # <<>>
      /\ Stealing => other = {}
  <2>1. \A p \in AllOps : p # o => queued'[f][p] = queued[f][p]
    BY <1>1 DEF TypeOK
  <2>2. \A p \in AllOps : p = o \/ p = Other(o)
    BY DEF AllOps, Other
  <2>3. other # {} => fdcbs[f]["write"] # <<>>
    BY <1>0, <2>2, Constants DEF OtherToo
  <2>4. Stealing => other = {}
    BY <2>3, ReadsOnly
  <2> QED  BY <2>1, <2>2, <2>3, <2>4, Constants DEF OtherToo
<1> HIDE DEF other
<1>5. /\ \A u \in Threads : u # t => pc'[u] = pc[u] /\ cur'[u] = cur[u]
                                     /\ found'[u] = found[u]
                                     /\ interest'[u] = interest[u]
      /\ pc'[t] = "post" /\ cur'[t] = k
      /\ found'[t] = found[t] \ {<<f, o>>}
      /\ interest'[t][f] = other
      /\ \A g \in Fds : g # f => interest'[t][g] = interest[t][g]
                                 /\ queued'[g] = queued[g]
      /\ queued'[f][o] = TRUE
      /\ \A p \in AllOps : p # o => queued'[f][p] = queued[f][p]
  BY <1>1 DEF TypeOK
<1>6. TypeOK'
  <2>1. found' \in [Threads -> SUBSET (Fds \X AllOps)]
    BY <1>1 DEF TypeOK
  <2>2. interest' \in [Threads -> [Fds -> SUBSET AllOps]]
    BY <1>1, <1>4 DEF TypeOK
  <2>3. cur' \in [Threads -> [fd : Fds \cup {NoFd}, op : AllOps, cb : Nat]]
    BY <1>1, <1>3 DEF TypeOK, Check
  <2>4. queued' \in [Fds -> [AllOps -> BOOLEAN]]
    BY <1>1 DEF TypeOK
  <2>5. fdcol' \in [Colors -> [AllOps -> SUBSET Fds]]
    <3>1. fdcol \in [Colors -> [AllOps -> SUBSET Fds]]
      BY DEF TypeOK
    <3>2. [fdcol EXCEPT ![FdColor[f]][o] = @ \ {f}]
            \in [Colors -> [AllOps -> SUBSET Fds]]
      BY <3>1
    <3> QED  BY <1>1, <3>1, <3>2
  <2>6. pc' \in [Threads -> {"loop", "dispatch"} \cup Handling \cup Thieving]
    BY <1>1 DEF TypeOK, Handling
  <2> QED  BY <1>1, <1>2, <2>1, <2>2, <2>3, <2>4, <2>5, <2>6 DEF TypeOK
<1>7. InPlace' /\ Thieves'
  BY <1>1, <1>3, <1>5 DEF FdInv, InPlace, Thieves, Handling, Running, Thieving,
                          Stealing
<1>8. Listed' /\ WritesOnly'
  BY <1>1 DEF FdInv, Listed, WritesOnly, Ops
<1>9. f \in open
  BY <1>0 DEF FdInv, ClosedEmpty
<1>10. ClosedEmpty'
  BY <1>1, <1>3, <1>5, <1>9 DEF FdInv, ClosedEmpty, Handling, Running
<1>11. Accepted'
  <2>1. ASSUME NEW u \in Threads, pc'[u] = "accepted"
        PROVE  u # t /\ pc[u] = "accepted" /\ cur'[u] = cur[u]
               /\ cur[u].fd # f /\ cur[u].fd \in Fds
    BY <1>0, <1>5, <2>1 DEF FdInv, InPlace, Handling
  <2>2. \A u \in Threads : pc[u] = "accepted" => cur[u].fd \in open
    BY DEF FdInv, Accepted, Unwatched
  <2>3. \A u, v \in Threads : pc'[u] = "accepted" /\ v # t =>
          interest'[v][cur'[u].fd] = interest[v][cur'[u].fd]
    BY <1>5
  <2>4. \A u \in Threads : pc'[u] = "accepted" =>
          /\ interest'[t][cur'[u].fd] = interest[t][cur'[u].fd]
          /\ queued'[cur'[u].fd] = queued[cur'[u].fd]
    BY <1>5, <2>1
  <2>5. \A v \in Threads :
          pc'[v] \in Handling =>
            \/ pc[v] \in Handling /\ cur[v].fd = cur'[v].fd
            \/ \A u \in Threads : pc'[u] = "accepted" => cur'[u].fd # cur'[v].fd
    BY <1>3, <1>5, <2>1
  <2> QED  BY <1>1, <2>1, <2>2, <2>3, <2>4, <2>5, SameAccepted DEF FdInv
<1>12. CallsFirst'
  <2>1. \A l : First(l)' <=> First(l)
    BY <1>1 DEF First
  <2> QED  BY <1>1, <1>3, <1>5, <2>1 DEF FdInv, CallsFirst
<1>13. OneCheck'
  <2>1. \A g \in Fds, p \in AllOps : Posted(g, p)' = Posted(g, p)
    BY <1>1 DEF Posted
  <2>2. \A u \in Threads, g \in Fds, p \in AllOps :
          Has(u, g, p)' <=> Has(u, g, p) \/ (u = t /\ g = f /\ p = o)
    BY <1>1, <1>3, <1>5 DEF Has
  <2>3. \A g \in Fds, p \in AllOps : ~(g = f /\ p = o) =>
          (queued'[g][p] <=> queued[g][p])
    BY <1>5
  <2>4. ASSUME NEW g \in Fds, NEW p \in AllOps
        PROVE  /\ \A i, j \in Posted(g, p)' : i = j
               /\ \A u, v \in Threads : Has(u, g, p)' /\ Has(v, g, p)' => u = v
               /\ Posted(g, p)' # {} => \A u \in Threads : ~Has(u, g, p)'
               /\ queued'[g][p] <=>
                    Posted(g, p)' # {} \/ \E u \in Threads : Has(u, g, p)'
    <3>1. /\ \A i, j \in Posted(g, p) : i = j
          /\ \A u, v \in Threads : Has(u, g, p) /\ Has(v, g, p) => u = v
          /\ Posted(g, p) # {} => \A u \in Threads : ~Has(u, g, p)
          /\ queued[g][p] <=>
               Posted(g, p) # {} \/ \E u \in Threads : Has(u, g, p)
      BY DEF FdInv, OneCheck
    <3>2. CASE g = f /\ p = o
      BY <1>0, <1>5, <2>1, <2>2, <3>1, <3>2
    <3>3. CASE ~(g = f /\ p = o)
      BY <2>1, <2>2, <2>3, <3>1, <3>3
    <3> QED  BY <3>2, <3>3
  <2>5. \A c \in Colors : \A i \in DOMAIN tasks'[c] :
          FdColor[tasks'[c][i].fd] = c
    BY <1>1 DEF FdInv, OneCheck
  <2>6. ASSUME NEW u \in Threads, pc'[u] = "cleared"
        PROVE  ~queued'[cur'[u].fd][cur'[u].op]
    <3>1. /\ u # t /\ pc[u] = "cleared" /\ cur'[u] = cur[u]
          /\ cur[u].fd \in Fds /\ cur[u].op \in AllOps
      BY <1>5, <2>6 DEF FdInv, InPlace, Handling, Running, TypeOK
    <3>2. ~queued[cur[u].fd][cur[u].op]
      BY <3>1 DEF FdInv, OneCheck
    <3> QED  BY <1>0, <2>3, <3>1, <3>2
  <2> QED  BY <2>4, <2>5, <2>6 DEF OneCheck
<1>14. \A u \in Threads, g \in Fds, p \in AllOps :
         p \in interest'[u][g] <=>
           p \in interest[u][g] /\ ~(u = t /\ g = f /\ p = o)
  <2>1. \A p \in AllOps : p \in other <=> p \in interest[t][f] /\ p # o
    <3>1. ASSUME NEW p \in AllOps, p \in interest[t][f], p # o
          PROVE  p \in other
      BY <1>4, <3>1 DEF FdInv, Interested
    <3>2. ASSUME NEW p \in other
          PROVE  p \in interest[t][f] /\ p # o
      <4>1. p \in AllOps /\ fdcbs[f][p] # <<>> /\ ~queued[f][p] /\ p # o
        BY <1>4
      <4>2. PICK u \in Threads : \/ p \in interest[u][f]
                                 \/ /\ pc[u] \in {"accepted", "cleared"}
                                    /\ cur[u].fd = f
        BY <4>1 DEF FdInv, Remembered
      <4>3. CASE p \in interest[u][f]
        BY <1>0, <4>1, <4>3
      <4>4. CASE pc[u] \in {"accepted", "cleared"} /\ cur[u].fd = f
        <5>1. pc[u] = "cleared"
          BY <1>0, <4>4
        <5>2. \A v \in Threads : interest[v][cur[u].fd] # {} => v = u
          BY <5>1, RunsAlone DEF Running
        <5>3. u = t
          BY <1>0, <4>4, <5>2
        <5> QED  BY <1>1, <5>1, <5>3
      <4> QED  BY <4>2, <4>3, <4>4
    <3> QED  BY <1>4, <3>1, <3>2
  <2> QED  BY <1>5, <2>1
<1>15. \A u \in Threads, g \in Fds : interest'[u][g] \subseteq interest[u][g]
  BY <1>6, <1>14 DEF TypeOK
<1>16. Interested'
  <2> SUFFICES ASSUME NEW u \in Threads, NEW g \in Fds, NEW p \in interest'[u][g]
               PROVE  /\ fdcbs'[g][p] # <<>> /\ ~queued'[g][p]
                      /\ Stealing' => fdToCore'[g] = u
                                      /\ g \in fdcol'[FdColor[g]][p]
    BY DEF Interested
  <2>1. p \in interest[u][g] /\ p \in AllOps
    BY <1>15 DEF TypeOK
  <2>2. ~(g = f /\ p = o)
    BY <1>0, <1>14, <2>1
  <2>3. /\ fdcbs[g][p] # <<>> /\ ~queued[g][p]
        /\ Stealing => fdToCore[g] = u /\ g \in fdcol[FdColor[g]][p]
    BY <2>1 DEF FdInv, Interested
  <2>4. ~queued'[g][p]
    BY <1>5, <2>1, <2>2, <2>3
  <2>5. g \in fdcol[FdColor[g]][p] => g \in fdcol'[FdColor[g]][p]
    BY <1>1, <2>1, <2>2, Constants DEF TypeOK
  <2> QED  BY <1>1, <2>3, <2>4, <2>5 DEF Stealing
<1>17. Remembered'
  <2> SUFFICES ASSUME NEW g \in Fds, NEW p \in AllOps,
                      fdcbs'[g][p] # <<>>, ~queued'[g][p],
                      \A u \in Threads : p \notin interest'[u][g]
               PROVE  \E u \in Threads : /\ pc'[u] \in {"accepted", "cleared"}
                                         /\ cur'[u].fd = g /\ cur'[u].op = p
    BY DEF Remembered
  <2>1. ~(g = f /\ p = o) /\ ~queued[g][p]
    BY <1>5
  <2>2. \A u \in Threads : p \notin interest[u][g]
    BY <1>14, <2>1
  <2>3. PICK u \in Threads : /\ pc[u] \in {"accepted", "cleared"}
                             /\ cur[u].fd = g /\ cur[u].op = p
    BY <1>1, <2>1, <2>2 DEF FdInv, Remembered
  <2>4. u # t
    BY <1>1, <2>3
  <2> QED  BY <1>5, <2>3, <2>4
<1>18. OneWatch'
  BY <1>15 DEF FdInv, OneWatch
<1>19. Fresh'
  <2>1. \A u \in Threads, g \in Fds, p \in AllOps :
          <<g, p>> \in found'[u] =>
            <<g, p>> \in found[u] /\ ~(u = t /\ g = f /\ p = o)
    BY <1>5
  <2> QED  BY <1>1, <1>14, <2>1 DEF FdInv, Fresh, Stealing
<1>20. Movable'
  <2> SUFFICES ASSUME Stealing, NEW g \in Fds, NEW c \in Colors,
                      NEW p \in AllOps, g \in fdcol'[c][p]
               PROVE  c = FdColor[g] /\ \E u \in Threads : p \in interest'[u][g]
    BY DEF Movable, Stealing
  <2>1. g \in fdcol[c][p] /\ ~(c = FdColor[f] /\ p = o /\ g = f)
    BY <1>1, Constants DEF TypeOK
  <2>2. c = FdColor[g] /\ \E u \in Threads : p \in interest[u][g]
    BY <2>1 DEF FdInv, Movable
  <2> QED  BY <1>14, <2>1, <2>2
<1>21. WatchedHome'
  <2> SUFFICES ASSUME NEW u \in Threads, NEW g \in Fds, interest'[u][g] # {},
                      ~setting.anywhere \/ Touched(g)'
               PROVE  AtHome(u, FdColor[g])'
    BY DEF WatchedHome
  <2>1. interest[u][g] # {}
    BY <1>15
  <2>2. ~setting.anywhere \/ Touched(g)
    <3>1. CASE g = f
      <4>1. u = t
        BY <1>0, <2>1, <3>1
      <4>2. fdcbs[f]["write"] # <<>>
        BY <1>4, <1>5, <3>1, <4>1
      <4> QED  BY <3>1, <4>2 DEF Touched
    <3>2. CASE g # f
      <4>1. Touched(g)' => Touched(g)
        BY <1>1, <1>5, <3>2 DEF Touched
      <4> QED  BY <4>1
    <3> QED  BY <3>1, <3>2
  <2>3. AtHome(u, FdColor[g])
    BY <2>1, <2>2 DEF FdInv, WatchedHome
  <2>4. \A v \in Threads : pc[v] \in Thieving => pc'[v] = pc[v]
    BY <1>1, <1>5 DEF Thieving
  <2> QED  BY <1>1, <2>3, <2>4, SameOwners, Constants
<1> QED  BY <1>2, <1>6, <1>7, <1>8, <1>10, <1>11, <1>12, <1>13, <1>16, <1>17,
            <1>18, <1>19, <1>20, <1>21 DEF FdInv

-----------------------------------------------------------------------------
(* do_fd_check *)

(* The first task of a color is the check that runs. *)
LEMMA RunCheckKeeps ==
  ASSUME Plain, TypeOK, FdInv, UNCHANGED setting, NEW t \in Threads,
         NEW c \in Colors, RunCheck(t, c)
  PROVE  TypeOK' /\ FdInv' /\ panic' = panic
<1> DEFINE k == Head(tasks[c])
<1>1. /\ pc[t] = "loop" /\ owner[c] = t /\ tasks[c] # <<>>
      /\ tasks' = [tasks EXCEPT ![c] = Tail(@)]
      /\ cur' = [cur EXCEPT ![t] = k]
      /\ again' = [again EXCEPT ![t] = TRUE]
      /\ pc' = [pc EXCEPT ![t] = "check"]
      /\ UNCHANGED <<open, fdcbs, queued, fdcol, fdToCore, interest, owner,
                     loot, found, used, freed, panic>>
  BY DEF RunCheck, Goto, regVars
<1>2. /\ tasks[c] \in Seq(Check) /\ Len(tasks[c]) \in Nat /\ Len(tasks[c]) > 0
      /\ k \in Check /\ k = tasks[c][1]
      /\ Tail(tasks[c]) \in Seq(Check)
      /\ DOMAIN tasks[c] = 1 .. Len(tasks[c])
      /\ DOMAIN Tail(tasks[c]) = 1 .. Len(tasks[c]) - 1
      /\ \A i \in 1 .. Len(tasks[c]) - 1 : Tail(tasks[c])[i] = tasks[c][i + 1]
  <2>1. tasks[c] \in Seq(Check)
    BY DEF TypeOK
  <2> QED  BY <1>1, <2>1
<1>3. /\ k.fd \in Fds /\ k.op \in AllOps /\ k.cb \in Nat
      /\ FdColor[k.fd] = c /\ First(k) /\ 1 \in Posted(k.fd, k.op)
      /\ queued[k.fd][k.op]
  <2>1. k.fd \in Fds /\ k.op \in AllOps /\ k.cb \in Nat
    BY <1>2 DEF Check
  <2>2. FdColor[k.fd] = c /\ First(k)
    BY <1>2 DEF FdInv, OneCheck, CallsFirst
  <2>3. 1 \in Posted(k.fd, k.op)
    BY <1>2, <2>2 DEF Posted
  <2>4. queued[k.fd][k.op]
    BY <2>1, <2>3 DEF FdInv, OneCheck
  <2> QED  BY <2>1, <2>2, <2>3, <2>4
<1> HIDE DEF k
<1>4. /\ \A u \in Threads : u # t => pc'[u] = pc[u] /\ cur'[u] = cur[u]
                                     /\ again'[u] = again[u]
      /\ pc'[t] = "check" /\ cur'[t] = k /\ again'[t] = TRUE
      /\ tasks'[c] = Tail(tasks[c])
      /\ \A d \in Colors : d # c => tasks'[d] = tasks[d]
  BY <1>1 DEF TypeOK
<1>4a. \A d \in Colors : \A i \in DOMAIN tasks'[d] :
         \E j \in DOMAIN tasks[d] : tasks'[d][i] = tasks[d][j]
  <2>1. TAKE d \in Colors
  <2>2. CASE d = c
    <3>1. tasks'[d] = Tail(tasks[c])
      BY <1>4, <2>2
    <3>2. \A i \in DOMAIN Tail(tasks[c]) :
            i + 1 \in DOMAIN tasks[c] /\ Tail(tasks[c])[i] = tasks[c][i + 1]
      BY <1>2
    <3> QED  BY <2>2, <3>1, <3>2
  <2>3. CASE d # c
    BY <1>4, <2>3
  <2> QED  BY <2>2, <2>3
<1>5. TypeOK'
  <2>1. cur' \in [Threads -> [fd : Fds \cup {NoFd}, op : AllOps, cb : Nat]]
    BY <1>1, <1>2 DEF TypeOK, Check
  <2>2. tasks' \in [Colors -> Seq(Check)]
    BY <1>1, <1>2 DEF TypeOK
  <2>3. pc' \in [Threads -> {"loop", "dispatch"} \cup Handling \cup Thieving]
    BY <1>1 DEF TypeOK, Handling, Running
  <2>4. again' \in [Threads -> BOOLEAN]
    BY <1>1 DEF TypeOK
  <2> QED  BY <1>1, <2>1, <2>2, <2>3, <2>4 DEF TypeOK
<1>6. InPlace'
  BY <1>1, <1>3, <1>4 DEF FdInv, InPlace, Handling, Running
<1>7. Thieves'
  BY <1>1, <1>4 DEF FdInv, Thieves, Thieving, Stealing
<1>8. Listed' /\ Interested' /\ OneWatch' /\ Fresh' /\ Movable' /\ WritesOnly'
  BY <1>1 DEF FdInv, Listed, Interested, OneWatch, Fresh, Movable, WritesOnly,
              Stealing, Ops
<1>9. k.fd \in open
  BY <1>3 DEF FdInv, ClosedEmpty, First
<1>10. ClosedEmpty'
  BY <1>1, <1>4, <1>9 DEF FdInv, ClosedEmpty
<1>11. Accepted'
  <2>1. \A u \in Threads : pc[u] = "accepted" =>
          cur[u].fd \in open /\ ~queued[cur[u].fd][k.op]
    BY <1>3 DEF FdInv, Accepted, Unwatched
  <2>2. \A u \in Threads : pc'[u] = "accepted" =>
          pc[u] = "accepted" /\ cur'[u] = cur[u] /\ cur[u].fd # k.fd
    BY <1>3, <1>4, <2>1
  <2>3. \A v \in Threads :
          pc'[v] \in Handling =>
            \/ pc[v] \in Handling /\ cur[v].fd = cur'[v].fd
            \/ \A u \in Threads : pc'[u] = "accepted" => cur'[u].fd # cur'[v].fd
    BY <1>4, <2>2
  <2>4. \A u \in Threads : pc'[u] = "accepted" => cur'[u].fd \in Fds
    BY <2>2 DEF FdInv, InPlace, Handling
  <2> QED  BY <1>1, <2>1, <2>2, <2>3, <2>4, SameAccepted DEF FdInv
<1>12. CallsFirst'
  <2>1. \A l : First(l)' <=> First(l)
    BY <1>1 DEF First
  <2>2. \A d \in Colors : \A i \in DOMAIN tasks'[d] : First(tasks'[d][i])
    <3>1. \A d \in Colors : \A j \in DOMAIN tasks[d] : First(tasks[d][j])
      BY DEF FdInv, CallsFirst
    <3> QED  BY <1>4a, <3>1
  <2>3. \A u \in Threads :
          /\ pc'[u] = "post" => First(cur'[u])
          /\ pc'[u] = "check" => cur'[u].cb \in freed' \/ First(cur'[u])
          /\ pc'[u] = "check" /\ ~again'[u] =>
               fdcbs'[cur'[u].fd][cur'[u].op] # <<>>
          /\ pc'[u] = "clearing" => fdcbs'[cur'[u].fd][cur'[u].op] = <<>>
    BY <1>1, <1>3, <1>4 DEF FdInv, CallsFirst
  <2> QED  BY <2>1, <2>2, <2>3 DEF CallsFirst
<1>13. OneCheck'
  <2>1. \A u \in Threads, f \in Fds, o \in AllOps :
          Has(u, f, o)' <=> Has(u, f, o) \/ (u = t /\ f = k.fd /\ o = k.op)
    BY <1>1, <1>4 DEF Has
  <2>2. ASSUME NEW f \in Fds, NEW o \in AllOps, FdColor[f] = c
        PROVE  /\ \A i \in Posted(f, o)' : i + 1 \in Posted(f, o)
                                           /\ i \in 1 .. Len(tasks[c]) - 1
               /\ \A i \in Posted(f, o) :
                    /\ i \in 1 .. Len(tasks[c])
                    /\ i > 1 => i - 1 \in Posted(f, o)'
    <3> DEFINE Is(l) == l.fd = f /\ l.op = o
    <3>1. Posted(f, o) = {i \in 1 .. Len(tasks[c]) : Is(tasks[c][i])}
      BY <1>2, <2>2 DEF Posted
    <3>2. Posted(f, o)' = {i \in DOMAIN Tail(tasks[c]) : Is(Tail(tasks[c])[i])}
      BY <1>4, <2>2 DEF Posted
    <3>3. Posted(f, o)' = {i \in 1 .. Len(tasks[c]) - 1 : Is(tasks[c][i + 1])}
      BY <1>2, <3>2
    <3> HIDE DEF Is
    <3>4. \A i \in 1 .. Len(tasks[c]) :
            i > 1 => i - 1 \in 1 .. Len(tasks[c]) - 1 /\ (i - 1) + 1 = i
      BY <1>2
    <3>5. \A i \in 1 .. Len(tasks[c]) - 1 : i + 1 \in 1 .. Len(tasks[c])
      BY <1>2
    <3> QED  BY <3>1, <3>3, <3>4, <3>5
  <2>3. \A f \in Fds, o \in AllOps : FdColor[f] # c =>
          Posted(f, o)' = Posted(f, o)
    BY <1>4, Constants DEF Posted
  <2>4. ASSUME NEW f \in Fds, NEW o \in AllOps
        PROVE  /\ \A i, j \in Posted(f, o)' : i = j
               /\ \A u, v \in Threads : Has(u, f, o)' /\ Has(v, f, o)' => u = v
               /\ Posted(f, o)' # {} => \A u \in Threads : ~Has(u, f, o)'
               /\ queued'[f][o] <=>
                    Posted(f, o)' # {} \/ \E u \in Threads : Has(u, f, o)'
    <3>1. /\ \A i, j \in Posted(f, o) : i = j
          /\ \A u, v \in Threads : Has(u, f, o) /\ Has(v, f, o) => u = v
          /\ Posted(f, o) # {} => \A u \in Threads : ~Has(u, f, o)
          /\ queued[f][o] <=>
               Posted(f, o) # {} \/ \E u \in Threads : Has(u, f, o)
      BY DEF FdInv, OneCheck
    <3>2. CASE FdColor[f] # c
      BY <1>1, <1>3, <2>1, <2>3, <3>1, <3>2
    <3>3. CASE f = k.fd /\ o = k.op
      <4>1. 1 \in Posted(f, o) /\ FdColor[f] = c
        BY <1>3, <3>3
      <4>2. Posted(f, o)' = {}
        BY <2>2, <3>1, <4>1
      <4> QED  BY <1>1, <2>1, <3>1, <3>3, <4>1, <4>2
    <3>4. CASE FdColor[f] = c /\ ~(f = k.fd /\ o = k.op)
      <4>1. 1 \notin Posted(f, o)
        BY <1>2, <3>4 DEF Posted
      <4>2. Posted(f, o)' # {} <=> Posted(f, o) # {}
        BY <2>2, <3>4, <4>1
      <4>3. \A i, j \in Posted(f, o)' : i = j
        BY <2>2, <3>1, <3>4
      <4> QED  BY <1>1, <2>1, <3>1, <3>4, <4>2, <4>3
    <3> QED  BY <3>2, <3>3, <3>4
  <2>5. \A d \in Colors : \A i \in DOMAIN tasks'[d] :
          FdColor[tasks'[d][i].fd] = d
    <3>1. \A d \in Colors : \A j \in DOMAIN tasks[d] : FdColor[tasks[d][j].fd] = d
      BY DEF FdInv, OneCheck
    <3> QED  BY <1>4a, <3>1
  <2>6. \A u \in Threads :
          pc'[u] = "cleared" => ~queued'[cur'[u].fd][cur'[u].op]
    BY <1>1, <1>4 DEF FdInv, OneCheck
  <2> QED  BY <2>4, <2>5, <2>6 DEF OneCheck
<1>14. Remembered' /\ WatchedHome'
  <2>1. \A u \in Threads : pc[u] \in {"accepted", "cleared"} =>
          pc'[u] = pc[u] /\ cur'[u] = cur[u]
    BY <1>1, <1>4
  <2>2. \A u \in Threads : pc'[u] = "cleared" =>
          pc[u] = "cleared" /\ cur'[u] = cur[u]
    BY <1>4
  <2>3. \A u \in Threads : pc[u] \in Thieving => pc'[u] = pc[u]
    BY <1>1, <1>4 DEF Thieving
  <2> QED  BY <1>1, <2>1, <2>2, <2>3, SameWatch, SameOwners, SameHomes
           DEF FdInv
<1> QED  BY <1>1, <1>5, <1>6, <1>7, <1>8, <1>10, <1>11, <1>12, <1>13, <1>14
         DEF FdInv

(* The mark of a check goes with the check. *)
LEMMA OneCheckLess ==
  ASSUME TypeOK, OneCheck, NEW t \in Threads, NEW f \in Fds, NEW o \in AllOps,
         Has(t, f, o), queued' = [queued EXCEPT ![f][o] = FALSE],
         UNCHANGED tasks,
         \A u \in Threads : u # t => pc'[u] = pc[u] /\ cur'[u] = cur[u],
         pc'[t] \in {"cleared", "loop"},
         pc'[t] = "cleared" => cur'[t].fd = f /\ cur'[t].op = o,
         \A u \in Threads : pc[u] = "cleared" =>
           cur[u].fd \in Fds /\ cur[u].op \in AllOps
  PROVE  OneCheck'
<1>1. \A g \in Fds, p \in AllOps : Posted(g, p)' = Posted(g, p)
  BY DEF Posted
<1>2. \A u \in Threads, g \in Fds, p \in AllOps :
        Has(u, g, p)' <=> Has(u, g, p) /\ u # t
  BY DEF Has
<1>3. /\ queued'[f][o] = FALSE
      /\ \A g \in Fds, p \in AllOps : ~(g = f /\ p = o) =>
           (queued'[g][p] <=> queued[g][p])
  BY DEF TypeOK
<1>4. ASSUME NEW g \in Fds, NEW p \in AllOps
      PROVE  /\ \A i, j \in Posted(g, p)' : i = j
             /\ \A u, v \in Threads : Has(u, g, p)' /\ Has(v, g, p)' => u = v
             /\ Posted(g, p)' # {} => \A u \in Threads : ~Has(u, g, p)'
             /\ queued'[g][p] <=>
                  Posted(g, p)' # {} \/ \E u \in Threads : Has(u, g, p)'
  <2>1. /\ \A i, j \in Posted(g, p) : i = j
        /\ \A u, v \in Threads : Has(u, g, p) /\ Has(v, g, p) => u = v
        /\ Posted(g, p) # {} => \A u \in Threads : ~Has(u, g, p)
        /\ queued[g][p] <=>
             Posted(g, p) # {} \/ \E u \in Threads : Has(u, g, p)
    BY DEF OneCheck
  <2>2. CASE g = f /\ p = o
    BY <1>1, <1>2, <1>3, <2>1, <2>2
  <2>3. CASE ~(g = f /\ p = o)
    <3>1. ~Has(t, g, p)
      BY <2>3 DEF Has
    <3> QED  BY <1>1, <1>2, <1>3, <2>1, <2>3, <3>1
  <2> QED  BY <2>2, <2>3
<1>5. \A c \in Colors : \A i \in DOMAIN tasks'[c] : FdColor[tasks'[c][i].fd] = c
  BY DEF OneCheck
<1>6. \A u \in Threads : pc'[u] = "cleared" => ~queued'[cur'[u].fd][cur'[u].op]
  BY <1>3 DEF OneCheck
<1> QED  BY <1>4, <1>5, <1>6 DEF OneCheck

(* A callback that said fdcb_finished is the first, and leaves its list.   *)
LEMMA CallbackEnds ==
  ASSUME Plain, TypeOK, FdInv, NEW t \in Threads, pc[t] = "check",
         fdcbs' = AfterFinished(t), freed' = FreedFinished(t), UNCHANGED used
  PROVE  /\ fdcbs' \in [Fds -> [AllOps -> Seq(Nat)]] /\ freed' \in SUBSET Nat
         /\ freed \subseteq freed' /\ Listed'
         /\ \A g \in Fds, p \in AllOps :
              /\ ~(g = cur[t].fd /\ p = cur[t].op) => fdcbs'[g][p] = fdcbs[g][p]
              /\ fdcbs'[g][p] # <<>> => fdcbs[g][p] # <<>>
<1> DEFINE f == cur[t].fd
           o == cur[t].op
           l == fdcbs[f][o]
<1>1. /\ f \in Fds /\ o \in AllOps /\ cur[t].cb \in Nat /\ l = fdcbs[f][o]
      /\ l \in Seq(Nat)
  BY RunsAlone DEF Running, TypeOK
<1>2. CASE again[t]
  BY <1>2 DEF AfterFinished, FreedFinished, FdInv, Listed, TypeOK
<1>3. CASE ~again[t]
  <2>1. /\ l # <<>> /\ l \in Seq(Nat)
        /\ cur[t].cb \in freed \/ cur[t].cb = l[1]
    BY <1>1, <1>3 DEF FdInv, CallsFirst, First, TypeOK
  <2>1a. cur[t].fd = f /\ cur[t].op = o
    OBVIOUS
  <2> HIDE DEF f, o, l
  <2>2. /\ Tail(l) \in Seq(Nat) /\ DOMAIN Tail(l) = 1 .. Len(l) - 1
        /\ DOMAIN l = 1 .. Len(l) /\ Len(l) \in Nat /\ Len(l) > 0
        /\ \A i \in DOMAIN Tail(l) : i + 1 \in DOMAIN l /\ i + 1 # 1
                                     /\ Tail(l)[i] = l[i + 1]
    BY <2>1
  <2>3. /\ fdcbs' = [fdcbs EXCEPT ![f][o] = Tail(l)]
        /\ freed' = freed \cup {cur[t].cb}
    BY <1>1, <1>3, <2>1a DEF AfterFinished, FreedFinished
  <2>4. /\ fdcbs'[f][o] = Tail(l)
        /\ \A g \in Fds, p \in AllOps :
             ~(g = f /\ p = o) => fdcbs'[g][p] = fdcbs[g][p]
    BY <1>1, <2>3 DEF TypeOK
  <2>5. fdcbs' \in [Fds -> [AllOps -> Seq(Nat)]] /\ freed' \in SUBSET Nat
    <3>1. fdcbs \in [Fds -> [AllOps -> Seq(Nat)]] /\ freed \in SUBSET Nat
      BY DEF TypeOK
    <3>2. Tail(l) \in Seq(Nat)
      BY <2>2
    <3>3. [fdcbs EXCEPT ![f][o] = Tail(l)] \in [Fds -> [AllOps -> Seq(Nat)]]
      BY <1>1, <3>1, <3>2
    <3>4. freed \cup {cur[t].cb} \in SUBSET Nat
      BY <1>1, <3>1
    <3> QED  BY <2>3, <3>3, <3>4
  <2>6. \A g \in Fds, p \in AllOps : \A i \in DOMAIN fdcbs'[g][p] :
          \E j \in DOMAIN fdcbs[g][p] :
            /\ fdcbs'[g][p][i] = fdcbs[g][p][j]
            /\ j = IF g = f /\ p = o THEN i + 1 ELSE i
            /\ ~(g = f /\ p = o /\ j = 1)
    <3>1. TAKE g \in Fds, p \in AllOps
    <3>2. CASE g = f /\ p = o
      <4>1. fdcbs'[g][p] = Tail(l) /\ fdcbs[g][p] = l
        BY <1>1, <2>4, <3>2
      <4>2. \A i \in DOMAIN Tail(l) : \E j \in DOMAIN l :
              /\ Tail(l)[i] = l[j] /\ j = i + 1 /\ j # 1
        BY <2>2
      <4> QED  BY <3>2, <4>1, <4>2
    <3>3. CASE ~(g = f /\ p = o)
      <4>1. fdcbs'[g][p] = fdcbs[g][p]
        BY <2>4, <3>3
      <4> QED  BY <3>3, <4>1
    <3> QED  BY <3>2, <3>3
  <2>7. Listed'
    <3>1. /\ freed \subseteq 1 .. used
          /\ \A g \in Fds, p \in AllOps : \A i \in DOMAIN fdcbs[g][p] :
               fdcbs[g][p][i] \in (1 .. used) \ freed
          /\ \A g, h \in Fds, p, q \in AllOps :
               \A i \in DOMAIN fdcbs[g][p], j \in DOMAIN fdcbs[h][q] :
                 fdcbs[g][p][i] = fdcbs[h][q][j] => g = h /\ p = q /\ i = j
      BY DEF FdInv, Listed
    <3>2. freed' \subseteq 1 .. used
      BY <1>1, <2>1, <2>2, <2>3, <3>1
    <3>3. \A g \in Fds, p \in AllOps : \A i \in DOMAIN fdcbs[g][p] :
            fdcbs[g][p][i] = l[1] => g = f /\ p = o /\ i = 1
      BY <1>1, <2>2, <3>1
    <3>4. \A g \in Fds, p \in AllOps : \A i \in DOMAIN fdcbs'[g][p] :
            fdcbs'[g][p][i] \in (1 .. used) \ freed'
      <4> SUFFICES ASSUME NEW g \in Fds, NEW p \in AllOps,
                          NEW i \in DOMAIN fdcbs'[g][p]
                   PROVE  fdcbs'[g][p][i] \in (1 .. used) \ freed'
        OBVIOUS
      <4>1. PICK j \in DOMAIN fdcbs[g][p] :
              fdcbs'[g][p][i] = fdcbs[g][p][j] /\ ~(g = f /\ p = o /\ j = 1)
        BY <2>6
      <4>2. fdcbs[g][p][j] \in (1 .. used) \ freed /\ fdcbs[g][p][j] # l[1]
        BY <3>1, <3>3, <4>1
      <4> QED  BY <2>1, <2>3, <4>1, <4>2
    <3>5. ASSUME NEW g \in Fds, NEW h \in Fds, NEW p \in AllOps,
                 NEW q \in AllOps, NEW i \in DOMAIN fdcbs'[g][p],
                 NEW j \in DOMAIN fdcbs'[h][q],
                 fdcbs'[g][p][i] = fdcbs'[h][q][j]
          PROVE  g = h /\ p = q /\ i = j
      <4>1. fdcbs'[g][p] \in Seq(Nat) /\ fdcbs'[h][q] \in Seq(Nat)
        BY <2>5
      <4>2. i \in Nat /\ j \in Nat
        BY <4>1
      <4> QED  BY <2>6, <3>1, <3>5, <4>2
    <3> QED  BY <3>2, <3>4, <3>5 DEF Listed
  <2>8. \A g \in Fds, p \in AllOps :
          fdcbs'[g][p] # <<>> => fdcbs[g][p] # <<>>
    BY <1>1, <2>1, <2>4
  <2> QED  BY <2>1a, <2>3, <2>4, <2>5, <2>7, <2>8
<1> QED  BY <1>2, <1>3

(* The callback is over: the mark is cleared, or it will be and nothing is *)
(* left to watch.                                                          *)
LEMMA CheckOverKeeps ==
  ASSUME Plain, TypeOK, FdInv, NEW t \in Threads, pc[t] = "check",
         fdcbs' = AfterFinished(t), freed' = FreedFinished(t),
         UNCHANGED <<setting, open, interest, fdcol, fdToCore, colorVars, found,
                     cur, again, used, panic>>,
         \/ /\ queued' = [queued EXCEPT ![cur[t].fd][cur[t].op] = FALSE]
            /\ Goto(t, "cleared")
         \/ /\ AfterFinished(t)[cur[t].fd][cur[t].op] = <<>>
            /\ UNCHANGED queued /\ Goto(t, "clearing")
  PROVE  TypeOK' /\ FdInv'
<1> DEFINE f == cur[t].fd
           o == cur[t].op
<1>1. /\ f \in Fds /\ o \in AllOps /\ owner[FdColor[f]] = t /\ Touched(f)
      /\ queued[f][o] /\ Has(t, f, o)
      /\ \A u \in Threads : pc[u] = "accepted" => cur[u].fd # f
  BY RunsAlone DEF Running, Has
<1>2. /\ fdcbs' \in [Fds -> [AllOps -> Seq(Nat)]] /\ freed' \in SUBSET Nat
      /\ freed \subseteq freed' /\ Listed'
      /\ \A g \in Fds, p \in AllOps :
           /\ ~(g = f /\ p = o) => fdcbs'[g][p] = fdcbs[g][p]
           /\ fdcbs'[g][p] # <<>> => fdcbs[g][p] # <<>>
  BY CallbackEnds
<1>3. /\ pc' \in [Threads -> {"loop", "dispatch"} \cup Handling \cup Thieving]
      /\ \A u \in Threads : u # t => pc'[u] = pc[u]
      /\ pc'[t] \in {"cleared", "clearing"} /\ cur' = cur
      /\ pc'[t] = "clearing" => fdcbs'[f][o] = <<>> /\ queued' = queued
      /\ pc'[t] = "cleared" => queued' = [queued EXCEPT ![f][o] = FALSE]
  BY DEF TypeOK, Goto, Handling, Running
<1>4. /\ \A g \in Fds, p \in AllOps :
           /\ queued'[g][p] => queued[g][p]
           /\ ~(g = f /\ p = o) => queued'[g][p] = queued[g][p]
      /\ queued' \in [Fds -> [AllOps -> BOOLEAN]]
  <2>1. CASE queued' = queued
    BY <2>1 DEF TypeOK
  <2>2. CASE queued' = [queued EXCEPT ![f][o] = FALSE]
    BY <1>1, <2>2 DEF TypeOK
  <2> QED  BY <1>3, <2>1, <2>2
<1>5. \A k : cur[t] = k => f = k.fd /\ o = k.op
  OBVIOUS
<1> HIDE DEF f, o
<1>6. TypeOK'
  BY <1>2, <1>3, <1>4 DEF TypeOK, colorVars
<1>7. InPlace'
  BY <1>1, <1>3, <1>5 DEF FdInv, InPlace, Handling, Running, colorVars
<1>8. Thieves'
  BY <1>3 DEF FdInv, Thieves, Thieving, Stealing, colorVars
<1>9. ClosedEmpty'
  <2> SUFFICES ASSUME NEW g \in Fds \ open
               PROVE  /\ \A p \in AllOps : fdcbs'[g][p] = <<>>
                      /\ \/ setting.reuses
                         \/ /\ \A p \in AllOps : ~queued'[g][p]
                            /\ \A u \in Threads :
                                 pc'[u] \in Handling => cur[u].fd # g
    BY <1>3 DEF ClosedEmpty
  <2>1. /\ \A p \in AllOps : fdcbs[g][p] = <<>>
        /\ \/ setting.reuses
           \/ /\ \A p \in AllOps : ~queued[g][p]
              /\ \A u \in Threads : pc[u] \in Handling => cur[u].fd # g
    BY DEF FdInv, ClosedEmpty
  <2>2. \A u \in Threads : pc'[u] \in Handling => pc[u] \in Handling
    BY <1>3 DEF Handling, Running
  <2>3. \A p \in AllOps : fdcbs'[g][p] = <<>>
    BY <1>2, <2>1
  <2>4. \A p \in AllOps : queued'[g][p] => queued[g][p]
    BY <1>4
  <2> QED  BY <2>1, <2>2, <2>3, <2>4
<1>10. Accepted'
  <2>1. \A g \in Fds : g # f => fdcbs'[g] = fdcbs[g]
    BY <1>2 DEF TypeOK
  <2>2. \A g \in Fds : g # f => queued'[g] = queued[g]
    BY <1>1, <1>3 DEF TypeOK
  <2>3. \A u \in Threads : pc'[u] = "accepted" =>
          /\ pc[u] = "accepted" /\ cur'[u] = cur[u] /\ cur[u].fd # f
          /\ cur[u].fd \in open' /\ cur[u].fd \in Fds
    BY <1>1, <1>3 DEF FdInv, Accepted, Unwatched, InPlace, Handling
  <2>4. \A v \in Threads : pc'[v] \in Handling =>
          pc[v] \in Handling /\ cur[v].fd = cur'[v].fd
    BY <1>3 DEF Handling, Running
  <2> QED  BY <2>1, <2>2, <2>3, <2>4, SameAccepted DEF FdInv
<1>11. OneCheck'
  <2>1. CASE pc'[t] = "clearing"
    <3>1. \A u \in Threads, g \in Fds, p \in AllOps :
            Has(u, g, p)' <=> Has(u, g, p)
      BY <1>3, <2>1 DEF Has
    <3>2. \A u \in Threads : pc'[u] = "cleared" =>
            pc[u] = "cleared" /\ cur'[u] = cur[u]
      BY <1>3, <2>1
    <3>3. OneCheck /\ UNCHANGED <<tasks, queued>>
      BY <1>3, <2>1 DEF FdInv, colorVars
    <3> QED  BY <3>1, <3>2, <3>3, SameChecks
  <2>2. CASE pc'[t] = "cleared"
    <3>1. \A u \in Threads : pc[u] = "cleared" =>
            cur[u].fd \in Fds /\ cur[u].op \in AllOps
      BY RunsAlone DEF Running
    <3>2. /\ OneCheck /\ UNCHANGED tasks /\ cur'[t].fd = f /\ cur'[t].op = o
          /\ queued' = [queued EXCEPT ![f][o] = FALSE]
      BY <1>3, <1>5, <2>2 DEF FdInv, colorVars
    <3> QED  BY <1>1, <1>3, <2>2, <3>1, <3>2, OneCheckLess
  <2> QED  BY <1>3, <2>1, <2>2
<1>12. CallsFirst'
  <2>1. /\ \A u \in Threads : u # t => ~Has(u, f, o)
        /\ Posted(f, o) = {}
    BY <1>1 DEF FdInv, OneCheck
  <2>2. ASSUME NEW c \in Colors, NEW i \in DOMAIN tasks[c]
        PROVE  First(tasks[c][i])'
    <3>a. tasks[c][i] \in Check
      <4>1. tasks[c] \in Seq(Check)
        BY DEF TypeOK
      <4> QED  BY <4>1
    <3>1. /\ tasks[c][i].fd \in Fds /\ tasks[c][i].op \in AllOps
          /\ First(tasks[c][i]) /\ FdColor[tasks[c][i].fd] = c
      BY <3>a DEF Check, FdInv, CallsFirst, OneCheck
    <3>2. ~(tasks[c][i].fd = f /\ tasks[c][i].op = o)
      BY <2>1, <3>1 DEF Posted
    <3>3. UNCHANGED tasks
      BY DEF colorVars
    <3> QED  BY <1>2, <3>1, <3>2, <3>3 DEF First
  <2>3. ASSUME NEW u \in Threads, u # t,
               pc[u] \in {"post", "check", "clearing"}
        PROVE  fdcbs'[cur[u].fd][cur[u].op] = fdcbs[cur[u].fd][cur[u].op]
    <3>1. cur[u].fd \in Fds /\ cur[u].op \in AllOps
      BY <2>3 DEF FdInv, InPlace, Handling, Running, TypeOK
    <3>2. ~(cur[u].fd = f /\ cur[u].op = o)
      BY <2>1, <2>3 DEF Has
    <3> QED  BY <1>2, <3>1, <3>2
  <2>4. \A u \in Threads :
          /\ pc'[u] = "post" => First(cur[u])'
          /\ pc'[u] = "check" => cur'[u].cb \in freed' \/ First(cur[u])'
          /\ pc'[u] = "check" /\ ~again'[u] =>
               fdcbs'[cur'[u].fd][cur'[u].op] # <<>>
          /\ pc'[u] = "clearing" => fdcbs'[cur'[u].fd][cur'[u].op] = <<>>
    <3>1. TAKE u \in Threads
    <3>2. CASE u = t
      BY <1>3, <1>5, <3>2
    <3>3. CASE u # t
      <4>1. pc'[u] = pc[u] /\ cur' = cur /\ again' = again
        BY <1>3, <3>3
      <4>2. /\ pc[u] = "post" => First(cur[u])
            /\ pc[u] = "check" => cur[u].cb \in freed \/ First(cur[u])
            /\ pc[u] = "check" /\ ~again[u] =>
                 fdcbs[cur[u].fd][cur[u].op] # <<>>
            /\ pc[u] = "clearing" => fdcbs[cur[u].fd][cur[u].op] = <<>>
        BY DEF FdInv, CallsFirst
      <4>3. pc[u] \in {"post", "check", "clearing"} =>
              /\ fdcbs'[cur[u].fd][cur[u].op] = fdcbs[cur[u].fd][cur[u].op]
              /\ First(cur[u])' <=> First(cur[u])
        BY <2>3, <3>3, <4>1 DEF First
      <4> QED  BY <1>2, <4>1, <4>2, <4>3
    <3> QED  BY <3>2, <3>3
  <2>5. UNCHANGED <<tasks, cur>>
    BY DEF colorVars
  <2> QED  BY <2>2, <2>4, <2>5 DEF CallsFirst, First
<1>13. Interested'
  <2>1. ASSUME NEW u \in Threads, NEW g \in Fds, NEW p \in interest[u][g]
        PROVE  p \in AllOps /\ ~(g = f /\ p = o)
    BY <1>1, <2>1 DEF FdInv, Interested, TypeOK
  <2>2. ASSUME NEW u \in Threads, NEW g \in Fds, NEW p \in interest'[u][g]
        PROVE  /\ fdcbs'[g][p] # <<>> /\ ~queued'[g][p]
               /\ Stealing => fdToCore[g] = u /\ g \in fdcol[FdColor[g]][p]
    <3>1. p \in interest[u][g]
      OBVIOUS
    <3>2. p \in AllOps /\ ~(g = f /\ p = o)
      BY <2>1, <3>1
    <3>3. /\ fdcbs[g][p] # <<>> /\ ~queued[g][p]
          /\ Stealing => fdToCore[g] = u /\ g \in fdcol[FdColor[g]][p]
      BY <3>1 DEF FdInv, Interested
    <3> QED  BY <1>2, <1>4, <3>2, <3>3
  <2> QED  BY <2>2 DEF Interested, Stealing
<1>14. Remembered'
  <2> SUFFICES ASSUME NEW g \in Fds, NEW p \in AllOps,
                      fdcbs'[g][p] # <<>>, ~queued'[g][p],
                      \A u \in Threads : p \notin interest'[u][g]
               PROVE  \E u \in Threads : /\ pc'[u] \in {"accepted", "cleared"}
                                         /\ cur'[u].fd = g /\ cur'[u].op = p
    BY DEF Remembered
  <2>1. CASE g = f /\ p = o
    BY <1>1, <1>3, <1>5, <2>1
  <2>2. CASE ~(g = f /\ p = o)
    <3>1. /\ fdcbs[g][p] # <<>> /\ ~queued[g][p]
          /\ \A u \in Threads : p \notin interest[u][g]
      BY <1>2, <1>4, <2>2
    <3>2. PICK u \in Threads : /\ pc[u] \in {"accepted", "cleared"}
                               /\ cur[u].fd = g /\ cur[u].op = p
      BY <3>1 DEF FdInv, Remembered
    <3> QED  BY <1>3, <3>2
  <2> QED  BY <2>1, <2>2
<1>15. OneWatch' /\ Fresh' /\ Movable'
  BY DEF FdInv, OneWatch, Fresh, Movable, Stealing
<1>16. WritesOnly'
  BY <1>2, Constants DEF FdInv, WritesOnly, Ops
<1>17. WatchedHome'
  <2>1. \A g \in Fds : Touched(g)' => Touched(g)
    <3> SUFFICES ASSUME NEW g \in Fds, g # f, Touched(g)'
                 PROVE  Touched(g)
      BY <1>1
    <3>1. \A u \in Threads : pc'[u] = "cleared" /\ cur'[u].fd = g =>
                             pc[u] = "cleared" /\ cur[u].fd = g
      BY <1>3, <1>5
    <3> QED  BY <1>2, <1>4, <3>1, Constants DEF Touched
  <2>2. \A u \in Threads : pc[u] \in Thieving => pc'[u] = pc[u]
    BY <1>3 DEF Thieving
  <2>3. UNCHANGED <<setting, owner, loot, interest>>
    BY DEF colorVars
  <2> QED  BY <2>1, <2>2, <2>3, SameOwners, LessTouched DEF FdInv
<1> QED  BY <1>2, <1>6, <1>7, <1>8, <1>9, <1>10, <1>11, <1>12, <1>13, <1>14,
            <1>15, <1>16, <1>17 DEF FdInv

(* The late store of epoll_queued: nothing is left to watch. *)
LEMMA LateClearKeeps ==
  ASSUME Plain, TypeOK, FdInv, UNCHANGED setting, NEW t \in Threads,
         LateClear(t)
  PROVE  TypeOK' /\ FdInv' /\ panic' = panic
<1> DEFINE f == cur[t].fd
           o == cur[t].op
<1>1. /\ f \in Fds /\ o \in AllOps /\ Touched(f) /\ pc[t] = "clearing"
      /\ queued[f][o] /\ Has(t, f, o) /\ fdcbs[f][o] = <<>>
      /\ \A u \in Threads : pc[u] = "accepted" => cur[u].fd # f
  BY RunsAlone DEF LateClear, Running, Has, FdInv, CallsFirst
<1>2. /\ queued' = [queued EXCEPT ![f][o] = FALSE]
      /\ cur' = [cur EXCEPT ![t] = NoCheck]
      /\ pc' = [pc EXCEPT ![t] = "loop"]
      /\ UNCHANGED <<open, fdcbs, fdcol, fdToCore, interest, owner, tasks, loot,
                     found, again, used, freed, panic>>
  BY DEF LateClear, Goto, colorVars
<1> HIDE DEF f, o
<1>3. /\ \A u \in Threads : u # t => pc'[u] = pc[u] /\ cur'[u] = cur[u]
      /\ pc'[t] = "loop" /\ cur'[t] = NoCheck
      /\ \A g \in Fds, p \in AllOps :
           /\ queued'[g][p] => queued[g][p]
           /\ ~(g = f /\ p = o) => queued'[g][p] = queued[g][p]
      /\ \A g \in Fds : g # f => queued'[g] = queued[g]
  BY <1>1, <1>2 DEF TypeOK
<1>4. TypeOK'
  <2>1. cur' \in [Threads -> [fd : Fds \cup {NoFd}, op : AllOps, cb : Nat]]
    BY <1>2 DEF TypeOK, NoCheck, AllOps
  <2>2. queued' \in [Fds -> [AllOps -> BOOLEAN]]
    BY <1>1, <1>2 DEF TypeOK
  <2>3. pc' \in [Threads -> {"loop", "dispatch"} \cup Handling \cup Thieving]
    BY <1>2 DEF TypeOK
  <2> QED  BY <1>2, <2>1, <2>2, <2>3 DEF TypeOK
<1>5. InPlace' /\ Thieves'
  BY <1>1, <1>2, <1>3 DEF FdInv, InPlace, Thieves, Handling, Running, Thieving,
                          Stealing
<1>6. Listed' /\ OneWatch' /\ Fresh' /\ Movable' /\ WritesOnly'
  BY <1>2 DEF FdInv, Listed, OneWatch, Fresh, Movable, WritesOnly, Stealing, Ops
<1>7. ClosedEmpty'
  BY <1>2, <1>3 DEF FdInv, ClosedEmpty, Handling, Running
<1>8. Accepted'
  <2>1. \A u \in Threads : pc'[u] = "accepted" =>
          /\ pc[u] = "accepted" /\ cur'[u] = cur[u] /\ cur[u].fd # f
          /\ cur[u].fd \in open' /\ cur[u].fd \in Fds
    BY <1>1, <1>2, <1>3 DEF FdInv, Accepted, Unwatched, InPlace, Handling
  <2>2. \A v \in Threads : pc'[v] \in Handling =>
          pc[v] \in Handling /\ cur[v].fd = cur'[v].fd
    BY <1>3 DEF Handling, Running
  <2> QED  BY <1>2, <1>3, <2>1, <2>2, SameAccepted DEF FdInv
<1>9. OneCheck'
  <2>1. \A u \in Threads : pc[u] = "cleared" =>
          cur[u].fd \in Fds /\ cur[u].op \in AllOps
    BY RunsAlone DEF Running
  <2> QED  BY <1>1, <1>2, <1>3, <2>1, OneCheckLess DEF FdInv
<1>10. CallsFirst'
  BY <1>2, <1>3 DEF FdInv, CallsFirst, First
<1>11. Interested'
  BY <1>2, <1>3 DEF FdInv, Interested, Stealing, TypeOK
<1>12. Remembered'
  <2> SUFFICES ASSUME NEW g \in Fds, NEW p \in AllOps,
                      fdcbs'[g][p] # <<>>, ~queued'[g][p],
                      \A u \in Threads : p \notin interest'[u][g]
               PROVE  \E u \in Threads : /\ pc'[u] \in {"accepted", "cleared"}
                                         /\ cur'[u].fd = g /\ cur'[u].op = p
    BY DEF Remembered
  <2>1. fdcbs[g][p] # <<>> /\ ~(g = f /\ p = o)
    BY <1>1, <1>2
  <2>2. ~queued[g][p] /\ \A u \in Threads : p \notin interest[u][g]
    BY <1>2, <1>3, <2>1
  <2>3. PICK u \in Threads : /\ pc[u] \in {"accepted", "cleared"}
                             /\ cur[u].fd = g /\ cur[u].op = p
    BY <2>1, <2>2 DEF FdInv, Remembered
  <2> QED  BY <1>1, <1>3, <2>3
<1>13. WatchedHome'
  <2>1. \A g \in Fds : Touched(g)' => Touched(g)
    BY <1>2, <1>3 DEF Touched
  <2>2. \A u \in Threads : pc[u] \in Thieving => pc'[u] = pc[u]
    BY <1>1, <1>3 DEF Thieving
  <2> QED  BY <1>2, <2>1, <2>2, SameOwners, LessTouched DEF FdInv
<1> QED  BY <1>2, <1>4, <1>5, <1>6, <1>7, <1>8, <1>9, <1>10, <1>11, <1>12, <1>13
         DEF FdInv

(* EPOLL_CTL_MOD asks for the other operation too when it is watched, and  *)
(* only then.                                                              *)
LEMMA OtherWatched ==
  ASSUME Plain, TypeOK, FdInv, NEW t \in Threads, NEW f \in Fds,
         NEW o \in AllOps,
         \A u \in Threads : interest[u][f] # {} => u = t,
         \A u \in Threads :
           pc[u] \in {"accepted", "cleared"} /\ cur[u].fd = f => cur[u].op = o
  PROVE  OtherToo(fdcbs, queued, f, o) = interest[t][f] \ {o}
<1>1. ASSUME NEW p \in AllOps
      PROVE  p \in OtherToo(fdcbs, queued, f, o) <=>
               p # o /\ fdcbs[f][p] # <<>> /\ ~queued[f][p]
  BY Constants DEF OtherToo, Other, AllOps
<1>2. ASSUME NEW p \in AllOps, p # o
      PROVE  p \in interest[t][f] <=> fdcbs[f][p] # <<>> /\ ~queued[f][p]
  BY <1>2 DEF FdInv, Interested, Remembered
<1>3. interest[t][f] \subseteq AllOps
  BY DEF TypeOK
<1>4. OtherToo(fdcbs, queued, f, o) \subseteq AllOps
  BY Constants DEF OtherToo
<1> QED  BY <1>1, <1>2, <1>3, <1>4

(* t puts f in its set, which no other set has, for o as well. *)
Watches(t, f, o) ==
  /\ ~queued[f][o] /\ found[t] = {}
  /\ \A u \in Threads : interest[u][f] # {} => u = t
  /\ UNCHANGED <<setting, queued, found>>
  /\ interest' = [interest EXCEPT ![t][f] = @ \cup {o}]
  /\ fdcol' = [fdcol EXCEPT ![FdColor[f]][o] = @ \cup {f}]
  /\ fdToCore' = IF Stealing THEN [fdToCore EXCEPT ![f] = t] ELSE fdToCore
  /\ fdcbs'[f][o] # <<>>
  /\ \A g \in Fds, p \in AllOps :
       ~(g = f /\ p = o) => fdcbs'[g][p] = fdcbs[g][p]
  /\ \A u \in Threads : pc[u] \in {"accepted", "cleared"} =>
       \/ cur[u].fd = f /\ cur[u].op = o
       \/ pc'[u] = pc[u] /\ cur'[u] = cur[u]

(* Then it is watched, by t only, and the events of t are not stale. *)
LEMMA AddWatch ==
  ASSUME Plain, TypeOK, FdInv, NEW t \in Threads, NEW f \in Fds,
         NEW o \in AllOps, Watches(t, f, o)
  PROVE  /\ interest' \in [Threads -> [Fds -> SUBSET AllOps]]
         /\ fdcol' \in [Colors -> [AllOps -> SUBSET Fds]]
         /\ fdToCore' \in [Fds -> Threads \cup {Nobody}]
         /\ \A u \in Threads, g \in Fds :
              u # t \/ g # f => interest'[u][g] = interest[u][g]
         /\ Interested' /\ Remembered' /\ OneWatch' /\ Fresh' /\ Movable'
<1> USE DEF Watches
<1>1. /\ interest' \in [Threads -> [Fds -> SUBSET AllOps]]
      /\ fdcol' \in [Colors -> [AllOps -> SUBSET Fds]]
      /\ fdToCore' \in [Fds -> Threads \cup {Nobody}]
  <2>1. interest' \in [Threads -> [Fds -> SUBSET AllOps]]
    BY DEF TypeOK
  <2>2. fdcol' \in [Colors -> [AllOps -> SUBSET Fds]]
    <3>1. fdcol \in [Colors -> [AllOps -> SUBSET Fds]] /\ FdColor[f] \in Colors
      BY Constants DEF TypeOK
    <3> QED  BY <3>1
  <2>3. fdToCore' \in [Fds -> Threads \cup {Nobody}]
    BY DEF TypeOK
  <2> QED  BY <2>1, <2>2, <2>3
<1>2. \A u \in Threads, g \in Fds, p \in AllOps :
        p \in interest'[u][g] <=>
          p \in interest[u][g] \/ (u = t /\ g = f /\ p = o)
  BY DEF TypeOK
<1>3. \A u \in Threads, g \in Fds :
        u # t \/ g # f => interest'[u][g] = interest[u][g]
  BY DEF TypeOK
<1>4. /\ Stealing => fdToCore'[f] = t
      /\ \A g \in Fds : g # f => fdToCore'[g] = fdToCore[g]
      /\ \A g \in Fds, c \in Colors, p \in AllOps :
           g \in fdcol'[c][p] <=>
             g \in fdcol[c][p] \/ (g = f /\ c = FdColor[f] /\ p = o)
  <2>1. fdToCore \in [Fds -> Threads \cup {Nobody}]
    BY DEF TypeOK
  <2>2. fdcol \in [Colors -> [AllOps -> SUBSET Fds]] /\ FdColor[f] \in Colors
    BY Constants DEF TypeOK
  <2>3. /\ Stealing => fdToCore'[f] = t
        /\ \A g \in Fds : g # f => fdToCore'[g] = fdToCore[g]
    BY <2>1
  <2>4. \A g \in Fds, c \in Colors, p \in AllOps :
          g \in fdcol'[c][p] <=>
            g \in fdcol[c][p] \/ (g = f /\ c = FdColor[f] /\ p = o)
    BY <2>2
  <2> QED  BY <2>3, <2>4
<1>5. Interested'
  <2> SUFFICES ASSUME NEW u \in Threads, NEW g \in Fds, NEW p \in interest'[u][g]
               PROVE  /\ fdcbs'[g][p] # <<>> /\ ~queued[g][p]
                      /\ Stealing => fdToCore'[g] = u
                                     /\ g \in fdcol'[FdColor[g]][p]
    BY DEF Interested, Stealing
  <2>1. p \in AllOps
    BY <1>1
  <2>2. CASE u = t /\ g = f /\ p = o
    BY <1>4, <2>2, Constants
  <2>3. CASE ~(u = t /\ g = f /\ p = o)
    <3>1. p \in interest[u][g]
      BY <1>2, <2>1, <2>3
    <3>2. g = f => u = t
      BY <3>1
    <3>3. /\ fdcbs[g][p] # <<>> /\ ~queued[g][p]
          /\ Stealing => fdToCore[g] = u /\ g \in fdcol[FdColor[g]][p]
      BY <3>1 DEF FdInv, Interested
    <3> QED  BY <1>4, <2>1, <2>3, <3>2, <3>3, Constants
  <2> QED  BY <2>2, <2>3
<1>6. Remembered'
  <2> SUFFICES ASSUME NEW g \in Fds, NEW p \in AllOps,
                      fdcbs'[g][p] # <<>>, ~queued[g][p],
                      \A u \in Threads : p \notin interest'[u][g]
               PROVE  \E u \in Threads : /\ pc'[u] \in {"accepted", "cleared"}
                                         /\ cur'[u].fd = g /\ cur'[u].op = p
    BY DEF Remembered
  <2>1. ~(g = f /\ p = o)
    BY <1>2
  <2>2. fdcbs[g][p] # <<>> /\ \A u \in Threads : p \notin interest[u][g]
    BY <1>2, <2>1
  <2>3. PICK u \in Threads : /\ pc[u] \in {"accepted", "cleared"}
                             /\ cur[u].fd = g /\ cur[u].op = p
    BY <2>2 DEF FdInv, Remembered
  <2> QED  BY <2>1, <2>3
<1>7. OneWatch'
  <2>1. \A u, v \in Threads, g \in Fds :
          interest[u][g] # {} /\ interest[v][g] # {} => u = v
    BY DEF FdInv, OneWatch
  <2> QED  BY <1>3, <2>1 DEF OneWatch
<1>8. Fresh'
  <2> SUFFICES ASSUME NEW u \in Threads, NEW g \in Fds, NEW p \in AllOps,
                      <<g, p>> \in found[u], Stealing => fdToCore'[g] = u
               PROVE  p \in interest'[u][g]
    BY DEF Fresh, Stealing
  <2>1. u # t
    OBVIOUS
  <2>2. Stealing => fdToCore[g] = u
    BY <1>4, <2>1
  <2>3. p \in interest[u][g]
    BY <2>2 DEF FdInv, Fresh
  <2> QED  BY <1>2, <2>3
<1>9. Movable'
  <2> SUFFICES ASSUME Stealing, NEW g \in Fds, NEW c \in Colors,
                      NEW p \in AllOps, g \in fdcol'[c][p]
               PROVE  c = FdColor[g] /\ \E u \in Threads : p \in interest'[u][g]
    BY DEF Movable, Stealing
  <2>1. CASE g = f /\ c = FdColor[f] /\ p = o
    BY <1>2, <2>1
  <2>2. CASE g \in fdcol[c][p]
    <3>1. c = FdColor[g] /\ \E u \in Threads : p \in interest[u][g]
      BY <2>2 DEF FdInv, Movable
    <3> QED  BY <1>2, <3>1
  <2> QED  BY <1>4, <2>1, <2>2
<1> QED  BY <1>1, <1>3, <1>5, <1>6, <1>7, <1>8, <1>9

(* The descriptor is put back in the set of the thread that ran the check. *)
LEMMA ReAddKeeps ==
  ASSUME Plain, TypeOK, FdInv, UNCHANGED setting, NEW t \in Threads, ReAdd(t)
  PROVE  TypeOK' /\ FdInv' /\ panic' = panic
<1> DEFINE f == cur[t].fd
           o == cur[t].op
<1>1. /\ f \in Fds /\ o \in AllOps /\ pc[t] = "cleared" /\ ~queued[f][o]
      /\ owner[FdColor[f]] = t /\ Touched(f) /\ found[t] = {}
      /\ \A u \in Threads : interest[u][f] # {} => u = t
      /\ \A u \in Threads : pc[u] = "accepted" => cur[u].fd # f
      /\ \A u \in Threads :
           pc[u] \in Running /\ FdColor[cur[u].fd] = FdColor[f] => u = t
  BY RunsAlone DEF ReAdd, Running, FdInv, OneCheck, InPlace
<1>2. /\ cur' = [cur EXCEPT ![t] = NoCheck]
      /\ pc' = [pc EXCEPT ![t] = "loop"]
      /\ UNCHANGED <<open, fdcbs, queued, owner, tasks, loot, found, again,
                     used, freed>>
  BY DEF ReAdd, Goto, colorVars
<1>3. IF fdcbs[f][o] # <<>>
      THEN /\ interest' = EpollAdd(interest, fdcbs, queued, t, f, o)
           /\ panic' = (panic \/ f \notin open)
           /\ fdcol' = [fdcol EXCEPT ![FdColor[f]][o] = @ \cup {f}]
           /\ fdToCore' = IF Stealing THEN [fdToCore EXCEPT ![f] = t]
                                      ELSE fdToCore
      ELSE /\ fdToCore' = IF Stealing /\ fdcbs[f][Other(o)] = <<>>
                          THEN [fdToCore EXCEPT ![f] = Nobody] ELSE fdToCore
           /\ UNCHANGED <<interest, fdcol, panic>>
  BY DEF ReAdd
<1>4. \A u \in Threads :
        pc[u] \in {"accepted", "cleared"} /\ cur[u].fd = f => cur[u].op = o
  BY <1>1 DEF Running
<1> HIDE DEF f, o
<1>5. /\ \A u \in Threads : u # t => pc'[u] = pc[u] /\ cur'[u] = cur[u]
      /\ pc'[t] = "loop" /\ cur'[t] = NoCheck
  BY <1>2 DEF TypeOK
<1>6. /\ interest' \in [Threads -> [Fds -> SUBSET AllOps]]
      /\ fdcol' \in [Colors -> [AllOps -> SUBSET Fds]]
      /\ fdToCore' \in [Fds -> Threads \cup {Nobody}]
      /\ Interested' /\ Remembered' /\ OneWatch' /\ Fresh' /\ Movable'
      /\ \A u \in Threads, g \in Fds :
           u # t \/ g # f => interest'[u][g] = interest[u][g]
      /\ panic' = panic
  <2>1. CASE fdcbs[f][o] # <<>>
    <3>1. OtherToo(fdcbs, queued, f, o) = interest[t][f] \ {o}
      BY <1>1, <1>4, OtherWatched
    <3>2. interest' = [interest EXCEPT ![t][f] = @ \cup {o}]
      BY <1>3, <2>1, <3>1 DEF EpollAdd
    <3>3. panic' = panic
      BY <1>1, <1>3, <2>1 DEF FdInv, ClosedEmpty, TypeOK
    <3>4. \A u \in Threads : pc[u] \in {"accepted", "cleared"} =>
            \/ cur[u].fd = f /\ cur[u].op = o
            \/ pc'[u] = pc[u] /\ cur'[u] = cur[u]
      BY <1>5 DEF f, o
    <3>5. /\ UNCHANGED <<setting, queued, found>>
          /\ fdcbs'[f][o] # <<>>
          /\ \A g \in Fds, p \in AllOps :
               ~(g = f /\ p = o) => fdcbs'[g][p] = fdcbs[g][p]
          /\ fdcol' = [fdcol EXCEPT ![FdColor[f]][o] = @ \cup {f}]
          /\ fdToCore' = IF Stealing THEN [fdToCore EXCEPT ![f] = t]
                                     ELSE fdToCore
      BY <1>2, <1>3, <2>1
    <3>6. \A u \in Threads : interest[u][f] # {} => u = t
      BY <1>1
    <3>7. f \in Fds /\ o \in AllOps /\ ~queued[f][o] /\ found[t] = {}
      BY <1>1
    <3>8. /\ interest' \in [Threads -> [Fds -> SUBSET AllOps]]
          /\ fdcol' \in [Colors -> [AllOps -> SUBSET Fds]]
          /\ fdToCore' \in [Fds -> Threads \cup {Nobody}]
          /\ Interested' /\ Remembered' /\ OneWatch' /\ Fresh' /\ Movable'
          /\ \A u \in Threads, g \in Fds :
               u # t \/ g # f => interest'[u][g] = interest[u][g]
      <4>1. Watches(t, f, o)
        BY <3>2, <3>4, <3>5, <3>6, <3>7 DEF Watches
      <4> QED  BY <3>7, <4>1, AddWatch
    <3> QED  BY <3>3, <3>8
  <2>2. CASE fdcbs[f][o] = <<>>
    <3>1. UNCHANGED <<interest, fdcol, panic, queued, fdcbs, found>>
      BY <1>2, <1>3, <2>2
    <3>2. /\ fdToCore' \in [Fds -> Threads \cup {Nobody}]
          /\ \A g \in Fds : \/ fdToCore'[g] = fdToCore[g]
                            \/ /\ g = f /\ fdToCore'[g] = Nobody
                               /\ fdcbs[f][Other(o)] = <<>>
      BY <1>1, <1>3, <2>2 DEF TypeOK
    <3>3. Interested'
      <4>1. ASSUME NEW u \in Threads, NEW g \in Fds, NEW p \in interest[u][g]
            PROVE  fdToCore'[g] = fdToCore[g]
        <5>1. fdcbs[g][p] # <<>> /\ p \in AllOps
          BY DEF FdInv, Interested, TypeOK
        <5>2. p = o \/ p = Other(o)
          BY <1>1, <5>1, Constants DEF AllOps, Other
        <5> QED  BY <2>2, <3>2, <5>1, <5>2
      <4> QED  BY <3>1, <4>1 DEF FdInv, Interested, Stealing
    <3>4. Fresh'
      BY <3>1, <3>2, Constants DEF FdInv, Fresh, Stealing
    <3>5. Movable' /\ OneWatch'
      BY <3>1 DEF FdInv, Movable, OneWatch, Stealing
    <3>6. Remembered'
      <4> SUFFICES ASSUME NEW g \in Fds, NEW p \in AllOps,
                          fdcbs[g][p] # <<>>, ~queued[g][p],
                          \A u \in Threads : p \notin interest[u][g]
                   PROVE  \E u \in Threads :
                            /\ pc'[u] \in {"accepted", "cleared"}
                            /\ cur'[u].fd = g /\ cur'[u].op = p
        BY <3>1 DEF Remembered
      <4>1. PICK u \in Threads : /\ pc[u] \in {"accepted", "cleared"}
                                 /\ cur[u].fd = g /\ cur[u].op = p
        BY DEF FdInv, Remembered
      <4>2. u # t
        BY <2>2, <4>1 DEF f, o
      <4> QED  BY <1>5, <4>1, <4>2
    <3>7. /\ interest' \in [Threads -> [Fds -> SUBSET AllOps]]
          /\ fdcol' \in [Colors -> [AllOps -> SUBSET Fds]]
      BY <3>1 DEF TypeOK
    <3> QED  BY <3>1, <3>2, <3>3, <3>4, <3>5, <3>6, <3>7
  <2> QED  BY <2>1, <2>2
<1>7. TypeOK'
  <2>1. cur' \in [Threads -> [fd : Fds \cup {NoFd}, op : AllOps, cb : Nat]]
    BY <1>2 DEF TypeOK, NoCheck, AllOps
  <2>2. pc' \in [Threads -> {"loop", "dispatch"} \cup Handling \cup Thieving]
    BY <1>2 DEF TypeOK
  <2> QED  BY <1>2, <1>6, <2>1, <2>2 DEF TypeOK
<1>8. InPlace' /\ Thieves'
  BY <1>1, <1>2, <1>5 DEF FdInv, InPlace, Thieves, Handling, Running, Thieving,
                          Stealing
<1>9. Listed' /\ WritesOnly'
  BY <1>2 DEF FdInv, Listed, WritesOnly, Ops
<1>10. ClosedEmpty'
  BY <1>2, <1>5 DEF FdInv, ClosedEmpty, Handling, Running
<1>11. Accepted'
  <2>1. \A u \in Threads : pc'[u] = "accepted" =>
          /\ pc[u] = "accepted" /\ cur'[u] = cur[u] /\ cur[u].fd # f
          /\ cur[u].fd \in open' /\ cur[u].fd \in Fds
    BY <1>1, <1>2, <1>5 DEF FdInv, Accepted, Unwatched, InPlace, Handling
  <2>2. \A v \in Threads : pc'[v] \in Handling =>
          pc[v] \in Handling /\ cur[v].fd = cur'[v].fd
    BY <1>5 DEF Handling, Running
  <2> QED  BY <1>2, <1>6, <2>1, <2>2, SameAccepted DEF FdInv
<1>12. OneCheck'
  <2>1. \A u \in Threads, g \in Fds, p \in AllOps :
          Has(u, g, p)' <=> Has(u, g, p)
    BY <1>1, <1>5 DEF Has
  <2>2. \A u \in Threads : pc'[u] = "cleared" =>
          pc[u] = "cleared" /\ cur'[u] = cur[u]
    BY <1>5
  <2> QED  BY <1>2, <2>1, <2>2, SameChecks DEF FdInv
<1>13. CallsFirst'
  BY <1>2, <1>5 DEF FdInv, CallsFirst, First
<1>14. WatchedHome'
  <2>1. \A u \in Threads, g \in Fds : interest'[u][g] # {} =>
          interest[u][g] # {} \/ AtHome(u, FdColor[g])
    BY <1>1, <1>6 DEF AtHome
  <2>2. \A g \in Fds : Touched(g)' => Touched(g)
    BY <1>2, <1>5 DEF Touched
  <2>3. \A u \in Threads : pc[u] \in Thieving => pc'[u] = pc[u]
    BY <1>1, <1>5 DEF Thieving
  <2> QED  BY <1>2, <2>1, <2>2, <2>3, SameOwners, LessTouched DEF FdInv
<1> QED  BY <1>6, <1>7, <1>8, <1>9, <1>10, <1>11, <1>12, <1>13, <1>14 DEF FdInv

-----------------------------------------------------------------------------
(* What the program does *)

(* fdcb with a new callback: no thread is past the callback of a check of  *)
(* f for o.                                                                *)
Appends(f, o) ==
  /\ fdcbs' = [fdcbs EXCEPT ![f][o] = Append(@, used + 1)]
  /\ used' = used + 1 /\ UNCHANGED <<freed, tasks>>
  /\ \A u \in Threads : pc'[u] \in {"post", "check", "clearing"} =>
       pc'[u] = pc[u] /\ cur'[u] = cur[u] /\ again'[u] = again[u]
  /\ \A u \in Threads :
       pc[u] = "clearing" => ~(cur[u].fd = f /\ cur[u].op = o)

(* The callback goes to the end of its list, and the checks that are       *)
(* posted still call the first.                                            *)
LEMMA NewCallback ==
  ASSUME TypeOK, FdInv, NEW f \in Fds, NEW o \in AllOps, Appends(f, o)
  PROVE  /\ fdcbs' \in [Fds -> [AllOps -> Seq(Nat)]] /\ used' \in Nat
         /\ Listed' /\ CallsFirst' /\ fdcbs'[f][o] # <<>>
         /\ \A g \in Fds, p \in AllOps :
              /\ ~(g = f /\ p = o) => fdcbs'[g][p] = fdcbs[g][p]
              /\ fdcbs[g][p] # <<>> => fdcbs'[g][p] # <<>>
<1> USE DEF Appends
<1>1. fdcbs \in [Fds -> [AllOps -> Seq(Nat)]] /\ used \in Nat
  BY DEF TypeOK
<1>2. fdcbs[f][o] \in Seq(Nat) /\ used + 1 \in Nat
  BY <1>1
<1>3. fdcbs'[f][o] = Append(fdcbs[f][o], used + 1)
  BY <1>1
<1>4. Append(fdcbs[f][o], used + 1) \in Seq(Nat)
  BY <1>2
<1>5. fdcbs' \in [Fds -> [AllOps -> Seq(Nat)]]
  BY <1>1, <1>4
<1>6. \A g \in Fds, p \in AllOps :
        ~(g = f /\ p = o) => fdcbs'[g][p] = fdcbs[g][p]
  BY <1>1
<1>7. /\ DOMAIN fdcbs'[f][o] = DOMAIN fdcbs[f][o] \cup {Len(fdcbs[f][o]) + 1}
      /\ \A i \in DOMAIN fdcbs[f][o] : fdcbs'[f][o][i] = fdcbs[f][o][i]
      /\ fdcbs'[f][o][Len(fdcbs[f][o]) + 1] = used + 1
      /\ fdcbs'[f][o] # <<>>
      /\ fdcbs[f][o] # <<>> => Head(fdcbs'[f][o]) = Head(fdcbs[f][o])
  BY <1>2, <1>3
<1>8. \A g \in Fds, p \in AllOps : fdcbs[g][p] # <<>> =>
        fdcbs'[g][p] # <<>> /\ Head(fdcbs'[g][p]) = Head(fdcbs[g][p])
  BY <1>6, <1>7
<1>9. ASSUME NEW g \in Fds, NEW p \in AllOps, NEW i \in DOMAIN fdcbs'[g][p]
      PROVE  \/ i \in DOMAIN fdcbs[g][p] /\ fdcbs'[g][p][i] = fdcbs[g][p][i]
             \/ /\ g = f /\ p = o /\ i = Len(fdcbs[f][o]) + 1
                /\ fdcbs'[g][p][i] = used + 1
  BY <1>6, <1>7
<1>10. \A g \in Fds, p \in AllOps : \A i \in DOMAIN fdcbs[g][p] :
         fdcbs[g][p][i] \in (1 .. used) \ freed
  BY DEF FdInv, Listed
<1>11. \A g, h \in Fds, p, q \in AllOps :
         \A i \in DOMAIN fdcbs[g][p], j \in DOMAIN fdcbs[h][q] :
           fdcbs[g][p][i] = fdcbs[h][q][j] => g = h /\ p = q /\ i = j
  BY DEF FdInv, Listed
<1>12. freed \subseteq 1 .. used
  BY DEF FdInv, Listed
<1>13. Listed'
  <2>1. freed' \subseteq 1 .. used' /\ used + 1 \notin freed
    BY <1>1, <1>12
  <2>2. \A g \in Fds, p \in AllOps : \A i \in DOMAIN fdcbs'[g][p] :
          fdcbs'[g][p][i] \in (1 .. used') \ freed'
    BY <1>1, <1>9, <1>10, <2>1
  <2>3. ASSUME NEW g \in Fds, NEW h \in Fds, NEW p \in AllOps,
               NEW q \in AllOps, NEW i \in DOMAIN fdcbs'[g][p],
               NEW j \in DOMAIN fdcbs'[h][q],
               fdcbs'[g][p][i] = fdcbs'[h][q][j]
        PROVE  g = h /\ p = q /\ i = j
    <3>1. \/ i \in DOMAIN fdcbs[g][p] /\ fdcbs'[g][p][i] = fdcbs[g][p][i]
          \/ /\ g = f /\ p = o /\ i = Len(fdcbs[f][o]) + 1
             /\ fdcbs'[g][p][i] = used + 1
      BY <1>9
    <3>2. \/ j \in DOMAIN fdcbs[h][q] /\ fdcbs'[h][q][j] = fdcbs[h][q][j]
          \/ /\ h = f /\ q = o /\ j = Len(fdcbs[f][o]) + 1
             /\ fdcbs'[h][q][j] = used + 1
      BY <1>9
    <3>3. i \in DOMAIN fdcbs[g][p] => fdcbs[g][p][i] \in 1 .. used
      BY <1>10
    <3>4. j \in DOMAIN fdcbs[h][q] => fdcbs[h][q][j] \in 1 .. used
      BY <1>10
    <3>5. used + 1 \notin 1 .. used
      BY <1>1
    <3> QED  BY <1>11, <2>3, <3>1, <3>2, <3>3, <3>4, <3>5
  <2> QED  BY <2>1, <2>2, <2>3 DEF Listed
<1>14. CallsFirst'
  <2>1. ASSUME NEW c \in Colors, NEW i \in DOMAIN tasks[c]
        PROVE  First(tasks[c][i])'
    <3>1. tasks[c] \in Seq(Check)
      BY DEF TypeOK
    <3>2. tasks[c][i] \in Check /\ First(tasks[c][i])
      BY <3>1 DEF FdInv, CallsFirst
    <3>3. tasks[c][i].fd \in Fds /\ tasks[c][i].op \in AllOps
      BY <3>2 DEF Check
    <3> QED  BY <1>8, <3>2, <3>3 DEF First
  <2>2. ASSUME NEW u \in Threads
        PROVE  /\ pc'[u] = "post" => First(cur[u])'
               /\ pc'[u] = "check" => cur'[u].cb \in freed' \/ First(cur[u])'
               /\ pc'[u] = "check" /\ ~again'[u] =>
                    fdcbs'[cur'[u].fd][cur'[u].op] # <<>>
               /\ pc'[u] = "clearing" =>
                    fdcbs'[cur'[u].fd][cur'[u].op] = <<>>
    <3> SUFFICES ASSUME pc'[u] \in {"post", "check", "clearing"}
                 PROVE  /\ pc[u] = "post" => First(cur[u])'
                        /\ pc[u] = "check" => cur[u].cb \in freed
                                              \/ First(cur[u])'
                        /\ pc[u] = "check" /\ ~again[u] =>
                             fdcbs'[cur[u].fd][cur[u].op] # <<>>
                        /\ pc[u] = "clearing" =>
                             fdcbs'[cur[u].fd][cur[u].op] = <<>>
      OBVIOUS
    <3>1. pc'[u] = pc[u] /\ cur'[u] = cur[u]
      OBVIOUS
    <3>2. cur[u].fd \in Fds /\ cur[u].op \in AllOps
      BY <3>1 DEF FdInv, InPlace, Handling, Running, TypeOK
    <3>3. /\ pc[u] = "post" => First(cur[u])
          /\ pc[u] = "check" => cur[u].cb \in freed \/ First(cur[u])
          /\ pc[u] = "check" /\ ~again[u] => fdcbs[cur[u].fd][cur[u].op] # <<>>
          /\ pc[u] = "clearing" => fdcbs[cur[u].fd][cur[u].op] = <<>>
      BY DEF FdInv, CallsFirst
    <3>4. First(cur[u]) => First(cur[u])'
      BY <1>8, <3>1, <3>2 DEF First
    <3>5. pc[u] = "clearing" =>
            fdcbs'[cur[u].fd][cur[u].op] = fdcbs[cur[u].fd][cur[u].op]
      BY <1>6, <3>2
    <3> QED  BY <1>8, <3>2, <3>3, <3>4, <3>5
  <2> QED  BY <2>1, <2>2 DEF CallsFirst, First
<1> QED  BY <1>1, <1>2, <1>5, <1>6, <1>7, <1>8, <1>13, <1>14

(* Of a descriptor that is closed nothing is left, where its color is free.*)
LEMMA ClosedQuiet ==
  ASSUME Plain, TypeOK, FdInv, NEW t \in Threads, NEW f \in Fds \ open,
         pc[t] = "loop", setting.anywhere \/ owner[FdColor[f]] = t
  PROVE  /\ \A o \in AllOps : fdcbs[f][o] = <<>> /\ ~queued[f][o]
         /\ \A u \in Threads : /\ interest[u][f] = {}
                               /\ pc[u] \in Handling => cur[u].fd # f
<1>1. \A o \in AllOps : fdcbs[f][o] = <<>>
  BY DEF FdInv, ClosedEmpty
<1>2. \A u \in Threads : interest[u][f] = {}
  <2>1. \A u \in Threads : interest[u][f] \subseteq AllOps
    BY DEF TypeOK
  <2> QED  BY <1>1, <2>1 DEF FdInv, Interested
<1>3. ASSUME NEW u \in Threads, pc[u] \in Handling, cur[u].fd = f,
             setting.reuses
      PROVE  FALSE
  <2>1. owner[FdColor[f]] = t
    BY <1>3 DEF Plain, SharedNumbers
  <2>2. pc[u] \notin Running
    BY <1>3, <2>1 DEF FdInv, InPlace, Running
  <2>3. pc[u] # "post"
    BY <1>1, <1>3 DEF FdInv, CallsFirst, First, TypeOK
  <2>4. pc[u] # "accepted"
    BY <1>3 DEF FdInv, Accepted, Unwatched
  <2>5. pc[u] # "storing"
    BY DEF FdInv, InPlace
  <2> QED  BY <1>3, <2>2, <2>3, <2>4, <2>5 DEF Handling
<1>4. ASSUME NEW o \in AllOps, queued[f][o], setting.reuses
      PROVE  FALSE
  <2>1. Posted(f, o) # {} \/ \E u \in Threads : Has(u, f, o)
    BY <1>4 DEF FdInv, OneCheck
  <2>2. \A u \in Threads : ~Has(u, f, o)
    BY <1>3, <1>4 DEF Has, Handling, Running
  <2>3. PICK i \in DOMAIN tasks[FdColor[f]] :
          tasks[FdColor[f]][i].fd = f /\ tasks[FdColor[f]][i].op = o
    BY <2>1, <2>2 DEF Posted
  <2>4. First(tasks[FdColor[f]][i])
    BY <2>3, Constants DEF FdInv, CallsFirst
  <2> QED  BY <1>1, <2>3, <2>4 DEF First
<1> QED  BY <1>1, <1>2, <1>3, <1>4 DEF FdInv, ClosedEmpty

(* Nothing is left of the descriptor that accept returns. *)
LEMMA AcceptStoreKeeps ==
  ASSUME Plain, TypeOK, FdInv, UNCHANGED setting, NEW t \in Threads,
         NEW f \in Fds, AcceptStore(t, f)
  PROVE  TypeOK' /\ FdInv' /\ panic' = panic
<1>1. /\ f \notin open /\ pc[t] = "loop" /\ used \in Nat
      /\ setting.anywhere \/ owner[FdColor[f]] = t
  BY DEF AcceptStore, MayAccept, TypeOK
<1>2. /\ open' = open \cup {f} /\ used' = used + 1
      /\ fdcbs' = [fdcbs EXCEPT ![f]["read"] = Append(@, used + 1)]
      /\ cur' = [cur EXCEPT ![t] = [NoCheck EXCEPT !.fd = f]]
      /\ pc' = [pc EXCEPT ![t] = "accepted"]
      /\ UNCHANGED <<queued, interest, fdcol, fdToCore, owner, tasks, loot,
                     found, again, freed, panic>>
  BY DEF AcceptStore, Goto, colorVars
<1>3. /\ \A o \in AllOps : fdcbs[f][o] = <<>> /\ ~queued[f][o]
      /\ \A u \in Threads : /\ interest[u][f] = {}
                            /\ pc[u] \in Handling => cur[u].fd # f
  BY <1>1, ClosedQuiet
<1>4. /\ \A u \in Threads : u # t => pc'[u] = pc[u] /\ cur'[u] = cur[u]
      /\ pc'[t] = "accepted" /\ cur'[t].fd = f /\ cur'[t].op = "read"
      /\ cur'[t] \in Check
  BY <1>2, Constants DEF TypeOK, NoCheck, Check
<1>5. /\ fdcbs' \in [Fds -> [AllOps -> Seq(Nat)]] /\ used' \in Nat
      /\ Listed' /\ CallsFirst' /\ fdcbs'[f]["read"] # <<>>
      /\ \A g \in Fds, p \in AllOps :
           /\ ~(g = f /\ p = "read") => fdcbs'[g][p] = fdcbs[g][p]
           /\ fdcbs[g][p] # <<>> => fdcbs'[g][p] # <<>>
  <2>1. \A u \in Threads : pc'[u] \in {"post", "check", "clearing"} =>
          pc'[u] = pc[u] /\ cur'[u] = cur[u] /\ again'[u] = again[u]
    BY <1>2, <1>4
  <2>2. \A u \in Threads :
          pc[u] = "clearing" => ~(cur[u].fd = f /\ cur[u].op = "read")
    BY <1>3 DEF Handling, Running
  <2>3. UNCHANGED <<freed, tasks>> /\ "read" \in AllOps
    BY <1>2, Constants
  <2>4. Appends(f, "read")
    BY <1>2, <2>1, <2>2, <2>3 DEF Appends
  <2> QED  BY <2>3, <2>4, NewCallback
<1>6. TypeOK'
  <2>1. cur' \in [Threads -> [fd : Fds \cup {NoFd}, op : AllOps, cb : Nat]]
    BY <1>2, Constants DEF TypeOK, NoCheck
  <2>2. pc' \in [Threads -> {"loop", "dispatch"} \cup Handling \cup Thieving]
    BY <1>2 DEF TypeOK, Handling
  <2>3. open' \subseteq Fds
    BY <1>2 DEF TypeOK
  <2> QED  BY <1>2, <1>5, <2>1, <2>2, <2>3 DEF TypeOK
<1>7. InPlace'
  <2>1. found[t] = {}
    BY <1>1 DEF FdInv, InPlace
  <2> QED  BY <1>1, <1>2, <1>4, <2>1 DEF FdInv, InPlace, Running
<1>8. Thieves' /\ OneWatch' /\ Fresh' /\ Movable'
  BY <1>1, <1>2, <1>4 DEF FdInv, Thieves, OneWatch, Fresh, Movable, Thieving,
                          Stealing
<1>9. ClosedEmpty'
  BY <1>2, <1>4, <1>5, Constants DEF FdInv, ClosedEmpty, TypeOK
<1>10. Accepted'
  <2> SUFFICES ASSUME NEW u \in Threads, pc'[u] = "accepted"
               PROVE  Unwatched(u, cur[u].fd)'
    BY DEF Accepted
  <2>1. CASE u = t
    <3>1. \A v \in Threads : pc'[v] \in Handling /\ cur'[v].fd = f => v = t
      BY <1>3, <1>4
    <3>2. fdcbs'[f]["read"] # <<>> /\ fdcbs'[f]["write"] = <<>>
      BY <1>3, <1>5, Constants
    <3> QED  BY <1>2, <1>3, <1>4, <2>1, <3>1, <3>2 DEF Unwatched
  <2>2. CASE u # t
    <3>1. Unwatched(u, cur[u].fd) /\ pc[u] = "accepted" /\ cur'[u] = cur[u]
      BY <1>4, <2>2 DEF FdInv, Accepted
    <3>2. cur[u].fd \in Fds /\ cur[u].fd # f /\ cur[u].fd \in open'
      BY <1>1, <1>2, <3>1 DEF Unwatched, TypeOK
    <3>3. fdcbs'[cur[u].fd] = fdcbs[cur[u].fd]
      BY <1>2, <3>2 DEF TypeOK
    <3>4. \A v \in Threads : pc'[v] \in Handling /\ cur'[v].fd = cur[u].fd =>
            v = u
      BY <1>4, <3>1, <3>2 DEF Unwatched
    <3> QED  BY <1>2, <3>1, <3>2, <3>3, <3>4 DEF Unwatched
  <2> QED  BY <2>1, <2>2
<1>11. OneCheck'
  <2>1. \A u \in Threads, g \in Fds, p \in AllOps :
          Has(u, g, p)' <=> Has(u, g, p)
    BY <1>1, <1>4 DEF Has
  <2>2. \A u \in Threads : pc'[u] = "cleared" =>
          pc[u] = "cleared" /\ cur'[u] = cur[u]
    BY <1>4
  <2> QED  BY <1>2, <2>1, <2>2, SameChecks DEF FdInv
<1>12. Interested'
  BY <1>2, <1>5 DEF FdInv, Interested, TypeOK, Stealing
<1>13. Remembered'
  <2> SUFFICES ASSUME NEW g \in Fds, NEW p \in AllOps,
                      fdcbs'[g][p] # <<>>, ~queued'[g][p],
                      \A u \in Threads : p \notin interest'[u][g]
               PROVE  \E u \in Threads : /\ pc'[u] \in {"accepted", "cleared"}
                                         /\ cur'[u].fd = g /\ cur'[u].op = p
    BY DEF Remembered
  <2>1. CASE g = f /\ p = "read"
    BY <1>4, <2>1
  <2>2. CASE ~(g = f /\ p = "read")
    <3>1. /\ fdcbs[g][p] # <<>> /\ ~queued[g][p]
          /\ \A u \in Threads : p \notin interest[u][g]
      BY <1>2, <1>5, <2>2
    <3>2. PICK u \in Threads : /\ pc[u] \in {"accepted", "cleared"}
                               /\ cur[u].fd = g /\ cur[u].op = p
      BY <3>1 DEF FdInv, Remembered
    <3> QED  BY <1>1, <1>4, <3>2
  <2> QED  BY <2>1, <2>2
<1>14. WritesOnly'
  BY <1>5, Constants DEF FdInv, WritesOnly, Ops
<1>15. WatchedHome'
  <2>1. \A g \in Fds : Touched(g)' => Touched(g)
    BY <1>1, <1>2, <1>4, <1>5, Constants DEF Touched
  <2>2. \A u \in Threads : pc[u] \in Thieving => pc'[u] = pc[u]
    BY <1>1, <1>4 DEF Thieving
  <2>3. UNCHANGED <<setting, owner, loot, interest>>
    BY <1>2
  <2> QED  BY <2>1, <2>2, <2>3, SameOwners, LessTouched DEF FdInv
<1> QED  BY <1>2, <1>5, <1>6, <1>7, <1>8, <1>9, <1>10, <1>11, <1>12, <1>13,
            <1>14, <1>15 DEF FdInv

(* No check of a descriptor that is accepted is left: the load that passes *)
(* the store of the callback finds no mark.                                *)
LEMMA NoLoadFirst ==
  ASSUME Plain, TypeOK, FdInv, NEW t \in Threads, NEW f \in Fds
  PROVE  ~AcceptLoadFirst(t, f) /\ ~AcceptLateStore(t)
<1>1. ASSUME AcceptLoadFirst(t, f)
      PROVE  FALSE
  <2>1. /\ f \in Fds \ open /\ pc[t] = "loop" /\ queued[f]["read"]
        /\ setting.anywhere \/ owner[FdColor[f]] = t
    BY <1>1 DEF AcceptLoadFirst, MayAccept
  <2> QED  BY <2>1, ClosedQuiet, Constants
<1>2. ~AcceptLateStore(t)
  BY DEF AcceptLateStore, FdInv, InPlace
<1> QED  BY <1>1, <1>2

(* The new descriptor is in one set, that of the acceptor. *)
LEMMA AcceptAddKeeps ==
  ASSUME Plain, TypeOK, FdInv, UNCHANGED setting, NEW t \in Threads,
         AcceptAdd(t)
  PROVE  TypeOK' /\ FdInv' /\ panic' = panic
<1> DEFINE f == cur[t].fd
<1>1. /\ f \in Fds /\ pc[t] = "accepted" /\ cur[t].op = "read"
      /\ \A o \in AllOps : ~queued[f][o]
      /\ fdcbs[f]["read"] # <<>> /\ fdcbs[f]["write"] = <<>>
      /\ found[t] = {} /\ f \in open
      /\ \A u \in Threads : /\ interest[u][f] = {}
                            /\ pc[u] \in Handling /\ cur[u].fd = f => u = t
      /\ ~setting.anywhere => owner[FdColor[f]] = t
  BY DEF AcceptAdd, FdInv, Accepted, Unwatched, InPlace, Handling
<1>2. /\ cur' = [cur EXCEPT ![t] = NoCheck]
      /\ pc' = [pc EXCEPT ![t] = "loop"]
      /\ interest' = EpollAdd(interest, fdcbs, queued, t, f, "read")
      /\ fdcol' = [fdcol EXCEPT ![FdColor[f]]["read"] = @ \cup {f}]
      /\ fdToCore' = IF Stealing THEN [fdToCore EXCEPT ![f] = t] ELSE fdToCore
      /\ UNCHANGED <<open, fdcbs, queued, owner, tasks, loot, found, again,
                     used, freed, panic>>
  BY <1>1, Constants DEF AcceptAdd, Goto, colorVars
<1> HIDE DEF f
<1>3. /\ \A u \in Threads : u # t => pc'[u] = pc[u] /\ cur'[u] = cur[u]
      /\ pc'[t] = "loop" /\ cur'[t] = NoCheck
  BY <1>2 DEF TypeOK
<1>4. /\ interest' \in [Threads -> [Fds -> SUBSET AllOps]]
      /\ fdcol' \in [Colors -> [AllOps -> SUBSET Fds]]
      /\ fdToCore' \in [Fds -> Threads \cup {Nobody}]
      /\ Interested' /\ Remembered' /\ OneWatch' /\ Fresh' /\ Movable'
      /\ \A u \in Threads, g \in Fds :
           u # t \/ g # f => interest'[u][g] = interest[u][g]
  <2>1. \A u \in Threads :
          pc[u] \in {"accepted", "cleared"} /\ cur[u].fd = f =>
            cur[u].op = "read"
    BY <1>1 DEF Handling, Running
  <2>2. OtherToo(fdcbs, queued, f, "read") = interest[t][f] \ {"read"}
    BY <1>1, <2>1, Constants, OtherWatched
  <2>3. interest' = [interest EXCEPT ![t][f] = @ \cup {"read"}]
    BY <1>2, <2>2 DEF EpollAdd
  <2>4. \A u \in Threads : pc[u] \in {"accepted", "cleared"} =>
          \/ cur[u].fd = f /\ cur[u].op = "read"
          \/ pc'[u] = pc[u] /\ cur'[u] = cur[u]
    BY <1>1, <1>3 DEF f
  <2>5. Watches(t, f, "read")
    BY <1>1, <1>2, <2>3, <2>4, Constants DEF Watches
  <2> QED  BY <1>1, <2>5, Constants, AddWatch
<1>5. TypeOK'
  <2>1. cur' \in [Threads -> [fd : Fds \cup {NoFd}, op : AllOps, cb : Nat]]
    BY <1>2 DEF TypeOK, NoCheck, AllOps
  <2>2. pc' \in [Threads -> {"loop", "dispatch"} \cup Handling \cup Thieving]
    BY <1>2 DEF TypeOK
  <2> QED  BY <1>2, <1>4, <2>1, <2>2 DEF TypeOK
<1>6. InPlace' /\ Thieves'
  BY <1>1, <1>2, <1>3 DEF FdInv, InPlace, Thieves, Handling, Running, Thieving,
                          Stealing
<1>7. Listed' /\ WritesOnly'
  BY <1>2 DEF FdInv, Listed, WritesOnly, Ops
<1>8. ClosedEmpty'
  BY <1>2, <1>3 DEF FdInv, ClosedEmpty, Handling, Running
<1>9. Accepted'
  <2>1. \A u \in Threads : pc'[u] = "accepted" =>
          /\ pc[u] = "accepted" /\ cur'[u] = cur[u] /\ cur[u].fd # f
          /\ cur[u].fd \in open' /\ cur[u].fd \in Fds
    BY <1>1, <1>2, <1>3 DEF FdInv, Accepted, Unwatched, InPlace, Handling
  <2>2. \A v \in Threads : pc'[v] \in Handling =>
          pc[v] \in Handling /\ cur[v].fd = cur'[v].fd
    BY <1>3 DEF Handling, Running
  <2> QED  BY <1>2, <1>4, <2>1, <2>2, SameAccepted DEF FdInv
<1>10. OneCheck'
  <2>1. \A u \in Threads, g \in Fds, p \in AllOps :
          Has(u, g, p)' <=> Has(u, g, p)
    BY <1>1, <1>3 DEF Has
  <2>2. \A u \in Threads : pc'[u] = "cleared" =>
          pc[u] = "cleared" /\ cur'[u] = cur[u]
    BY <1>3
  <2> QED  BY <1>2, <2>1, <2>2, SameChecks DEF FdInv
<1>11. CallsFirst'
  BY <1>2, <1>3 DEF FdInv, CallsFirst, First
<1>12. WatchedHome'
  <2>1. \A g \in Fds : Touched(g)' => Touched(g)
    BY <1>2, <1>3 DEF Touched
  <2>2. ~Touched(f) /\ (setting.anywhere \/ AtHome(t, FdColor[f]))
    BY <1>1 DEF Touched, Handling, Running, AtHome
  <2>3. \A u \in Threads : pc[u] \in Thieving => pc'[u] = pc[u]
    BY <1>1, <1>3 DEF Thieving
  <2>4. UNCHANGED <<owner, loot>>
    BY <1>2
  <2>5. \A u \in Threads, c \in Colors : AtHome(u, c) => AtHome(u, c)'
    BY <2>3, <2>4, SameOwners
  <2>6. ASSUME NEW u \in Threads, NEW g \in Fds, interest'[u][g] # {},
               ~setting.anywhere \/ Touched(g)'
        PROVE  AtHome(u, FdColor[g])
    <3>1. CASE u = t /\ g = f
      BY <2>1, <2>2, <2>6, <3>1
    <3>2. CASE u # t \/ g # f
      BY <1>4, <2>1, <2>6, <3>2 DEF FdInv, WatchedHome
    <3> QED  BY <3>1, <3>2
  <2> QED  BY <2>5, <2>6, Constants DEF WatchedHome
<1> QED  BY <1>2, <1>4, <1>5, <1>6, <1>7, <1>8, <1>9, <1>10, <1>11, <1>12
         DEF FdInv

(* A program only acts on a descriptor in the callback of its check: no    *)
(* other thread handles or watches the descriptor.                         *)
LEMMA ActsInCheck ==
  ASSUME Plain, TypeOK, FdInv, NEW t \in Threads, NEW f \in Fds, InColor(t, f)
  PROVE  /\ f \in open /\ pc[t] = "check" /\ cur[t].fd = f /\ found[t] = {}
         /\ cur[t].op \in AllOps /\ owner[FdColor[f]] = t /\ Touched(f)
         /\ Has(t, f, cur[t].op) /\ queued[f][cur[t].op]
         /\ \A u \in Threads : interest[u][f] # {} => u = t
         /\ \A u \in Threads : pc[u] \in Running /\ cur[u].fd = f => u = t
         /\ \A u \in Threads : pc[u] = "accepted" => cur[u].fd # f
         /\ \A o \in AllOps :
              OtherToo(fdcbs, queued, f, o) = interest[t][f] \ {o}
<1>1. f \in open /\ pc[t] = "check" /\ cur[t].fd = f
  BY DEF InColor, Plain, Careful
<1>2. /\ cur[t].op \in AllOps /\ owner[FdColor[f]] = t /\ Touched(f)
      /\ queued[f][cur[t].op]
      /\ \A u \in Threads : interest[u][f] # {} => u = t
      /\ \A u \in Threads : pc[u] \in Running /\ cur[u].fd = f => u = t
      /\ \A u \in Threads : pc[u] = "accepted" => cur[u].fd # f
  BY <1>1, RunsAlone DEF Running
<1>3. found[t] = {} /\ Has(t, f, cur[t].op)
  BY <1>1 DEF FdInv, InPlace, Has
<1>4. \A u \in Threads : pc[u] \in {"accepted", "cleared"} => cur[u].fd # f
  BY <1>1, <1>2 DEF Running
<1>5. \A o \in AllOps : OtherToo(fdcbs, queued, f, o) = interest[t][f] \ {o}
  BY <1>2, <1>4, OtherWatched
<1> QED  BY <1>1, <1>2, <1>3, <1>5

(* fdcb with a callback: the check of f that runs on t keeps its first    *)
(* callback, and a new operation is watched by t.                         *)
LEMMA RegisterKeeps ==
  ASSUME Plain, TypeOK, FdInv, UNCHANGED setting, NEW t \in Threads,
         NEW f \in Fds, NEW o \in AllOps, Register(t, f, o)
  PROVE  TypeOK' /\ FdInv' /\ panic' = panic
<1>1. /\ f \in open /\ pc[t] = "check" /\ cur[t].fd = f /\ found[t] = {}
      /\ owner[FdColor[f]] = t /\ Touched(f) /\ o \in Ops
      /\ \A u \in Threads : interest[u][f] # {} => u = t
      /\ \A u \in Threads : pc[u] \in Running /\ cur[u].fd = f => u = t
      /\ \A u \in Threads : pc[u] = "accepted" => cur[u].fd # f
      /\ OtherToo(fdcbs, queued, f, o) = interest[t][f] \ {o}
  BY ActsInCheck DEF Register
<1>2. /\ used' = used + 1
      /\ fdcbs' = [fdcbs EXCEPT ![f][o] = Append(@, used + 1)]
      /\ UNCHANGED <<open, queued, owner, tasks, loot, found, pc, cur, again,
                     freed, panic>>
  BY DEF Register, colorVars, runVars
<1>3. IF queued[f][o] THEN UNCHANGED <<interest, fdcol, fdToCore>>
      ELSE /\ interest' = EpollAdd(interest, fdcbs', queued, t, f, o)
           /\ fdcol' = [fdcol EXCEPT ![FdColor[f]][o] = @ \cup {f}]
           /\ fdToCore' = IF Stealing THEN [fdToCore EXCEPT ![f] = t]
                                      ELSE fdToCore
  BY DEF Register
<1>4. /\ fdcbs' \in [Fds -> [AllOps -> Seq(Nat)]] /\ used' \in Nat
      /\ Listed' /\ CallsFirst' /\ fdcbs'[f][o] # <<>>
      /\ \A g \in Fds, p \in AllOps :
           /\ ~(g = f /\ p = o) => fdcbs'[g][p] = fdcbs[g][p]
           /\ fdcbs[g][p] # <<>> => fdcbs'[g][p] # <<>>
  <2>1. Appends(f, o)
    BY <1>1, <1>2 DEF Appends, Running
  <2> QED  BY <2>1, NewCallback
<1>5. /\ interest' \in [Threads -> [Fds -> SUBSET AllOps]]
      /\ fdcol' \in [Colors -> [AllOps -> SUBSET Fds]]
      /\ fdToCore' \in [Fds -> Threads \cup {Nobody}]
      /\ Interested' /\ Remembered' /\ OneWatch' /\ Fresh' /\ Movable'
      /\ \A u \in Threads, g \in Fds :
           u # t \/ g # f => interest'[u][g] = interest[u][g]
  <2>1. CASE queued[f][o]
    <3>1. UNCHANGED <<interest, fdcol, fdToCore, queued, found, pc, cur>>
      BY <1>2, <1>3, <2>1
    <3>2. Interested'
      BY <1>4, <3>1 DEF FdInv, Interested, TypeOK, Stealing
    <3>3. Remembered'
      <4> SUFFICES ASSUME NEW g \in Fds, NEW p \in AllOps,
                          fdcbs'[g][p] # <<>>, ~queued[g][p],
                          \A u \in Threads : p \notin interest[u][g]
                   PROVE  \E u \in Threads :
                            /\ pc[u] \in {"accepted", "cleared"}
                            /\ cur[u].fd = g /\ cur[u].op = p
        BY <3>1 DEF Remembered
      <4>1. fdcbs[g][p] # <<>>
        BY <1>4, <2>1
      <4> QED  BY <4>1 DEF FdInv, Remembered
    <3>4. OneWatch' /\ Fresh' /\ Movable'
      BY <3>1 DEF FdInv, OneWatch, Fresh, Movable, Stealing
    <3> QED  BY <3>1, <3>2, <3>3, <3>4 DEF TypeOK
  <2>2. CASE ~queued[f][o]
    <3>1. OtherToo(fdcbs', queued, f, o) = interest[t][f] \ {o}
      <4>1. Other(o) \in AllOps /\ Other(o) # o
        BY Constants
      <4>2. fdcbs'[f][Other(o)] = fdcbs[f][Other(o)]
        BY <1>4, <4>1
      <4> QED  BY <1>1, <4>2 DEF OtherToo
    <3>2. interest' = [interest EXCEPT ![t][f] = @ \cup {o}]
      BY <1>3, <2>2, <3>1 DEF EpollAdd
    <3>3. Watches(t, f, o)
      BY <1>1, <1>2, <1>3, <1>4, <2>2, <3>2 DEF Watches
    <3> QED  BY <3>3, AddWatch
  <2> QED  BY <2>1, <2>2
<1>6. TypeOK'
  BY <1>2, <1>4, <1>5 DEF TypeOK
<1>7. InPlace' /\ Thieves'
  BY <1>2 DEF FdInv, InPlace, Thieves, Stealing
<1>8. ClosedEmpty'
  BY <1>1, <1>2, <1>4 DEF FdInv, ClosedEmpty
<1>9. Accepted'
  <2>1. \A u \in Threads : pc'[u] = "accepted" =>
          /\ pc[u] = "accepted" /\ cur'[u] = cur[u] /\ cur[u].fd # f
          /\ cur[u].fd \in open' /\ cur[u].fd \in Fds
    BY <1>1, <1>2 DEF FdInv, Accepted, Unwatched, InPlace, Handling
  <2>2. \A g \in Fds : g # f => fdcbs'[g] = fdcbs[g]
    BY <1>2 DEF TypeOK
  <2> QED  BY <1>2, <1>5, <2>1, <2>2, SameAccepted DEF FdInv
<1>10. OneCheck'
  <2>1. \A u \in Threads, g \in Fds, p \in AllOps :
          Has(u, g, p)' <=> Has(u, g, p)
    BY <1>2 DEF Has
  <2> QED  BY <1>2, <2>1, SameChecks DEF FdInv
<1>11. WritesOnly'
  <2>1. \A g \in Fds : fdcbs[g]["write"] # <<>> => "write" \in Ops
    BY DEF FdInv, WritesOnly
  <2>2. \A g \in Fds : fdcbs'[g]["write"] # <<>> =>
          o = "write" \/ fdcbs[g]["write"] # <<>>
    BY <1>4, Constants
  <2> QED  BY <1>1, <2>1, <2>2 DEF WritesOnly, Ops
<1>12. WatchedHome'
  <2>1. \A u \in Threads, g \in Fds : interest'[u][g] # {} =>
          interest[u][g] # {} \/ AtHome(u, FdColor[g])
    BY <1>1, <1>5 DEF AtHome
  <2>2. \A g \in Fds : Touched(g)' => Touched(g)
    BY <1>1, <1>2, <1>4, Constants DEF Touched
  <2> QED  BY <1>2, <2>1, <2>2, SameOwners, LessTouched DEF FdInv
<1> QED  BY <1>2, <1>4, <1>5, <1>6, <1>7, <1>8, <1>9, <1>10, <1>11, <1>12
         DEF FdInv

(* close: nothing of the descriptor is in a set. *)
LEMMA CloseKeeps ==
  ASSUME Plain, TypeOK, FdInv, UNCHANGED setting, NEW t \in Threads,
         NEW f \in Fds, Close(t, f)
  PROVE  TypeOK' /\ FdInv' /\ panic' = panic
<1>1. /\ setting.reuses /\ \A o \in AllOps : fdcbs[f][o] = <<>>
      /\ \A u \in Threads : pc[u] = "accepted" => cur[u].fd # f
  BY ActsInCheck DEF Close
<1>2. \A u \in Threads : interest[u][f] = {}
  <2>1. \A u \in Threads : interest[u][f] \subseteq AllOps
    BY DEF TypeOK
  <2> QED  BY <1>1, <2>1 DEF FdInv, Interested
<1>3. interest' = interest
  BY <1>2 DEF Close, TypeOK
<1>4. /\ open' = open \ {f}
      /\ UNCHANGED <<fdcbs, queued, fdcol, fdToCore, owner, tasks, loot, found,
                     pc, cur, again, used, freed, panic>>
  BY DEF Close, regVars, colorVars, runVars
<1>5. TypeOK'
  BY <1>3, <1>4 DEF TypeOK
<1>6. InPlace' /\ Thieves' /\ Listed' /\ CallsFirst' /\ Interested'
      /\ Remembered' /\ OneWatch' /\ Fresh' /\ Movable' /\ WritesOnly'
  BY <1>3, <1>4 DEF FdInv, InPlace, Thieves, Listed, CallsFirst, First,
                    Interested, Remembered, OneWatch, Fresh, Movable,
                    WritesOnly, Stealing, Ops
<1>7. OneCheck' /\ WatchedHome'
  <2>1. \A u \in Threads, g \in Fds, p \in AllOps :
          Has(u, g, p)' <=> Has(u, g, p)
    BY <1>4 DEF Has
  <2>2. OneCheck'
    BY <1>4, <2>1, SameChecks DEF FdInv
  <2> QED  BY <1>3, <1>4, <2>2, SameOwners, SameHomes DEF FdInv
<1>8. ClosedEmpty'
  BY <1>1, <1>4 DEF FdInv, ClosedEmpty
<1>9. Accepted'
  BY <1>1, <1>3, <1>4 DEF FdInv, Accepted, Unwatched
<1> QED  BY <1>4, <1>5, <1>6, <1>7, <1>8, <1>9 DEF FdInv

(* fdcb(f, o, NULL): the callbacks of f for o are freed, and a check of f  *)
(* for o that is under way is the one that t runs.                         *)
LEMMA UnregisterKeeps ==
  ASSUME Plain, TypeOK, FdInv, UNCHANGED setting, NEW t \in Threads,
         NEW f \in Fds, NEW o \in AllOps, Unregister(t, f, o)
  PROVE  TypeOK' /\ FdInv' /\ panic' = panic
<1>1. /\ f \in open /\ pc[t] = "check" /\ cur[t].fd = f /\ found[t] = {}
      /\ owner[FdColor[f]] = t /\ Touched(f) /\ fdcbs[f][o] # <<>>
      /\ \A u \in Threads : interest[u][f] # {} => u = t
      /\ \A u \in Threads : pc[u] \in Running /\ cur[u].fd = f => u = t
      /\ \A u \in Threads : pc[u] = "accepted" => cur[u].fd # f
      /\ OtherToo(fdcbs, queued, f, o) = interest[t][f] \ {o}
      /\ queued[f][o] => Has(t, f, o)
      /\ cur[t].op = o => again[t]
  BY ActsInCheck DEF Unregister, Has, Plain, Careful
<1>2. /\ freed' = freed \cup ToSet(fdcbs[f][o])
      /\ fdcbs' = [fdcbs EXCEPT ![f][o] = <<>>]
      /\ UNCHANGED <<open, queued, fdToCore, owner, tasks, loot, found, pc, cur,
                     again, used>>
  BY DEF Unregister, colorVars, runVars
<1>3. IF queued[f][o] THEN UNCHANGED <<interest, fdcol, panic>>
      ELSE /\ interest' = EpollRemove(interest, fdcbs, queued, t, f, o)
           /\ panic' = (panic \/ Missing(interest, t, f))
           /\ fdcol' = IF Stealing
                       THEN [fdcol EXCEPT ![FdColor[f]][o] = @ \ {f}] ELSE fdcol
  BY DEF Unregister
<1>4. /\ fdcbs \in [Fds -> [AllOps -> Seq(Nat)]] /\ fdcbs[f][o] \in Seq(Nat)
      /\ ToSet(fdcbs[f][o]) = {fdcbs[f][o][i] : i \in DOMAIN fdcbs[f][o]}
  BY DEF TypeOK, ToSet
<1>5. /\ fdcbs' \in [Fds -> [AllOps -> Seq(Nat)]]
      /\ fdcbs'[f][o] = <<>>
      /\ \A g \in Fds, p \in AllOps :
           ~(g = f /\ p = o) => fdcbs'[g][p] = fdcbs[g][p]
      /\ \A g \in Fds : g # f => fdcbs'[g] = fdcbs[g]
      /\ freed' \in SUBSET Nat /\ freed \subseteq freed'
  <2>1. <<>> \in Seq(Nat)
    OBVIOUS
  <2>2. fdcbs' \in [Fds -> [AllOps -> Seq(Nat)]]
    BY <1>2, <1>4, <2>1
  <2>3. ToSet(fdcbs[f][o]) \subseteq Nat
    BY <1>4
  <2> QED  BY <1>2, <1>4, <2>2, <2>3 DEF TypeOK
<1>6. Listed'
  <2>1. \A i \in DOMAIN fdcbs[f][o] : fdcbs[f][o][i] \in 1 .. used
    BY DEF FdInv, Listed
  <2>2. freed' \subseteq 1 .. used'
    <3>1. freed \subseteq 1 .. used
      BY DEF FdInv, Listed
    <3>2. ToSet(fdcbs[f][o]) \subseteq 1 .. used
      BY <1>4, <2>1
    <3> QED  BY <1>2, <3>1, <3>2
  <2>3. ASSUME NEW g \in Fds, NEW p \in AllOps, NEW i \in DOMAIN fdcbs'[g][p]
        PROVE  /\ ~(g = f /\ p = o) /\ fdcbs'[g][p] = fdcbs[g][p]
               /\ fdcbs'[g][p][i] \in (1 .. used') \ freed'
    <3>1. ~(g = f /\ p = o) /\ fdcbs'[g][p] = fdcbs[g][p]
      BY <1>5
    <3>2. fdcbs[g][p][i] \in (1 .. used) \ freed
      BY <3>1 DEF FdInv, Listed
    <3>3. \A j \in DOMAIN fdcbs[f][o] : fdcbs[g][p][i] # fdcbs[f][o][j]
      BY <3>1 DEF FdInv, Listed
    <3> QED  BY <1>2, <1>4, <3>1, <3>2, <3>3
  <2>4. ASSUME NEW g \in Fds, NEW h \in Fds, NEW p \in AllOps,
               NEW q \in AllOps, NEW i \in DOMAIN fdcbs'[g][p],
               NEW j \in DOMAIN fdcbs'[h][q],
               fdcbs'[g][p][i] = fdcbs'[h][q][j]
        PROVE  g = h /\ p = q /\ i = j
    <3>1. fdcbs'[g][p] = fdcbs[g][p] /\ fdcbs'[h][q] = fdcbs[h][q]
      BY <2>3
    <3> QED  BY <2>4, <3>1 DEF FdInv, Listed
  <2> QED  BY <2>2, <2>3, <2>4 DEF Listed
<1>7. /\ Posted(f, o) = {}
      /\ \A u \in Threads : Has(u, f, o) => u = t
  BY <1>1 DEF FdInv, OneCheck
<1>8. CallsFirst'
  <2>1. ASSUME NEW c \in Colors, NEW i \in DOMAIN tasks[c]
        PROVE  First(tasks[c][i])'
    <3>1. tasks[c] \in Seq(Check)
      BY DEF TypeOK
    <3>2. /\ tasks[c][i] \in Check /\ First(tasks[c][i])
          /\ FdColor[tasks[c][i].fd] = c
      BY <3>1 DEF FdInv, CallsFirst, OneCheck
    <3>3. tasks[c][i].fd \in Fds /\ tasks[c][i].op \in AllOps
      BY <3>2 DEF Check
    <3>4. ~(tasks[c][i].fd = f /\ tasks[c][i].op = o)
      BY <1>7, <3>2 DEF Posted
    <3> QED  BY <1>2, <1>5, <3>2, <3>3, <3>4 DEF First
  <2>2. ASSUME NEW u \in Threads, pc[u] \in {"post", "check", "clearing"}
        PROVE  /\ pc[u] = "post" => First(cur[u])'
               /\ pc[u] = "check" => cur[u].cb \in freed' \/ First(cur[u])'
               /\ pc[u] = "check" /\ ~again[u] =>
                    fdcbs'[cur[u].fd][cur[u].op] # <<>>
               /\ pc[u] = "clearing" => fdcbs'[cur[u].fd][cur[u].op] = <<>>
    <3>1. cur[u].fd \in Fds /\ cur[u].op \in AllOps /\ cur' = cur
      BY <1>2, <2>2 DEF FdInv, InPlace, Handling, Running, TypeOK
    <3>2. /\ pc[u] = "post" => First(cur[u])
          /\ pc[u] = "check" => cur[u].cb \in freed \/ First(cur[u])
          /\ pc[u] = "check" /\ ~again[u] => fdcbs[cur[u].fd][cur[u].op] # <<>>
          /\ pc[u] = "clearing" => fdcbs[cur[u].fd][cur[u].op] = <<>>
      BY DEF FdInv, CallsFirst
    <3>3. CASE cur[u].fd = f /\ cur[u].op = o
      <4>1. u = t /\ again[t]
        BY <1>1, <1>7, <2>2, <3>3 DEF Has
      <4>2. First(cur[u]) => cur[u].cb \in ToSet(fdcbs[f][o])
        <5>1. fdcbs[f][o] # <<>> => /\ 1 \in DOMAIN fdcbs[f][o]
                                    /\ Head(fdcbs[f][o]) = fdcbs[f][o][1]
          BY <1>4
        <5> QED  BY <1>4, <3>3, <5>1 DEF First
      <4>3. cur[u].cb \in freed'
        BY <1>1, <1>2, <3>2, <4>1, <4>2
      <4> QED  BY <1>1, <4>1, <4>3
    <3>4. CASE ~(cur[u].fd = f /\ cur[u].op = o)
      <4>1. fdcbs'[cur[u].fd][cur[u].op] = fdcbs[cur[u].fd][cur[u].op]
        BY <1>5, <3>1, <3>4
      <4>2. First(cur[u])' <=> First(cur[u])
        BY <3>1, <4>1 DEF First
      <4> QED  BY <1>5, <3>2, <4>1, <4>2
    <3> QED  BY <3>3, <3>4
  <2> QED  BY <1>2, <2>1, <2>2 DEF CallsFirst, First
<1>9. /\ interest' \in [Threads -> [Fds -> SUBSET AllOps]]
      /\ fdcol' \in [Colors -> [AllOps -> SUBSET Fds]]
      /\ \A u \in Threads, g \in Fds :
           u # t \/ g # f => interest'[u][g] = interest[u][g]
      /\ \A u \in Threads, g \in Fds, p \in AllOps :
           p \in interest'[u][g] <=>
             p \in interest[u][g] /\ ~(g = f /\ p = o)
      /\ \A g \in Fds, c \in Colors, p \in AllOps :
           /\ g \in fdcol'[c][p] => g \in fdcol[c][p]
           /\ g \in fdcol'[c][p] /\ Stealing => ~(g = f /\ p = o)
           /\ ~(g = f /\ p = o) /\ g \in fdcol[c][p] => g \in fdcol'[c][p]
      /\ panic' = panic
  <2>1. CASE queued[f][o]
    <3>1. UNCHANGED <<interest, fdcol, panic>>
      BY <1>3, <2>1
    <3>2. \A u \in Threads : o \notin interest[u][f]
      BY <2>1 DEF FdInv, Interested
    <3>3. \A c \in Colors : Stealing => f \notin fdcol[c][o]
      BY <3>2 DEF FdInv, Movable
    <3> QED  BY <3>1, <3>2, <3>3 DEF TypeOK
  <2>2. CASE ~queued[f][o]
    <3>1. interest' = [interest EXCEPT ![t][f] = interest[t][f] \ {o}]
      BY <1>1, <1>3, <2>2 DEF EpollRemove
    <3>2. interest \in [Threads -> [Fds -> SUBSET AllOps]]
      BY DEF TypeOK
    <3>3. interest' \in [Threads -> [Fds -> SUBSET AllOps]]
      BY <3>1, <3>2
    <3>4. interest'[t][f] = interest[t][f] \ {o}
      BY <3>1, <3>2
    <3>5. \A u \in Threads, g \in Fds :
            u # t \/ g # f => interest'[u][g] = interest[u][g]
      BY <3>1, <3>2
    <3>6. \A u \in Threads : u # t => interest[u][f] = {}
      BY <1>1
    <3>7. \A u \in Threads, g \in Fds, p \in AllOps :
            p \in interest'[u][g] <=> p \in interest[u][g] /\ ~(g = f /\ p = o)
      BY <3>4, <3>5, <3>6
    <3>8. panic' = panic
      <4>1. \A u \in Threads : pc[u] \in {"accepted", "cleared"} =>
              cur[u].fd # f
        BY <1>1 DEF Running
      <4>2. \E u \in Threads : o \in interest[u][f]
        BY <1>1, <2>2, <4>1 DEF FdInv, Remembered
      <4>3. interest[t][f] # {}
        BY <1>1, <4>2
      <4> QED  BY <1>3, <2>2, <4>3 DEF Missing, TypeOK
    <3>9. /\ fdcol' \in [Colors -> [AllOps -> SUBSET Fds]]
          /\ \A g \in Fds, c \in Colors, p \in AllOps :
               /\ g \in fdcol'[c][p] => g \in fdcol[c][p]
               /\ g \in fdcol'[c][p] /\ Stealing => ~(g = f /\ p = o)
               /\ ~(g = f /\ p = o) /\ g \in fdcol[c][p] => g \in fdcol'[c][p]
      <4>1. fdcol \in [Colors -> [AllOps -> SUBSET Fds]] /\ FdColor[f] \in Colors
        BY Constants DEF TypeOK
      <4>2. CASE ~Stealing
        BY <1>3, <2>2, <4>1, <4>2
      <4>3. CASE Stealing
        <5>1. fdcol' = [fdcol EXCEPT ![FdColor[f]][o] = @ \ {f}]
          BY <1>3, <2>2, <4>3
        <5>2. fdcol' \in [Colors -> [AllOps -> SUBSET Fds]]
          BY <4>1, <5>1
        <5>3. \A c \in Colors, p \in AllOps :
                fdcol'[c][p] = IF c = FdColor[f] /\ p = o
                               THEN fdcol[c][p] \ {f} ELSE fdcol[c][p]
          BY <4>1, <5>1
        <5>4. \A c \in Colors : f \in fdcol[c][o] => c = FdColor[f]
          BY <4>3 DEF FdInv, Movable
        <5>5. ASSUME NEW g \in Fds, NEW c \in Colors, NEW p \in AllOps
              PROVE  /\ g \in fdcol'[c][p] => g \in fdcol[c][p]
                     /\ g \in fdcol'[c][p] => ~(g = f /\ p = o)
                     /\ ~(g = f /\ p = o) /\ g \in fdcol[c][p] =>
                          g \in fdcol'[c][p]
          <6>1. CASE c = FdColor[f] /\ p = o
            BY <5>3, <6>1
          <6>2. CASE ~(c = FdColor[f] /\ p = o)
            <7>1. fdcol'[c][p] = fdcol[c][p]
              BY <5>3, <6>2
            <7>2. g \in fdcol[c][p] => ~(g = f /\ p = o)
              BY <5>4, <6>2
            <7> QED  BY <7>1, <7>2
          <6> QED  BY <6>1, <6>2
        <5> QED  BY <5>2, <5>5
      <4> QED  BY <4>2, <4>3
    <3> QED  BY <3>3, <3>5, <3>7, <3>8, <3>9
  <2> QED  BY <2>1, <2>2
<1>10. TypeOK'
  BY <1>2, <1>5, <1>9 DEF TypeOK
<1>11. InPlace' /\ Thieves'
  BY <1>2 DEF FdInv, InPlace, Thieves, Stealing
<1>12. ClosedEmpty'
  BY <1>1, <1>2, <1>5 DEF FdInv, ClosedEmpty
<1>13. Accepted'
  <2>1. \A u \in Threads : pc'[u] = "accepted" =>
          /\ pc[u] = "accepted" /\ cur'[u] = cur[u] /\ cur[u].fd # f
          /\ cur[u].fd \in open' /\ cur[u].fd \in Fds
    BY <1>1, <1>2 DEF FdInv, Accepted, Unwatched, InPlace, Handling
  <2> QED  BY <1>2, <1>5, <1>9, <2>1, SameAccepted DEF FdInv
<1>14. OneCheck'
  <2>1. \A u \in Threads, g \in Fds, p \in AllOps :
          Has(u, g, p)' <=> Has(u, g, p)
    BY <1>2 DEF Has
  <2> QED  BY <1>2, <2>1, SameChecks DEF FdInv
<1>15. Interested'
  <2> SUFFICES ASSUME NEW u \in Threads, NEW g \in Fds, NEW p \in interest'[u][g]
               PROVE  /\ fdcbs'[g][p] # <<>> /\ ~queued[g][p]
                      /\ Stealing => fdToCore[g] = u
                                     /\ g \in fdcol'[FdColor[g]][p]
    BY <1>2 DEF Interested, Stealing
  <2>1. p \in AllOps /\ p \in interest[u][g] /\ ~(g = f /\ p = o)
    BY <1>9
  <2>2. /\ fdcbs[g][p] # <<>> /\ ~queued[g][p]
        /\ Stealing => fdToCore[g] = u /\ g \in fdcol[FdColor[g]][p]
    BY <2>1 DEF FdInv, Interested
  <2>3. fdcbs'[g][p] # <<>>
    BY <1>5, <2>1, <2>2
  <2>4. FdColor[g] \in Colors
    BY Constants
  <2>5. Stealing => g \in fdcol'[FdColor[g]][p]
    BY <1>9, <2>1, <2>2, <2>4
  <2> QED  BY <2>2, <2>3, <2>5
<1>16. Remembered'
  <2> SUFFICES ASSUME NEW g \in Fds, NEW p \in AllOps,
                      fdcbs'[g][p] # <<>>, ~queued'[g][p],
                      \A u \in Threads : p \notin interest'[u][g]
               PROVE  \E u \in Threads : /\ pc'[u] \in {"accepted", "cleared"}
                                         /\ cur'[u].fd = g /\ cur'[u].op = p
    BY DEF Remembered
  <2>1. ~(g = f /\ p = o) /\ fdcbs[g][p] # <<>> /\ ~queued[g][p]
    BY <1>2, <1>5
  <2>2. \A u \in Threads : p \notin interest[u][g]
    BY <1>9, <2>1
  <2>3. PICK u \in Threads : /\ pc[u] \in {"accepted", "cleared"}
                             /\ cur[u].fd = g /\ cur[u].op = p
    BY <2>1, <2>2 DEF FdInv, Remembered
  <2> QED  BY <1>2, <2>3
<1>17. OneWatch' /\ Fresh'
  <2>1. \A u \in Threads, g \in Fds : interest'[u][g] # {} => interest[u][g] # {}
    BY <1>9
  <2>2. OneWatch'
    BY <2>1 DEF FdInv, OneWatch
  <2>3. Fresh'
    <3> SUFFICES ASSUME NEW u \in Threads, NEW g \in Fds, NEW p \in AllOps,
                        <<g, p>> \in found[u], Stealing => fdToCore[g] = u
                 PROVE  p \in interest'[u][g]
      BY <1>2 DEF Fresh, Stealing
    <3>1. u # t /\ p \in interest[u][g]
      BY <1>1 DEF FdInv, Fresh
    <3> QED  BY <1>9, <3>1
  <2> QED  BY <2>2, <2>3
<1>18. Movable'
  <2> SUFFICES ASSUME Stealing, NEW g \in Fds, NEW c \in Colors,
                      NEW p \in AllOps, g \in fdcol'[c][p]
               PROVE  c = FdColor[g] /\ \E u \in Threads : p \in interest'[u][g]
    BY DEF Movable, Stealing
  <2>1. g \in fdcol[c][p] /\ ~(g = f /\ p = o)
    BY <1>9
  <2>2. c = FdColor[g] /\ \E u \in Threads : p \in interest[u][g]
    BY <2>1 DEF FdInv, Movable
  <2> QED  BY <1>9, <2>1, <2>2
<1>19. WritesOnly'
  <2>1. \A g \in Fds : fdcbs'[g]["write"] # <<>> => fdcbs[g]["write"] # <<>>
    BY <1>5, Constants
  <2> QED  BY <2>1 DEF FdInv, WritesOnly, Ops
<1>20. WatchedHome'
  <2>1. \A g \in Fds : Touched(g)' => Touched(g)
    BY <1>1, <1>2, <1>5, Constants DEF Touched
  <2>2. \A u \in Threads, g \in Fds : interest'[u][g] # {} => interest[u][g] # {}
    BY <1>9
  <2> QED  BY <1>2, <2>1, <2>2, SameOwners, LessTouched DEF FdInv
<1> QED  BY <1>6, <1>8, <1>9, <1>10, <1>11, <1>12, <1>13, <1>14, <1>15, <1>16,
            <1>17, <1>18, <1>19, <1>20 DEF FdInv

-----------------------------------------------------------------------------
(* Stealing *)

(* What the steps of a thief leave alone. *)
LEMMA ThiefKeeps ==
  ASSUME Plain, TypeOK, FdInv, NEW t \in Threads,
         UNCHANGED <<setting, open, fdcbs, queued, fdcol, tasks, found, cur,
                     again, used, freed>>,
         pc[t] \in Thieving \cup {"loop"},
         NEW x \in Thieving \cup {"loop"}, pc' = [pc EXCEPT ![t] = x]
  PROVE  /\ pc' \in [Threads -> {"loop", "dispatch"} \cup Handling \cup Thieving]
         /\ Listed' /\ ClosedEmpty' /\ OneCheck' /\ CallsFirst' /\ WritesOnly'
         /\ pc'[t] = x /\ \A u \in Threads : u # t => pc'[u] = pc[u]
<1>1. /\ pc' \in [Threads -> {"loop", "dispatch"} \cup Handling \cup Thieving]
      /\ pc'[t] = x /\ \A u \in Threads : u # t => pc'[u] = pc[u]
  BY DEF TypeOK
<1>2. \A u \in Threads : \A y \in Handling :
        pc[u] = y \/ pc'[u] = y => pc'[u] = pc[u]
  BY <1>1 DEF Thieving, Handling, Running
<1>3. OneCheck'
  <2>1. \A u \in Threads, g \in Fds, p \in AllOps :
          Has(u, g, p)' <=> Has(u, g, p)
    BY <1>2 DEF Has, Handling, Running
  <2>2. \A u \in Threads : pc'[u] = "cleared" =>
          pc[u] = "cleared" /\ cur'[u] = cur[u]
    BY <1>2 DEF Handling, Running
  <2> QED  BY <2>1, <2>2, SameChecks DEF FdInv
<1>4. Listed' /\ WritesOnly'
  BY DEF FdInv, Listed, WritesOnly, Ops
<1>5. ClosedEmpty'
  BY <1>2 DEF FdInv, ClosedEmpty
<1>6. CallsFirst'
  BY <1>2 DEF FdInv, CallsFirst, First, Handling, Running
<1> QED  BY <1>1, <1>3, <1>4, <1>5, <1>6

(* The color does not run, and is nobody's until the thief lands. *)
LEMMA StealKeeps ==
  ASSUME Plain, TypeOK, FdInv, UNCHANGED setting, NEW t \in Threads,
         NEW c \in Colors, Steal(t, c)
  PROVE  TypeOK' /\ FdInv' /\ panic' = panic
<1>1. /\ Stealing /\ pc[t] = "loop" /\ ~setting.anywhere
      /\ owner[c] \in Threads \ {t} /\ owner[c] # Nobody
      /\ ~RunsColor(owner[c], c) /\ found[t] = {}
  <2>1. /\ Stealing /\ pc[t] = "loop" /\ owner[c] \notin {t, Nobody}
        /\ ~RunsColor(owner[c], c)
    BY DEF Steal
  <2>2. owner[c] \in Threads \cup {Nobody}
    BY DEF TypeOK
  <2>3. ~setting.anywhere
    BY <2>1 DEF Plain, Careful
  <2>4. found[t] = {}
    BY <2>1 DEF FdInv, InPlace
  <2> QED  BY <2>1, <2>2, <2>3, <2>4
<1>2. /\ loot' = [loot EXCEPT ![t] = [color |-> c, victim |-> owner[c]]]
      /\ owner' = [owner EXCEPT ![c] = Nobody]
      /\ pc' = [pc EXCEPT ![t] = "stealread"]
      /\ UNCHANGED <<open, fdcbs, queued, fdcol, fdToCore, interest, tasks,
                     found, cur, again, used, freed, panic>>
  BY DEF Steal, Goto, regVars
<1>3. /\ pc' \in [Threads -> {"loop", "dispatch"} \cup Handling \cup Thieving]
      /\ Listed' /\ ClosedEmpty' /\ OneCheck' /\ CallsFirst' /\ WritesOnly'
      /\ pc'[t] = "stealread" /\ \A u \in Threads : u # t => pc'[u] = pc[u]
  BY <1>1, <1>2, ThiefKeeps DEF Thieving
<1>4. /\ loot'[t].color = c /\ loot'[t].victim = owner[c]
      /\ \A u \in Threads : u # t => loot'[u] = loot[u]
      /\ owner'[c] = Nobody /\ \A d \in Colors : d # c => owner'[d] = owner[d]
  BY <1>2 DEF TypeOK
<1>5. TypeOK'
  <2>1. loot' \in [Threads -> [color : Colors \cup {Nobody},
                               victim : Threads \cup {Nobody}]]
    BY <1>1, <1>2 DEF TypeOK
  <2>2. owner' \in [Colors -> Threads \cup {Nobody}]
    BY <1>2 DEF TypeOK
  <2> QED  BY <1>2, <1>3, <2>1, <2>2 DEF TypeOK
<1>6. \A u \in Threads : pc[u] \in Running \cup {"accepted"} =>
        FdColor[cur[u].fd] # c
  <2> SUFFICES ASSUME NEW u \in Threads, pc[u] \in Running \cup {"accepted"},
                      FdColor[cur[u].fd] = c
               PROVE  FALSE
    OBVIOUS
  <2>1. owner[c] = u /\ cur[u].fd \in Fds
    BY <1>1 DEF FdInv, InPlace, Handling
  <2>2. cur[u].fd # NoFd
    BY <2>1, Constants
  <2> QED  BY <1>1, <2>1, <2>2 DEF RunsColor, Running
<1>7. InPlace'
  <2> SUFFICES ASSUME NEW u \in Threads
               PROVE  /\ pc'[u] # "storing"
                      /\ found[u] # {} => pc'[u] \in {"dispatch", "post"}
                      /\ pc'[u] \in Handling => cur[u].fd \in Fds
                      /\ pc'[u] \in Running \cup {"accepted"} =>
                           owner'[FdColor[cur[u].fd]] = u
    BY <1>2 DEF InPlace
  <2>1. CASE u = t
    BY <1>1, <1>3, <2>1 DEF Handling, Running
  <2>2. CASE u # t
    <3>1. /\ pc[u] # "storing"
          /\ found[u] # {} => pc[u] \in {"dispatch", "post"}
          /\ pc[u] \in Handling => cur[u].fd \in Fds
          /\ pc[u] \in Running \cup {"accepted"} =>
               owner[FdColor[cur[u].fd]] = u /\ cur[u].fd \in Fds
      BY <1>1 DEF FdInv, InPlace, Handling
    <3> QED  BY <1>3, <1>4, <1>6, <2>2, <3>1, Constants
  <2> QED  BY <2>1, <2>2
<1>8. \A u \in Threads : pc[u] \in Thieving =>
        /\ u # t /\ loot[u].color \in Colors \ {c}
        /\ pc'[u] = pc[u] /\ loot'[u] = loot[u]
  BY <1>1, <1>3, <1>4 DEF FdInv, Thieves, Thieving
<1>9. Thieves'
  <2>1. \A u \in Threads : u # t /\ pc'[u] \in Thieving =>
          pc[u] \in Thieving /\ loot'[u] = loot[u] /\ loot[u].color # c
    BY <1>3, <1>8
  <2>2. \A u \in Threads : pc'[u] \in Thieving =>
          /\ Stealing /\ loot'[u].color \in Colors
          /\ loot'[u].victim \in Threads \ {u}
          /\ owner'[loot'[u].color] = Nobody
    BY <1>1, <1>4, <2>1 DEF FdInv, Thieves
  <2>3. \A u, w \in Threads :
          pc'[u] \in Thieving /\ pc'[w] \in Thieving
          /\ loot'[u].color = loot'[w].color => u = w
    BY <1>4, <2>1 DEF FdInv, Thieves
  <2> QED  BY <2>2, <2>3 DEF Thieves, Stealing
<1>10. Accepted'
  <2>1. \A u \in Threads : pc'[u] = "accepted" => pc[u] = "accepted"
    BY <1>3
  <2>2. \A u \in Threads : pc'[u] \in Handling => pc[u] \in Handling
    BY <1>3 DEF Handling, Running
  <2> QED  BY <1>2, <2>1, <2>2 DEF FdInv, Accepted, Unwatched
<1>11. Interested' /\ OneWatch' /\ Fresh' /\ Movable'
  BY <1>2 DEF FdInv, Interested, OneWatch, Fresh, Movable, Stealing
<1>12. Remembered'
  <2>1. \A u \in Threads : pc[u] \in {"accepted", "cleared"} =>
          pc'[u] = pc[u] /\ cur'[u] = cur[u]
    BY <1>1, <1>2, <1>3
  <2> QED  BY <1>2, <2>1, SameWatch DEF FdInv
<1>13. WatchedHome'
  <2>1. ASSUME NEW u \in Threads, NEW d \in Colors, AtHome(u, d)
        PROVE  AtHome(u, d)'
    <3>1. CASE owner[d] = u /\ d # c
      BY <1>4, <3>1 DEF AtHome
    <3>2. CASE owner[d] = u /\ d = c
      BY <1>3, <1>4, <3>2 DEF AtHome, Thieving
    <3>3. CASE owner[d] # u
      <4>1. PICK w \in Threads :
              /\ pc[w] \in Thieving /\ loot[w].color = d
              /\ u = IF pc[w] = "stealread" THEN loot[w].victim ELSE w
        BY <2>1, <3>3 DEF AtHome
      <4>2. pc'[w] = pc[w] /\ loot'[w] = loot[w]
        BY <1>8, <4>1
      <4> QED  BY <4>1, <4>2 DEF AtHome
    <3> QED  BY <3>1, <3>2, <3>3
  <2>2. \A u \in Threads : pc'[u] = "cleared" =>
          pc[u] = "cleared" /\ cur'[u] = cur[u]
    BY <1>2, <1>3
  <2> QED  BY <1>2, <2>1, <2>2, SameHomes DEF FdInv
<1> QED  BY <1>2, <1>3, <1>5, <1>7, <1>9, <1>10, <1>11, <1>12, <1>13 DEF FdInv

(* The color is the thief's, and so are its descriptors. *)
LEMMA LandKeeps ==
  ASSUME Plain, TypeOK, FdInv, UNCHANGED setting, NEW t \in Threads, Land(t)
  PROVE  TypeOK' /\ FdInv' /\ panic' = panic
<1> DEFINE c == loot[t].color
<1>1. /\ pc[t] = "land" /\ c \in Colors /\ owner[c] = Nobody
      /\ Stealing /\ ~setting.anywhere /\ found[t] = {}
  BY DEF Land, FdInv, Thieves, Thieving, InPlace, Plain, Careful
<1>2. /\ owner' = [owner EXCEPT ![c] = t]
      /\ loot' = [loot EXCEPT ![t] = NoLoot]
      /\ pc' = [pc EXCEPT ![t] = "loop"]
      /\ UNCHANGED <<open, fdcbs, queued, fdcol, fdToCore, interest, tasks,
                     found, cur, again, used, freed, panic>>
  BY DEF Land, Goto, regVars
<1>3. /\ pc' \in [Threads -> {"loop", "dispatch"} \cup Handling \cup Thieving]
      /\ Listed' /\ ClosedEmpty' /\ OneCheck' /\ CallsFirst' /\ WritesOnly'
      /\ pc'[t] = "loop" /\ \A u \in Threads : u # t => pc'[u] = pc[u]
  BY <1>1, <1>2, ThiefKeeps DEF Thieving
<1>4. \A u \in Threads : pc[u] \in Thieving /\ loot[u].color = c => u = t
  BY <1>1 DEF FdInv, Thieves, Thieving
<1> HIDE DEF c
<1>5. /\ \A u \in Threads : u # t => loot'[u] = loot[u]
      /\ owner'[c] = t /\ \A d \in Colors : d # c => owner'[d] = owner[d]
  BY <1>1, <1>2 DEF TypeOK
<1>6. TypeOK'
  <2>1. loot' \in [Threads -> [color : Colors \cup {Nobody},
                               victim : Threads \cup {Nobody}]]
    BY <1>2 DEF TypeOK, NoLoot
  <2>2. owner' \in [Colors -> Threads \cup {Nobody}]
    BY <1>1, <1>2 DEF TypeOK
  <2> QED  BY <1>2, <1>3, <2>1, <2>2 DEF TypeOK
<1>7. InPlace'
  <2> SUFFICES ASSUME NEW u \in Threads
               PROVE  /\ pc'[u] # "storing"
                      /\ found[u] # {} => pc'[u] \in {"dispatch", "post"}
                      /\ pc'[u] \in Handling => cur[u].fd \in Fds
                      /\ pc'[u] \in Running \cup {"accepted"} =>
                           owner'[FdColor[cur[u].fd]] = u
    BY <1>2 DEF InPlace
  <2>1. CASE u = t
    BY <1>1, <1>3, <2>1 DEF Handling, Running
  <2>2. CASE u # t
    <3>1. /\ pc[u] # "storing"
          /\ found[u] # {} => pc[u] \in {"dispatch", "post"}
          /\ pc[u] \in Handling => cur[u].fd \in Fds
          /\ pc[u] \in Running \cup {"accepted"} =>
               owner[FdColor[cur[u].fd]] = u /\ cur[u].fd \in Fds
      BY <1>1 DEF FdInv, InPlace, Handling
    <3> QED  BY <1>1, <1>3, <1>5, <2>2, <3>1, Constants
  <2> QED  BY <2>1, <2>2
<1>8. Thieves'
  <2>1. \A u \in Threads : pc'[u] \in Thieving =>
          u # t /\ pc[u] \in Thieving /\ loot'[u] = loot[u] /\ loot[u].color # c
    BY <1>3, <1>4, <1>5 DEF Thieving
  <2>2. \A u \in Threads : pc'[u] \in Thieving =>
          /\ Stealing /\ loot'[u].color \in Colors
          /\ loot'[u].victim \in Threads \ {u}
          /\ owner'[loot'[u].color] = Nobody
    BY <1>5, <2>1 DEF FdInv, Thieves
  <2>3. \A u, w \in Threads :
          pc'[u] \in Thieving /\ pc'[w] \in Thieving
          /\ loot'[u].color = loot'[w].color => u = w
    BY <2>1 DEF FdInv, Thieves
  <2> QED  BY <2>2, <2>3 DEF Thieves, Stealing
<1>9. Accepted'
  <2>1. \A u \in Threads : pc'[u] = "accepted" => pc[u] = "accepted"
    BY <1>3
  <2>2. \A u \in Threads : pc'[u] \in Handling => pc[u] \in Handling
    BY <1>3 DEF Handling, Running
  <2> QED  BY <1>2, <2>1, <2>2 DEF FdInv, Accepted, Unwatched
<1>10. Interested' /\ OneWatch' /\ Fresh' /\ Movable'
  BY <1>2 DEF FdInv, Interested, OneWatch, Fresh, Movable, Stealing
<1>11. Remembered'
  <2>1. \A u \in Threads : pc[u] \in {"accepted", "cleared"} =>
          pc'[u] = pc[u] /\ cur'[u] = cur[u]
    BY <1>1, <1>2, <1>3
  <2> QED  BY <1>2, <2>1, SameWatch DEF FdInv
<1>12. WatchedHome'
  <2>1. ASSUME NEW u \in Threads, NEW d \in Colors, AtHome(u, d)
        PROVE  AtHome(u, d)'
    <3>1. CASE owner[d] = u
      BY <1>1, <1>5, <3>1, Constants DEF AtHome
    <3>2. CASE owner[d] # u
      <4>1. PICK w \in Threads :
              /\ pc[w] \in Thieving /\ loot[w].color = d
              /\ u = IF pc[w] = "stealread" THEN loot[w].victim ELSE w
        BY <2>1, <3>2 DEF AtHome
      <4>2. CASE w = t
        <5>1. d = c /\ u = t
          BY <1>1, <4>1, <4>2 DEF c
        <5> QED  BY <1>5, <5>1 DEF AtHome
      <4>3. CASE w # t
        <5>1. pc'[w] = pc[w] /\ loot'[w] = loot[w]
          BY <1>3, <1>5, <4>3
        <5> QED  BY <4>1, <5>1 DEF AtHome
      <4> QED  BY <4>2, <4>3
    <3> QED  BY <3>1, <3>2
  <2>2. \A u \in Threads : pc'[u] = "cleared" =>
          pc[u] = "cleared" /\ cur'[u] = cur[u]
    BY <1>2, <1>3
  <2> QED  BY <1>2, <2>1, <2>2, SameHomes DEF FdInv
<1> QED  BY <1>2, <1>3, <1>6, <1>7, <1>8, <1>9, <1>10, <1>11, <1>12 DEF FdInv

(* The first loop of _epoll_steal moves what the victim watches, all of it *)
(* and from its set only; there is nothing for the second.                 *)
LEMMA MovesAll ==
  ASSUME Plain, TypeOK, FdInv, NEW t \in Threads, NEW o \in AllOps,
         EpollSteal(t, o)
  PROVE  LET c == loot[t].color  fs == fdcol[c][o]
         IN /\ c \in Colors /\ fs \subseteq Fds /\ panic' = panic
            /\ o = "write" => fs = {}
            /\ fs # {} => pc[t] = "stealread"
            /\ \A f \in fs : FdColor[f] = c
            /\ \A f \in Fds \ fs, u \in Threads :
                 /\ interest'[u][f] = interest[u][f]
                 /\ o = "read" /\ FdColor[f] = c => interest[u][f] = {}
            /\ \A f \in fs, u \in Threads :
                 interest'[u][f] = IF u = t THEN {"read"} ELSE {}
            /\ \A f \in fs : interest[loot[t].victim][f] = {"read"}
            /\ fdToCore' = [f \in Fds |-> IF f \in fs THEN t ELSE fdToCore[f]]
            /\ interest' \in [Threads -> [Fds -> SUBSET AllOps]]
<1> DEFINE c == loot[t].color
           v == loot[t].victim
           fs == fdcol[c][o]
<1>1. /\ pc[t] = Loop(o) /\ pc[t] \in Thieving /\ Stealing
      /\ c \in Colors /\ v \in Threads \ {t} /\ owner[c] = Nobody
      /\ \A u \in Threads : pc[u] \in Thieving /\ loot[u].color = c => u = t
      /\ ~setting.anywhere
  BY DEF EpollSteal, Loop, Thieving, FdInv, Thieves, Plain, Careful
<1>2. fs \subseteq Fds
  BY <1>1 DEF TypeOK
<1>3. \A f \in Fds : /\ fdcbs[f]["write"] = <<>>
                     /\ \A u \in Threads : interest[u][f] \subseteq {"read"}
  BY <1>1, ReadsOnly
<1>4. \A f \in fs : /\ FdColor[f] = c
                    /\ \E u \in Threads : o \in interest[u][f]
  BY <1>1, <1>2 DEF FdInv, Movable
<1>5. fs # {} => o = "read" /\ pc[t] = "stealread"
  BY <1>1, <1>2, <1>3, <1>4 DEF Loop
<1>6. \A f \in fs : ~queued[f]["read"]
  BY <1>2, <1>4, <1>5 DEF FdInv, Interested
<1>7. Moved(c, o) = fs
  BY <1>6 DEF Moved
<1>8. ASSUME NEW f \in fs
      PROVE  /\ interest[v][f] = {"read"}
             /\ \A u \in Threads : u # v => interest[u][f] = {}
  <2>1. PICK u \in Threads : "read" \in interest[u][f]
    BY <1>4, <1>5
  <2>2. f \in Fds /\ interest[u][f] = {"read"}
    BY <1>2, <1>3, <2>1
  <2>3. AtHome(u, c)
    BY <1>1, <1>4, <2>2 DEF FdInv, WatchedHome
  <2>4. u = v
    BY <1>1, <1>5, <2>3, Constants DEF AtHome
  <2>5. \A w \in Threads : w # v => interest[w][f] = {}
    BY <2>2, <2>4 DEF FdInv, OneWatch
  <2> QED  BY <2>2, <2>4, <2>5
<1>9. \A f \in fs : OtherToo(fdcbs, queued, f, "read") = {}
  BY <1>2, <1>3 DEF OtherToo, Other
<1>10. /\ interest' = MovedInterest(t, v, o, fs)
       /\ panic' = (panic \/ \E f \in fs : Missing(interest, v, f))
       /\ fdToCore' = [f \in Fds |-> IF f \in fs THEN t ELSE fdToCore[f]]
  BY <1>7 DEF EpollSteal
<1>11. panic' = panic
  BY <1>8, <1>10 DEF Missing, TypeOK
<1>12. ASSUME NEW f \in Fds \ fs, NEW u \in Threads
       PROVE  /\ interest'[u][f] = interest[u][f]
              /\ o = "read" /\ FdColor[f] = c => interest[u][f] = {}
  <2>1. interest'[u][f] = interest[u][f]
    BY <1>10 DEF MovedInterest
  <2>2. interest[u][f] # {} => f \in fdcol[FdColor[f]]["read"]
    BY <1>1, <1>3 DEF FdInv, Interested
  <2> QED  BY <2>1, <2>2
<1>13. ASSUME NEW f \in fs, NEW u \in Threads
       PROVE  interest'[u][f] = IF u = t THEN {"read"} ELSE {}
  <2>1. interest'[u][f] = IF u = t THEN {o} \cup OtherToo(fdcbs, queued, f, o)
                          ELSE IF u = v THEN OtherToo(fdcbs, queued, f, o)
                          ELSE interest[u][f]
    BY <1>2, <1>10 DEF MovedInterest
  <2> QED  BY <1>5, <1>8, <1>9, <2>1
<1>14. interest' \in [Threads -> [Fds -> SUBSET AllOps]]
  <2>1. ASSUME NEW u \in Threads, NEW f \in Fds
        PROVE  interest'[u][f] \in SUBSET AllOps
    <3>1. CASE f \in fs
      BY <1>13, <3>1, Constants
    <3>2. CASE f \notin fs
      BY <1>12, <3>2 DEF TypeOK
    <3> QED  BY <3>1, <3>2
  <2>2. interest' = [u \in Threads |-> [f \in Fds |-> interest'[u][f]]]
    BY <1>10 DEF MovedInterest
  <2> QED  BY <2>1, <2>2
<1>15. o = "write" => fs = {}
  BY <1>5
<1> QED  BY <1>1, <1>2, <1>4, <1>5, <1>8, <1>10, <1>11, <1>12, <1>13, <1>14,
            <1>15

(* The descriptors of the color are in the set of the thief. *)
LEMMA EpollStealKeeps ==
  ASSUME Plain, TypeOK, FdInv, UNCHANGED setting, NEW t \in Threads,
         NEW o \in AllOps, EpollSteal(t, o)
  PROVE  TypeOK' /\ FdInv' /\ panic' = panic
<1> DEFINE c == loot[t].color
           fs == fdcol[c][o]
           x == IF o = "read" THEN "stealwrite" ELSE "land"
<1>1. /\ c \in Colors /\ fs \subseteq Fds /\ panic' = panic
      /\ o = "write" => fs = {}
      /\ fs # {} => pc[t] = "stealread"
      /\ \A f \in fs : FdColor[f] = c
      /\ \A f \in Fds \ fs, u \in Threads :
           /\ interest'[u][f] = interest[u][f]
           /\ o = "read" /\ FdColor[f] = c => interest[u][f] = {}
      /\ \A f \in fs, u \in Threads :
           interest'[u][f] = IF u = t THEN {"read"} ELSE {}
      /\ \A f \in fs : interest[loot[t].victim][f] = {"read"}
      /\ fdToCore' = [f \in Fds |-> IF f \in fs THEN t ELSE fdToCore[f]]
      /\ interest' \in [Threads -> [Fds -> SUBSET AllOps]]
  BY MovesAll
<1>2. /\ pc[t] = Loop(o) /\ pc[t] \in Thieving /\ Stealing
      /\ loot[t].victim \in Threads /\ found[t] = {} /\ ~setting.anywhere
      /\ pc[t] = "stealread" <=> o = "read"
  BY DEF EpollSteal, Loop, Thieving, FdInv, Thieves, InPlace, Plain, Careful
<1>3. /\ pc' = [pc EXCEPT ![t] = x] /\ x \in Thieving
      /\ UNCHANGED <<open, fdcbs, queued, fdcol, owner, tasks, loot, found, cur,
                     again, used, freed>>
  BY DEF EpollSteal, Goto, colorVars, Thieving
<1>4. o = "read" \/ o = "write"
  BY Constants
<1>5. \A f \in fs : f \in fdcol[FdColor[f]]["read"]
  BY <1>1, <1>4
<1>6. x # "stealread"
  OBVIOUS
<1>7. \A u \in Threads : pc[u] \in Thieving /\ loot[u].color = c => u = t
  BY <1>2 DEF FdInv, Thieves
<1>8. owner[c] = Nobody
  BY <1>2 DEF FdInv, Thieves
<1>9. loot'[t].color = c
  BY <1>3
<1> HIDE DEF c, fs, x
<1>10. /\ pc' \in [Threads -> {"loop", "dispatch"} \cup Handling \cup Thieving]
       /\ Listed' /\ ClosedEmpty' /\ OneCheck' /\ CallsFirst' /\ WritesOnly'
       /\ pc'[t] = x /\ \A u \in Threads : u # t => pc'[u] = pc[u]
  BY <1>2, <1>3, ThiefKeeps
<1>11. \A f \in Fds : fdToCore'[f] = IF f \in fs THEN t ELSE fdToCore[f]
  BY <1>1
<1>12. TypeOK'
  <2>1. fdToCore' \in [Fds -> Threads \cup {Nobody}]
    BY <1>1 DEF TypeOK
  <2>2. panic' \in BOOLEAN
    BY <1>1 DEF TypeOK
  <2> QED  BY <1>1, <1>3, <1>10, <2>1, <2>2 DEF TypeOK
<1>13. /\ \A u \in Threads : pc'[u] \in Thieving <=> pc[u] \in Thieving
       /\ \A u \in Threads : pc'[u] \in Handling <=> pc[u] \in Handling
       /\ \A u \in Threads : pc'[u] \in Running <=> pc[u] \in Running
       /\ \A u \in Threads : \A y \in Handling \cup {"dispatch"} :
            pc'[u] = y <=> pc[u] = y
  BY <1>2, <1>3, <1>10 DEF Thieving, Handling, Running
<1>14. InPlace'
  BY <1>3, <1>13 DEF FdInv, InPlace, Handling, Running
<1>15. Thieves'
  BY <1>3, <1>13 DEF FdInv, Thieves, Stealing
<1>16. Accepted'
  <2>1. ASSUME NEW u \in Threads, pc[u] = "accepted"
        PROVE  /\ Unwatched(u, cur[u].fd) /\ cur[u].fd \in Fds \ fs
    <3>1. Unwatched(u, cur[u].fd) /\ cur[u].fd \in Fds
      BY <2>1 DEF FdInv, Accepted, InPlace, Handling
    <3>2. interest[loot[t].victim][cur[u].fd] = {}
      BY <1>2, <3>1 DEF Unwatched
    <3>3. \A f \in fs : interest[loot[t].victim][f] = {"read"}
      BY <1>1
    <3>4. cur[u].fd \notin fs
      BY <3>2, <3>3
    <3> QED  BY <3>1, <3>4
  <2>2. \A u \in Threads : pc'[u] = "accepted" => pc[u] = "accepted"
    BY <1>13 DEF Handling
  <2>3. ASSUME NEW u \in Threads, pc[u] = "accepted"
        PROVE  Unwatched(u, cur[u].fd)'
    <3>1. \A w \in Threads : interest'[w][cur[u].fd] = {}
      BY <1>1, <2>1, <2>3 DEF Unwatched
    <3> QED  BY <1>3, <1>13, <2>1, <2>3, <3>1 DEF Unwatched
  <2> QED  BY <1>3, <2>2, <2>3 DEF Accepted, Unwatched
<1>17. Interested'
  <2> SUFFICES ASSUME NEW u \in Threads, NEW f \in Fds, NEW p \in interest'[u][f]
               PROVE  /\ fdcbs[f][p] # <<>> /\ ~queued[f][p]
                      /\ fdToCore'[f] = u /\ f \in fdcol[FdColor[f]][p]
    BY <1>3 DEF Interested, Stealing
  <2>1. CASE f \in fs
    <3>1. u = t /\ p = "read" /\ p \in interest[loot[t].victim][f]
      BY <1>1, <2>1
    <3>2. fdcbs[f][p] # <<>> /\ ~queued[f][p]
      BY <1>2, <3>1 DEF FdInv, Interested
    <3> QED  BY <1>5, <1>11, <2>1, <3>1, <3>2
  <2>2. CASE f \notin fs
    <3>1. p \in interest[u][f] /\ fdToCore'[f] = fdToCore[f]
      BY <1>1, <1>11, <2>2
    <3> QED  BY <1>2, <3>1 DEF FdInv, Interested
  <2> QED  BY <2>1, <2>2
<1>18. \A f \in Fds, p \in AllOps :
         (\E u \in Threads : p \in interest[u][f]) =>
         (\E u \in Threads : p \in interest'[u][f])
  <2> SUFFICES ASSUME NEW f \in Fds, NEW p \in AllOps, NEW u \in Threads,
                      p \in interest[u][f]
               PROVE  \E w \in Threads : p \in interest'[w][f]
    OBVIOUS
  <2>1. CASE f \in fs
    <3>1. u = loot[t].victim
      BY <1>1, <1>2, <2>1 DEF FdInv, OneWatch
    <3>2. p \in interest'[t][f]
      BY <1>1, <2>1, <3>1
    <3> QED  BY <3>2
  <2>2. CASE f \notin fs
    BY <1>1, <2>2
  <2> QED  BY <2>1, <2>2
<1>19. Remembered'
  <2> SUFFICES ASSUME NEW f \in Fds, NEW p \in AllOps,
                      fdcbs[f][p] # <<>>, ~queued[f][p],
                      \A u \in Threads : p \notin interest'[u][f]
               PROVE  \E u \in Threads : /\ pc'[u] \in {"accepted", "cleared"}
                                         /\ cur[u].fd = f /\ cur[u].op = p
    BY <1>3 DEF Remembered
  <2>1. \A u \in Threads : p \notin interest[u][f]
    BY <1>18
  <2>2. PICK u \in Threads : /\ pc[u] \in {"accepted", "cleared"}
                             /\ cur[u].fd = f /\ cur[u].op = p
    BY <2>1 DEF FdInv, Remembered
  <2>3. pc'[u] = pc[u]
    BY <1>13, <2>2 DEF Handling, Running
  <2> QED  BY <2>2, <2>3
<1>20. OneWatch'
  <2> SUFFICES ASSUME NEW u \in Threads, NEW w \in Threads, NEW f \in Fds,
                      interest'[u][f] # {}, interest'[w][f] # {}
               PROVE  u = w
    BY DEF OneWatch
  <2>1. CASE f \in fs
    BY <1>1, <2>1
  <2>2. CASE f \notin fs
    BY <1>1, <2>2 DEF FdInv, OneWatch
  <2> QED  BY <2>1, <2>2
<1>21. Fresh'
  <2> SUFFICES ASSUME NEW u \in Threads, NEW f \in Fds, NEW p \in AllOps,
                      <<f, p>> \in found[u], fdToCore'[f] = u
               PROVE  p \in interest'[u][f]
    BY <1>2, <1>3 DEF Fresh, Stealing
  <2>1. u # t
    BY <1>2
  <2>2. f \notin fs /\ fdToCore[f] = u
    BY <1>11, <2>1
  <2>3. p \in interest[u][f]
    BY <2>2 DEF FdInv, Fresh
  <2> QED  BY <1>1, <2>2, <2>3
<1>22. Movable'
  <2> SUFFICES ASSUME NEW f \in Fds, NEW d \in Colors, NEW p \in AllOps,
                      f \in fdcol[d][p]
               PROVE  d = FdColor[f] /\ \E u \in Threads : p \in interest'[u][f]
    BY <1>3 DEF Movable, Stealing
  <2>1. d = FdColor[f] /\ \E u \in Threads : p \in interest[u][f]
    BY <1>2 DEF FdInv, Movable
  <2> QED  BY <1>18, <2>1
<1>23. WatchedHome'
  <2> SUFFICES ASSUME NEW u \in Threads, NEW f \in Fds, interest'[u][f] # {}
               PROVE  AtHome(u, FdColor[f])'
    BY DEF WatchedHome
  <2>1. CASE f \in fs
    <3>1. u = t /\ FdColor[f] = c
      BY <1>1, <2>1
    <3> QED  BY <1>6, <1>9, <1>10, <1>13, <1>2, <3>1 DEF AtHome
  <2>2. CASE f \notin fs
    <3>1. interest[u][f] # {}
      BY <1>1, <2>2
    <3>2. AtHome(u, FdColor[f])
      BY <1>2, <3>1 DEF FdInv, WatchedHome
    <3>3. CASE owner[FdColor[f]] = u
      BY <1>3, <3>3 DEF AtHome
    <3>4. CASE owner[FdColor[f]] # u
      <4>1. PICK w \in Threads :
              /\ pc[w] \in Thieving /\ loot[w].color = FdColor[f]
              /\ u = IF pc[w] = "stealread" THEN loot[w].victim ELSE w
        BY <3>2, <3>4 DEF AtHome
      <4>2. CASE w # t
        <5>1. pc'[w] = pc[w] /\ loot'[w] = loot[w]
          BY <1>3, <1>10, <4>2
        <5> QED  BY <4>1, <5>1 DEF AtHome
      <4>3. CASE w = t
        <5>1. FdColor[f] = c
          BY <4>1, <4>3 DEF c
        <5>2. o # "read"
          BY <1>1, <2>2, <3>1, <5>1
        <5>3. pc[t] # "stealread" /\ u = t
          BY <1>2, <4>1, <4>3, <5>2
        <5> QED  BY <1>2, <1>6, <1>9, <1>10, <1>13, <5>1, <5>3 DEF AtHome
      <4> QED  BY <4>2, <4>3
    <3> QED  BY <3>3, <3>4
  <2> QED  BY <2>1, <2>2
<1> QED  BY <1>1, <1>10, <1>12, <1>14, <1>15, <1>16, <1>17, <1>19, <1>20, <1>21,
            <1>22, <1>23 DEF FdInv

-----------------------------------------------------------------------------
(* The invariant *)

(* No descriptor is open and no color has been stolen. *)
LEMMA FdInit ==
  ASSUME Init
  PROVE  setting \in Settings /\ TypeOK /\ FdInv /\ ~panic
<1> USE DEF Init
<1>1. 0 \in Threads
  BY FdAssumption DEF FdAssumption, Threads
<1>2. \A c \in Colors : c % NThreads \in Threads
  <2> TAKE c \in Colors
  <2>1. c \in Nat /\ NThreads \in Nat \ {0}
    BY FdAssumption DEF FdAssumption
  <2> QED  BY <2>1 DEF Threads
<1>3. TypeOK
  <2>1. <<>> \in Seq(Nat) /\ <<>> \in Seq(Check)
    OBVIOUS
  <2>2. NoCheck \in [fd : Fds \cup {NoFd}, op : AllOps, cb : Nat]
    BY DEF NoCheck, AllOps
  <2>3. NoLoot \in [color : Colors \cup {Nobody}, victim : Threads \cup {Nobody}]
    BY DEF NoLoot
  <2>4. fdcbs \in [Fds -> [AllOps -> Seq(Nat)]]
    BY <2>1
  <2>5. owner \in [Colors -> Threads \cup {Nobody}]
    BY <1>2
  <2>6. fdToCore \in [Fds -> Threads \cup {Nobody}]
    BY <1>1
  <2> QED  BY <2>1, <2>2, <2>3, <2>4, <2>5, <2>6 DEF TypeOK
<1>4. InPlace /\ Thieves /\ Accepted
  BY DEF InPlace, Thieves, Accepted, Handling, Running, Thieving
<1>5. \A f \in Fds, o \in AllOps :
        fdcbs[f][o] = <<>> /\ ~queued[f][o] /\ Posted(f, o) = {}
  <2> TAKE f \in Fds, o \in AllOps
  <2>1. fdcbs[f][o] = <<>> /\ ~queued[f][o]
    OBVIOUS
  <2>2. tasks[FdColor[f]] = <<>>
    BY Constants
  <2>3. DOMAIN tasks[FdColor[f]] = {}
    BY <2>2
  <2> QED  BY <2>1, <2>3 DEF Posted
<1>6. Listed
  BY <1>5 DEF Listed
<1>7. ClosedEmpty
  BY <1>5 DEF ClosedEmpty, Handling, Running
<1>8. OneCheck /\ CallsFirst
  BY <1>5 DEF OneCheck, CallsFirst, Has, Running
<1>9. Interested /\ OneWatch /\ Fresh
  BY DEF Interested, OneWatch, Fresh
<1>10. Remembered
  BY <1>5 DEF Remembered
<1>11. Movable
  BY DEF Movable
<1>12. WritesOnly
  BY <1>5, Constants DEF WritesOnly
<1>13. WatchedHome
  BY DEF WatchedHome
<1> QED  BY <1>3, <1>4, <1>6, <1>7, <1>8, <1>9, <1>10, <1>11, <1>12, <1>13
         DEF FdInv

(* Every step of a program that is careful keeps the invariant, and does   *)
(* not make Mely panic.                                                    *)
LEMMA FdStep ==
  ASSUME Plain, TypeOK, FdInv, UNCHANGED setting, NEW t \in Threads,
         ProgramSteps(t) \/ PollSteps(t) \/ CheckSteps(t) \/ StealSteps(t)
  PROVE  TypeOK' /\ FdInv' /\ panic' = panic
<1>1. CASE ProgramSteps(t)
  <2>1. CASE \E f \in Fds :
               AcceptStore(t, f) \/ AcceptLoadFirst(t, f) \/ Close(t, f)
    BY <2>1, AcceptStoreKeeps, NoLoadFirst, CloseKeeps
  <2>2. CASE \E f \in Fds, o \in AllOps :
               Register(t, f, o) \/ Unregister(t, f, o)
    BY <2>2, RegisterKeeps, UnregisterKeeps
  <2>3. CASE AcceptAdd(t) \/ AcceptLateStore(t) \/ Finished(t)
    <3>1. ~AcceptLateStore(t)
      BY DEF AcceptLateStore, FdInv, InPlace
    <3> QED  BY <2>3, <3>1, AcceptAddKeeps, FinishedKeeps
  <2> QED  BY <1>1, <2>1, <2>2, <2>3 DEF ProgramSteps
<1>2. CASE PollSteps(t)
  <2>1. CASE Wait(t) \/ WaitError(t) \/ PostCheck(t) \/ EndDispatch(t)
    BY <2>1, WaitKeeps, WaitErrorKeeps, PostCheckKeeps, EndDispatchKeeps
  <2>2. CASE \E f \in Fds, o \in AllOps :
               StartCheck(t, f, o) \/ DropEvent(t, f, o)
    BY <2>2, StartCheckKeeps, DropEventKeeps
  <2> QED  BY <1>2, <2>1, <2>2 DEF PollSteps
<1>3. CASE CheckSteps(t)
  <2>1. CASE \E c \in Colors : RunCheck(t, c)
    BY <2>1, RunCheckKeeps
  <2>2. CASE ClearQueued(t)
    BY <2>2, CheckOverKeeps DEF ClearQueued
  <2>3. CASE LoadFirst(t)
    BY <2>3, CheckOverKeeps DEF LoadFirst
  <2>4. CASE ReAdd(t) \/ LateClear(t)
    BY <2>4, ReAddKeeps, LateClearKeeps
  <2> QED  BY <1>3, <2>1, <2>2, <2>3, <2>4 DEF CheckSteps
<1>4. CASE StealSteps(t)
  BY <1>4, StealKeeps, EpollStealKeeps, LandKeeps DEF StealSteps
<1> QED  BY <1>1, <1>2, <1>3, <1>4

FdSafe == setting \in Settings /\ (Plain => TypeOK /\ FdInv /\ ~panic)

(* The invariant of a careful program holds at every step. *)
LEMMA FdInvariant == Spec => []FdSafe
<1>1. Init => FdSafe
  BY FdInit DEF FdSafe
<1>2. FdSafe /\ [Next]_vars => FdSafe'
  <2> SUFFICES ASSUME FdSafe, [Next]_vars
               PROVE  FdSafe'
    OBVIOUS
  <2>1. CASE Next
    <3>1. UNCHANGED setting
      BY <2>1 DEF Next, Goes
    <3>2. PICK t \in Threads : ProgramSteps(t) \/ PollSteps(t) \/ CheckSteps(t)
                                 \/ StealSteps(t)
      BY <2>1 DEF Next
    <3>3. Plain' <=> Plain
      BY <3>1 DEF Plain, Careful, SharedNumbers, Stealing, Ops
    <3>4. ASSUME Plain
          PROVE  TypeOK' /\ FdInv' /\ panic' = panic
      <4>1. TypeOK /\ FdInv
        BY <3>4 DEF FdSafe
      <4> QED  BY <3>1, <3>2, <3>4, <4>1, FdStep
    <3> QED  BY <3>1, <3>3, <3>4 DEF FdSafe
  <2>2. CASE UNCHANGED vars
    <3>1. UNCHANGED <<setting, open, fdcbs, queued, fdcol, fdToCore, interest,
                      owner, tasks, loot, found, pc, cur, again, used, freed,
                      panic>>
      BY <2>2 DEF vars, regVars, colorVars, runVars
    <3>2. Plain' <=> Plain
      BY <3>1 DEF Plain, Careful, SharedNumbers, Stealing, Ops
    <3>3. TypeOK' <=> TypeOK
      BY <3>1 DEF TypeOK
    <3>4. ASSUME FdInv
          PROVE  FdInv'
      <4>1. InPlace' /\ Thieves' /\ Listed' /\ ClosedEmpty' /\ Accepted'
        BY <3>1, <3>4 DEF FdInv, InPlace, Thieves, Listed, ClosedEmpty,
                          Accepted, Unwatched, Stealing
      <4>2. OneCheck' /\ CallsFirst'
        BY <3>1, <3>4 DEF FdInv, OneCheck, Posted, Has, CallsFirst, First
      <4>3. Interested' /\ Remembered' /\ OneWatch' /\ Fresh'
        BY <3>1, <3>4 DEF FdInv, Interested, Remembered, OneWatch, Fresh,
                          Stealing
      <4>4. Movable' /\ WritesOnly'
        BY <3>1, <3>4 DEF FdInv, Movable, WritesOnly, Stealing, Ops
      <4>5. WatchedHome'
        BY <3>1, <3>4 DEF FdInv, WatchedHome, AtHome, Touched
      <4> QED  BY <4>1, <4>2, <4>3, <4>4, <4>5 DEF FdInv
    <3> QED  BY <3>1, <3>2, <3>3, <3>4 DEF FdSafe
  <2> QED  BY <2>1, <2>2 DEF Next
<1> QED  BY <1>1, <1>2, PTL DEF Spec

(* One check of a descriptor for an operation is posted, being posted or   *)
(* running, for as long as epoll_queued is set.                            *)
THEOREM ChecksPostedOnce == Spec => [](Careful => PostedOnce)
<1>1. FdSafe => (Careful => PostedOnce)
  <2> SUFFICES ASSUME TypeOK, OneCheck, NEW f \in Fds, NEW o \in AllOps
               PROVE  NbChecks(f, o) = IF queued[f][o] THEN 1 ELSE 0
    BY DEF FdSafe, FdInv, Plain, PostedOnce
  <2> DEFINE P == Posted(f, o)
             H == {t \in Threads : Has(t, f, o)}
  <2>1. /\ \A i, j \in P : i = j
        /\ \A t, u \in H : t = u
        /\ P # {} => H = {}
        /\ queued[f][o] <=> P # {} \/ H # {}
    BY DEF OneCheck
  <2>2. NbChecks(f, o) = Cardinality(P) + Cardinality(H)
    BY DEF NbChecks
  <2> HIDE DEF P, H
  <2>3. CASE ~queued[f][o]
    <3>1. P = {} /\ H = {}
      BY <2>1, <2>3
    <3> QED  BY <2>2, <2>3, <3>1, FS_EmptySet
  <2>4. CASE queued[f][o] /\ P # {}
    <3>1. H = {} /\ \E i : P = {i}
      BY <2>1, <2>4
    <3>2. Cardinality(P) = 1 /\ Cardinality(H) = 0
      BY <3>1, FS_EmptySet, FS_Singleton
    <3> QED  BY <2>2, <2>4, <3>2
  <2>5. CASE queued[f][o] /\ P = {}
    <3>1. \E t : H = {t}
      BY <2>1, <2>5
    <3>2. Cardinality(P) = 0 /\ Cardinality(H) = 1
      BY <2>5, <3>1, FS_EmptySet, FS_Singleton
    <3> QED  BY <2>2, <2>5, <3>2
  <2> QED  BY <2>3, <2>4, <2>5
<1> QED  BY <1>1, FdInvariant, PTL

(* do_fd_check does not call a callback that was freed. *)
THEOREM ChecksCallRegistered == Spec => [](Careful => CallsRegistered)
<1>1. FdSafe => (Careful => CallsRegistered)
  <2> SUFFICES ASSUME TypeOK, FdInv
               PROVE  /\ \A c \in Colors : \A i \in DOMAIN tasks[c] :
                           First(tasks[c][i])
                      /\ \A t \in Threads : pc[t] = "post" =>
                           cur[t].cb \notin freed
    BY DEF FdSafe, Plain, CallsRegistered, First
  <2>1. ASSUME NEW t \in Threads, pc[t] = "post"
        PROVE  cur[t].cb \notin freed
    <3>1. First(cur[t]) /\ cur[t].fd \in Fds /\ cur[t].op \in AllOps
      BY <2>1 DEF FdInv, CallsFirst, InPlace, Handling, TypeOK
    <3>2. fdcbs[cur[t].fd][cur[t].op] \in Seq(Nat)
      BY <3>1 DEF TypeOK
    <3>3. /\ 1 \in DOMAIN fdcbs[cur[t].fd][cur[t].op]
          /\ fdcbs[cur[t].fd][cur[t].op][1] = cur[t].cb
      BY <3>1, <3>2 DEF First
    <3> QED  BY <3>1, <3>3 DEF FdInv, Listed
  <2> QED  BY <2>1 DEF FdInv, CallsFirst
<1> QED  BY <1>1, FdInvariant, PTL

(* What is registered and not posted is in the epoll set of the thread     *)
(* that will handle its events.                                            *)
THEOREM NothingForgotten == Spec => [](Careful => Watched)
<1>1. FdSafe => (Careful => Watched)
  <2> SUFFICES ASSUME TypeOK, FdInv, NEW f \in Fds, NEW o \in AllOps,
                      fdcbs[f][o] # <<>>, ~queued[f][o],
                      \A t \in Threads : cur[t].fd # f
               PROVE  \E t \in Threads : o \in interest[t][f]
                                         /\ (Stealing => fdToCore[f] = t)
    BY DEF FdSafe, Plain, Watched
  <2>1. PICK t \in Threads : o \in interest[t][f]
    BY DEF FdInv, Remembered
  <2>2. Stealing => fdToCore[f] = t
    BY <2>1 DEF FdInv, Interested
  <2> QED  BY <2>1, <2>2
<1> QED  BY <1>1, FdInvariant, PTL

(* A descriptor is in the epoll set of one thread. *)
THEOREM OneThreadWatches == Spec => [](Careful => OneSet)
<1>1. FdSafe => (Careful => OneSet)
  <2> SUFFICES ASSUME OneWatch, NEW f \in Fds
               PROVE  Cardinality({t \in Threads : interest[t][f] # {}}) <= 1
    BY DEF FdSafe, FdInv, Plain, OneSet
  <2> DEFINE W == {t \in Threads : interest[t][f] # {}}
  <2>1. W = {} \/ \E t : W = {t}
    BY DEF OneWatch
  <2> HIDE DEF W
  <2>2. Cardinality(W) = 0 \/ Cardinality(W) = 1
    BY <2>1, FS_EmptySet, FS_Singleton
  <2>3. Cardinality(W) <= 1
    BY <2>2
  <2> QED  BY <2>3 DEF W
<1> QED  BY <1>1, FdInvariant, PTL

(* epoll_ctl finds every descriptor it is given, and no event comes for a  *)
(* callback that was removed.                                              *)
THEOREM EpollNeverFails == Spec => [](Careful => NoPanic)
<1>1. FdSafe => (Careful => NoPanic)
  BY DEF FdSafe, Plain, NoPanic
<1> QED  BY <1>1, FdInvariant, PTL
=============================================================================
