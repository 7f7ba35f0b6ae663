# Mely in TLA+

Mely is a C++ event library for multicore machines. A program posts *callbacks*
with a *color* (an integer). Each of `nthreads` worker threads has a queue of
callbacks and runs them one at a time; two callbacks of the same color never
run together. With the build option `STEALING` an idle worker takes colors from
another one. A worker that has nothing to do sleeps in `epoll_wait`, inside a
callback of the library itself (`acheck_task`, the *polling task*). The
distribution comes with a web server, which can compress what it sends with a
copy of zlib, and an echo server.

Paths below are relative to `src/`, the sources of Mely (`task.lbc.C`, `core.C`,
`core_epoll.C`, `itree.C` are in `src/src/mely/`; `sws*.C` in
`src/src/apps/simple_webserver/`, zlib in its directory `zlib/`).

## 1. Inventory

| Component | State | Operations | Hard part |
|---|---|---|---|
| Task queues (`task.lbc.C`, `task.lbc.h`, `task.common.h`) | per thread: spin lock, `color_list`, `task_count`, `num_unique_colors`, batch counter, `acolor`; per color: `Task_List` (two segments, priority), `COLOR_TO_QUEUE` | `register_task(_head)`, `_register_cb`, `choose_task`, `task_thread_loop` | posts from any thread under the lock of a destination that may change; an empty list stays chained while it runs |
| Work stealing (`steal_work`) | `steal_color_list`, `is_stealable`, `was_stealable`, `has_been_stolen` | test a victim, lock it, unlink half of its colors, insert them at home | unlocked test, colors without owner between two locks, several thieves |
| Start (`init_task_state`, `amain`, `task_go`) | `COLOR_TO_QUEUE`, the polling tasks | posts of `main`, of `ainit` and of `acheck_task`; creation of the threads | what is in the queues before the threads exist |
| Wakeup (`core_epoll.C`, `acheck_task` of `core.C`) | `epoll_nowait`, `epoll_active`, a pipe per thread | `wakeup_fdwatcher`, `fdcb_fdwatcher_check`, `init_private_stuff` | lost wakeups: flags under a lock, write and drain outside of it |
| Timers (`core.C`) | trees `timecbs` and `timecbs_active`, `nb_timecbs`, `tsnow` | `delaycb`, `timecb`, `timecb_remove`, `do_timecb`, `timecb_check` | cancellation against expiry; a clock that all threads fill without a lock; a counter read without one; the owner of a color read during a steal |
| Interval tree (`itree.C`, `itree.h`) | red-black tree linked through its entries | `itree_insert`, `itree_delete`, successor, predecessor, search | rebalancing; equal keys |
| Descriptors (`core_epoll.C`) | an epoll set per thread, `fdcbs`, `epoll_queued`, `fdcol`, `fd_to_core` | `fdcb`, `fdcb_finished`, `start_fd_poll_check`, `do_fd_check`, `_epoll_add/remove/steal` | a color that moves while its descriptors are polled; numbers that are closed and given again |
| Web server (`sws.C`, `sws-misc.C`, `sws-accept.C`, `sws-cache.C`) | connections, messages, `pending_request`, `nb_pending_treatments_fd`, `nb_client_accepted` | Accept, ReadRequest, ParseRequest, CheckInCache, CompressResponse, Write, WriteHeaders, SendFile, FreeRequest, FourOhFor, BadRequest, Close, Dec_Accepted_Clients | pipelined requests; two handlers that decide to close; messages on several lists |
| Compressor (`zlib/`, `CompressResponse`, `end_compress`) | `z_stream`, `deflate_state`: window, hash chains, pending buffer, trees; per thread a pool of memory and a count of streams | `deflate` and what it calls, `compress`, `async_deflate` (added by Mely) | calls with a byte of room, a window that slides, a block that is coded over its own input; the turns of a stream move between threads and its end may not |
| Locks (`lock.h`, `atomic.h`) | `xchg` spin locks | lock, unlock | fairness is not promised |
| Statistics and dump (`task.common.C`) | counters | gather, print, stop | reads without locks |
| Echo server (`apps/echo_server`) | nothing but its callbacks | accept, read, write | as the web server, smaller |

The callback wrappers (`callback_norefcount.h`) are generated and hold no logic.

How they interact: a callback calls `cpucb`/`cpucb_tail`, that is
`register_task_head`/`register_task`, which takes the lock of the destination,
queues the callback, and calls `wakeup_fdwatcher` for the destination if it is
another thread. The worker loop takes its own lock, maybe steals, rotates its
list of colors, chooses a task, unlocks and runs it. When the task is
`acheck_task` it posts `do_timecb` for the timers that have expired, waits in
`epoll_wait`, posts `do_fd_check` for the ready descriptors, posts itself again
and returns. Its priority is 0 after a wait that found something and `IdlePrio`
(-100) otherwise, so that real work runs first. A thief also moves the
descriptors of the colors it takes (`_epoll_steal`). The handlers of the web
server are callbacks of the color of their connection, posted by a descriptor
that is ready or by the handler before them.

What makes each correct:

* queues: color exclusion, no callback lost or run twice, order inside a color,
  exact counters;
* stealing: a color has one home, nothing is stranded, no thief exits;
* wakeup: no thread sleeps on work, no wakeup is lost, no write is useless;
* timers: a timer is in one place, ends once, in the order of the dates, and
  some thread always looks at the tree again (not in time: see the findings);
* tree: balanced, linked right, and the ordered list it stands for;
* descriptors: an event is posted once, to a callback that still exists, and a
  registered descriptor is watched by one thread;
* web server: answers in order, each request answered, each connection closed
  once its requests are over;
* compressor: what it writes decodes to what it read, whatever the calls.

## 2. Modules

| Module | Models |
|---|---|
| `Wakeup` | `wakeup_fdwatcher`, `fdcb_fdwatcher_check`, `init_private_stuff`: flags, pipe, `epoll_wait` |
| `ColoredTasks` | abstract: what Mely promises to a program |
| `Scheduler` | `task.lbc.C`, `amain`, `acheck_task`; uses `Wakeup` by `INSTANCE`; refines `ColoredTasks` |
| `IntervalTree` | `itree.C`; refines `KeyedList` |
| `KeyedList` | abstract: the list ordered by key, first in first out among equal keys |
| `Timers` | the timers of `core.C` over ordered lists, with what `Scheduler` and `Wakeup` promise |
| `FdCallbacks` | the descriptors of `core_epoll.C` |
| `WebServer` | the handlers of a connection, over the promise of `ColoredTasks` |
| `Trees` | `trees.c`: the Huffman coder |
| `Crc32` | `crc32.c`, with its tables |
| `Deflate` | `deflate.c` and `adler32.c`: a stream and the calls on it |
| `Inflate` | reference: what a compressed stream means (no code of the repository) |
| `Compress` | programs that call `deflate`, `compress`, and the web server's turns |
| `MCWakeup`, `MCScheduler`, `MCIntervalTree`, `MCTimers`, `MCFdCallbacks`, `MCWebServer`, `MCCompress` | small instances for TLC |
| `WakeupProofs` | proofs about `Wakeup` |
| `ListLemmas` | lemmas about sequences used as chains without duplicates |
| `SchedulerSafety` | proofs about `Scheduler`: lemmas on its operators, type correctness, the inductive invariant on lists, owners and posts, and the safety theorems; what the locks protect: no thief and no worker panics |
| `SchedulerProofs` | the scheduler uses the wakeup protocol as `Wakeup` says; no worker sleeps on work; one polling task each, exact counters; `Scheduler` implements `ColoredTasks`, step by step |
| `TreeProofs` | proofs about `IntervalTree`: a red-black tree, walked and searched right; it implements `KeyedList` |
| `TimersProofs` | proofs about `Timers`: one place each, in order, nobody oversleeps |
| `FdProofs` | proofs about `FdCallbacks`: one check, one set, no stale event, for careful programs |
| `WebProofs` | proofs about `WebServer`: no fault, answers in order, exact count, nothing lost, for careful clients |

The modules are composed bottom up, each over what the one below was shown to
give: `Scheduler` instantiates `Wakeup`; `Timers` uses lists where `IntervalTree`
is shown to be one, a flag `asked` where `Wakeup` shows that a wakeup ends a
wait, and one task at a time, first in first out, in a color where `Scheduler`
shows `ColoredTasks`; `FdCallbacks`, `WebServer` and `Compress` use the same
promise of the colors. The modules other than `Wakeup` and `Scheduler` have a
variable `setting` (`program` in `Timers`) that `Init` chooses from a set and no
step changes: the build options and the shape of the program or the clients.
One run covers all the settings of its set.

### From the code to `Scheduler`

* `TL_ARRAY(color)` is named by `color % MAX_COLORS`, `NEG_TL_ARRAY(t)` by
  `-t-1`. `first_task..last_head_task` is `headSeg`, the rest `tailSeg`.
  `nb_callbacks` is the length of both: `NbCallbacks`.
* `color_list`, `steal_color_list` and the chain a thief carries are sequences
  of names of lists. `Slot` is the walk of `insert_in_tl`; `Aged` the increment
  of `current_prio` of the lists behind.
* A locked section nobody can look into is one step. Two of them are visible
  from outside and are split: `steal_work` clears `COLOR_TO_QUEUE` one color at
  a time, under the lock of the victim, while `register_task` reads it without
  a lock (`ReadOwner`, `StealColor`); and `wakeup_fdwatcher` writes in the pipe
  under the task lock of the destination (`RegisterTask`, `Notify`). The victim
  is tested without its lock (`CheckVictim`) and again with it (`LockVictim`).
* `pc` is where an actor is; `read`, `post`, `notify` are inside
  `register_task`; `victim`, `lockvictim`, `stealing` inside `steal_work`;
  `relock`, `insert` in `task_thread_loop` after it. `panic` is any `PANIC` or
  `exit`.
* A callback of the program is an element of `Callbacks` that is posted at most
  once, by `main` before `amain` (`BootProgram`), or at any later time by any
  running callback or by a polling task (an expired timer or a ready
  descriptor). Which one posts what is left open, so a run covers every program
  that posts these callbacks.
* `try_to_wakeup` searches for a thread whose `sleeping` flag is set; nothing
  in the code sets it, so it has no effect (`UpdateStealFlags`).
* A spin loop of `register_task` on a color without owner is `ReadOwner` being
  disabled.

### From the code to `Wakeup`

`at[w]` walks through `fdcb_fdwatcher_check`: `out`, (`due`: `timecb_check` has
found an expired timer and posted its callback), the locked section chooses `poll`
(null timeout), `block`, or, after `due`, `late`; `returned` from `epoll_wait`, `cleared` after `epoll_active = 0` (no lock),
`drained` after the pipe is read. A waker is in `writes` between its unlock and
its write. A timeout of `epoll_wait` that ends, and a ready descriptor, are
`ReturnEvent`. The pipe holds at least one byte or none: epoll is
level-triggered and the drain empties it.

`late` is a wait that is not null although a timer was due. `timecb_check`
computes the wait from `tsnow` (`core.C:176-186`), which it fills a second time and which
the other threads fill too: between its store, the comparison and the subtraction
the value may become older (the wait comes out positive) or newer (negative, which
`epoll_wait` takes as endless, `core_epoll.C:486`). What such a thread posted to itself
for the expired timer wakes nobody (`task.lbc.C:167`), and the test of the queue came
before the polling task began (`task.lbc.C:1024`). So `NeverSleepsOnWork` and
`EveryTaskRuns` say what is true of the code: a thread falls asleep only on work it
gave itself this way, any later post of another thread wakes it, and every callback
runs as long as no thread stays in a late wait for ever. `Timers` models how the wait
comes out late, step by step; the finding is `TimersOwnWork`.


### From the code to `IntervalTree` and `KeyedList`

The tree is a record: the root and, for each entry, `up`, `left`, `right` and
`color` (`rbe_up`, ...). The two mirror halves of every loop of `itree.C` are one
definition over a side. A removal follows the code in relinking the entry that
takes the place of the removed one, colors and parents included, rather than
copying contents. The loops of `itree_insert_fix` and `itree_delete_fixup` are
`InsertLoop` and `DeleteLoop`, functions of what they change, and `InsertTurn` and
`DeleteTurn` one turn of them: a recoloring that goes up, or the rotations that end the loop
(`Raise`; `BlackSibling`, `RedNephew`, `Settle`). Recursion is written as
functions throughout, so that the module can be proved about. `ImplementsKeyedList`
is refinement with the in-order walk as the list: `ListInsert` and
`ListRemove` of `KeyedList` are what an insertion and a removal must do to the walk,
`FirstWith` is what a search (`operator[]`) must find.

### From the code to `Timers`

A date counts ticks; `tv_sec` is its quotient by `Second`, `tv_nsec` the rest.
`timecb_check` is `BeginCheck` (`_acheck` tests `nb_timecbs`), `FillTsnow` (the two
fields of the global `tsnow` are two writes, from a clock that was read before),
`LockTimers`, `Expire` (one timer moved to `timecbs_active` and `do_timecb` posted,
under `cb_mu_global`), `UnlockTimers`, `Compare` and `Subtract` (the wait until the
first timer, which reads `tsnow` again), `EnterEpoll`, `Return`. `Expire` asks the
owner of the color to run unless it is the thread that posts (`AskedToRun`), and a
thread asks itself for the work it has only in `BeginCheck`, before the check; a wait
that begins with work in the queue is `late`. `timecb` is
`InsertTimer` followed by `WakeOwner`, `timecb_remove` is `RemoveTimer`, `do_timecb`
is `StartTimer` and `RunTimer`. `Steal` and `Land` move a color. While a color is
stolen its owner is -1 and `WakeOwner` calls `wakeup_fdwatcher(-1)`, which takes a
lock and writes flags in front of their arrays: either nothing comes of it, or the
thread never gets that lock (`fault`). `color_to_thread` (`task.lbc.C:90`) has the same
fault for timers on negative colors and on colors from `MAX_COLORS` on, which index
`color_to_queue` outside of its bounds; the model gives timers the colors it
accepts.

### From the code to `FdCallbacks`

`interest[t][f]` is the kernel's epoll set of thread `t`; an operation on it is one
step and `panic` is raised where `epoll_ctl` fails and the code calls `PANIC`. The
dispatch of `fdcb_fdwatcher_check` is `Wait` or `WaitError`, then for each event
`StartCheck` (`start_fd_poll_check`) or `DropEvent`, and `PostCheck`; `do_fd_check` is
`RunCheck`, the callback with its `fdcb` and `fdcb_finished` (`Register`, `Unregister`,
`Close`, `AfterFinished`), `ClearQueued` and `ReAdd`; `_epoll_steal` is `EpollSteal` for
each operation. `epoll_queued` is
written and read without a lock by `do_fd_check` and by `fdcb`: the steps between
two such accesses are one step, the accesses are separate ones, and where a
store is followed by a load of another location the load may come first, as on
the processors Mely runs on. The settings say what the program does beyond
registering: `anywhere` (descriptors of a color registered by a task of another
color: an acceptor), `reuses` (closed numbers are given again), `errors`
(`EPOLLERR` alone), `others` (tasks that are not checks act on descriptors),
`removes` (callbacks removed while their check is posted), `stealing`.

### From the code to `WebServer`

A handler is one step: the handlers of a connection have its color, so they run
one at a time in the order they were posted. What is shared by all connections
(`nb_client_accepted`) is touched by handlers of one color. A client sends chunks:
a part of a request, or its end with what it asks for; a read takes all that has
come, and the client sends between two reads. A message has the chunks of its
buffer, `length`, `reqEnd` (`end_of_req`), the close flag and the link of the
pending list; numbers name messages, so that the use of a freed one is seen.
`fault` names the failed assertion, the freed message or the `close` that fails,
and the server stops there. A setting says what clients ask for (`kinds`), how many
requests they have under way (`pipelined`), whether they leave without their answers
(`hasty`) or after a part of a request (`halves`). A special request (the ones of the
measurements) is a treatment that `ParseRequest` counts and never ends.

### From the code to `Trees`, `Deflate`, `Compress`

A byte is `ByteBits` bits; all that depends on it (alphabets, extra bits, header
fields, window, hash, buffers) is a constant, with the real value beside its
declaration, so that the branches that need megabytes in the real code need some
tens of symbols here. `pending` holds the bytes of `pending_buf` that
wait, `sent` counts those before them that the caller has, `d_buf` is the part of the same array the code
overlays on it and the assertion on the overlap is kept. `deflate_stored`,
`deflate_fast` (and its `FASTEST` variant) and `deflate_slow` are each a turn of
their loop (`StoredTurn`, `FastTurn`, `SlowTurn`) that the operators under *The loops*
iterate. The header of a gzip stream is `Headers`, with a state for each field as
in the code; its checksum `crc32` takes the four-bytes-at-a-time path of
`crc32_little`, and `Framed` compares it with a bit by bit one.

`Compress` has three kinds of programs (`mode`): `calls` (one stream, the calls
`zlib.h` allows: any pieces of input and room, flushes, `deflateParams`, a
dictionary, a gzip header), `sync` (the web server, `compress` at once) and
`driven` (`USE_EVENT_DRIVEN_GZIP`: a turn of `async_deflate_fast` is a task of the
color of the message, and the end is a task of the pinned color of the thread
whose pool the memory is from). A pinned color is -1 - p. The room of the web server
is the one `CompressResponse` computes (`compressed_length`, `sws.C:1085` and `1101`): one
hundredth more than the file less its header and one, cut to an integer, negative
for a file shorter than the header. `compress` refuses a negative one;
`async_compress` takes it for nearly 2^32 (`UIntSize`), and the model then follows what
is written against what `malloc` gave (`Allocated`).

## 3. Runs

| Run | Instance | Shows |
|---|---|---|
| `Wakeup` | 2 watchers that wake each other, one more waker | no lost wakeup, no useless write, and (liveness) every asked watcher leaves `epoll_wait` |
| `SchedulerPlain` | 2 threads, no stealing, 4 callbacks: one color posted twice, one negative color, one `cpucb`, three `cpucb_tail` | types, one polling task per thread, no thread sleeps on work but in a late wait, refinement of `ColoredTasks` |
| `SchedulerSteal` | 2 threads, 4 colors of thread 0, of which the thief takes two at once before the first runs, one color at a time later; the second color gets another callback, with a higher priority, while it runs, waits or moves; batch of 2 | exclusion, one home per list, nothing stranded, counters and steal lists exact, no panic |
| `SchedulerStealRefines` | as `Steal` with 4 callbacks, batch of 1 | what is stolen keeps order and exclusion: refinement of `ColoredTasks` |
| `SchedulerStealLive` | 3 callbacks, one posted to a color that may be stolen | every posted callback runs, unless a thread stays in a late wait |
| `IntervalTree` | 7 entries, 3 keys | balance, links both ways, search, and the refinement of `KeyedList` |
| `Timers` | 2 threads; two timers of one color within a second; one timer whose color is stolen, over two seconds | one place, no timer ignored, some thread will look again, order of the dates, every timer ends unless a thread stays in a late wait or in `fault` |
| `FdCallbacks` | 2 threads, one color; reads and writes on two descriptors; a stolen color with errors; two programs that close and reuse a number | one check per event, of a callback that exists, one set, no panic, every check ends |
| `WebServer` | pipelined requests; failing and special ones; three clients on three sockets with two places; clients that leave, with compression: between requests, in the middle of one, after a special one; `USE_SENDFILE` | order, no loss, counts, no fault; every request answered and every connection closed, but for special requests and halves |
| `Compress` | see below | round trip, no failed assertion, every stream ends |
| `SchedulerModulo` | `MAX_COLORS` 3, 2 threads, colors 0 and 3 | **violation**: see findings |
| `WebPendingLeft` | two pipelined requests, the first fails | **violation**: see findings |

Scheduler bounds. The only bounds are the sizes of the instances: the state space
is finite because a callback is posted at most once and the polling task is the
same task over and over. `MAX_COLORS` is the smallest number for which the
colors of a program are different lists. `IdlePrio` is -2 in place of -100: it
only needs to be below the priorities of the programs minus the aging they can
cause. Two threads meet every pair of thread interactions (poster against
thief, thief against runner); two thieves of one victim need a
third thread, and for that case there are the theorems, which hold for any number. The batch threshold
is 1 as in `runtime_config`, and 2 where the branch that keeps a color first
matters.

Timers: `Second` is two ticks, so that a mix of the two fields of `tsnow` may be
wrong by a second; `MaxClock` is the last tick in which anything is due. With
two timers of one color each order of dates, and equal dates, occur. Seven
entries of the tree make trees of four levels, in which insertion and deletion
take every branch of their repair, on both sides.

`FdCallbacks`: three or four callbacks are allocated in all, so that each
descriptor is registered again while the check of the last callback runs. The
program that combines reuse with registration from other colors
(`SharedNumbers`) breaks the safety properties, see the findings; for it the run
checks only that checks end.

`WebServer`: two requests in flight, buffers of nine chunks, two to three
clients. The first part of `NothingLost` speaks of settings whose requests succeed
and whose clients do not leave after a part of one: a request that fails loses the
message of the next read of its connection, and so does such a client; that is what
the code does. `EveryRequestAnswered` speaks of each request of a connection that no
special and no failing one precedes, in every setting, the failing one itself
included (its answer is the 404 or 400); the server may not close before the answer
unless the client has left. What it leaves out, a special request and those behind
it, is never answered (finding `WebSpecialFirst`). `ClosedAfterRequests` leaves out
clients that left after a part of a request or after a special one, whose connections
stay open for ever (findings `WebHalf`, `WebSpecialLeft`); the same settings are in the
run, for the clients of theirs that behave. All the settings of the run are `Careful`
and, but for the one whose clients leave after a part of a request, `Tidy`
(section 5).

`Compress`: bytes of 4 bits, matches of 3 to 5 bytes, a window of 16, 32 symbols
in a block, a pending buffer of 32 bytes (so stored blocks of 27), codes of 5 bits
at most, `TOO_FAR` 5, hash of 6 bits, a crc of 16 bits, modulus 251 of adler32, one
stream at a time on each of two threads. The settings are, by name in
`MCCompress`: `Cut` (every way to cut input, room and flushes of a text with
lazy matches), `Drops` (a byte of room, or of input, at a time), `Flushes` (full
flushes in text that comes back), `Kinds` (each strategy over texts that give
stored, static and dynamic blocks, runs of equal code lengths, and code lengths
that overflow), `Dicts`, `Changes` (`deflateParams` between functions), `Gzips`
(headers with and without fields and crc, cut by the room), `Servers` (one call,
and the event-driven server with three messages of which two share a color). In
`Servers` the header has 16 bytes and `uInt` 16 bits: there are files that shrink by
more than the header, files that do not, and files shorter than the header, in both
builds. `NoFault` allows the server to exit only where the room it computed is less
than what the compression takes (`RoomEnough`, which compresses once with all the
room there can be) or, at once, negative; nothing may be written beyond what was
allocated.
`Rolling` makes the window slide several times. The oracle is a decoder written
from the format (`Inflate`) that shares with the compressor the alphabets only; it
builds its codes by counting fractions of the code space and rejects streams
whose codes do not fill it. Mutations tried beyond the listed ones that
`RoundTrip` finds: the order of the crc tables, `beg` not moved in a gzip field,
adler not reset. Not found, because the decoded stream is the same: the second
empty block of `_tr_align`, the choice among repeat codes of equal effect, the
partial byte of `bi_flush`, insertions with a lookahead below 3.

Deadlock is not checked where a finite program ends: its last state may be
threads that sleep in `epoll_wait` for ever, which is what an idle server does.
`NeverSleepsOnWork` and the liveness properties say that they sleep only then.
`IntervalTree` checks it, for a tree can always be changed.

Fairness. A thread that can take its next step takes it: weak fairness, for the
steps of the polling task, of timers, of descriptors and of handlers. Strong
fairness is used where a thread spins on a lock (`sl_mutex_lock`, `LOCK`), or
where a task waits for the turn of its color among others: an `xchg` loop that sees
the lock free infinitely often gets it, which is what the hardware gives in
practice and all the code relies on, and a queue is served in turn, which
`EveryTaskRuns` shows. Callbacks of the program are assumed to return, clients
that stay to read, and time to pass (`Tick`). Nothing makes a descriptor
ready, a client send or a callback post. In `Compress` weak fairness is written
out over state predicates (`Asks`, `Ready`, `Taken`) because the `ENABLED` of a step
that compresses is expensive to evaluate; a message that waits alone at the
limit posts itself again and changes nothing, which is why `Ready` leaves it out.

Two liveness properties have a premise besides fairness: `EveryTaskRuns` and
`EveryTimerEnds` speak of executions in which no thread stays for ever in a late
wait (and, for timers, none is lost in `wakeup_fdwatcher(-1)`). Without it TLC finds the
thread of `TimersOwnWork` asleep for ever on the callback it posted. `EveryStreamEnds`
speaks of a server that has not exited.

Each property is also run against a mutant of the code (`PROJECT.json`,
`mutants`): the alternative definitions stand before the original in the
modules and are marked as mutants. `PostedOnce` and `OneSet` of `FdCallbacks` share one: both
are about what a check that is not marked does.

## 4. Findings

Two are checked with the runs:

* `SchedulerModulo`. Without `STEALING`, `register_task` sends a color to
  thread `color % nthreads` (`task.lbc.C:534`) and queues it in list
  `color % MAX_COLORS` (`task.lbc.C:422-423`). `MAX_COLORS` is 32764; when it
  is not a multiple of `nthreads` (3 or 8 threads, for instance) colors `k` and
  `k + 32764` share a `Task_List` that two threads use under two locks, and
  they run it together. `task.lbc.C:27` promises that each thread treats a
  different color. `ColorsFit`, the condition under which the theorems hold,
  excludes such programs.
* `WebPendingLeft`. `free_pending_message_list` leaves `pending_request[socket]`
  pointing to what it deleted (`sws-misc.C:59`); a 404 to the first of two
  pipelined requests makes the next connection on that descriptor fail
  `assert(first_pending(msg->socket) == NULL)` (`sws.C:676`).

The others have a configuration to reproduce them, with the module it names;
TLC must report the property violated:

| Configuration | Module | Property | What the code does |
|---|---|---|---|
| `TimersEarly` | `MCTimers` | `NeverEarly` | two threads mix the fields of `tsnow` (`core.C:146`) and a timer runs before its date |
| `TimersOwnWork` | `MCTimers` | `WaitsAlone` | a thread waits with the callback of an expired timer in its own queue, because another one changed `tsnow` while it computed the wait (`core.C:176`) and its own post wakes nobody (`task.lbc.C:167`) |
| `TimersWakeNobody` | `MCTimers` | `WakesAThread` | `timecb` calls `wakeup_fdwatcher(-1)` while the color is stolen (`core.C:78`): a lock and two flags outside their arrays, and no thread woken |
| `FdError` | `MCFdCallbacks` | `PostedOnce` | an `EPOLLERR` alone posts a check that is posted already (`core_epoll.C:561`) |
| `FdFreed` | `MCFdCallbacks` | `CallsRegistered` | `fdcb(fd, op, NULL)` frees the callback of a posted check (`core_epoll.C:364`) |
| `FdOther` | `MCFdCallbacks` | `PostedOnce` | `_epoll_add` adds the event of the other operation to its own set too (`core_epoll.C:203`) |
| `FdStealSets` | `MCFdCallbacks` | `OneSet` | `_epoll_steal` tests the mark of the wrong operation (`core_epoll.C:295`) |
| `FdStealPanic` | `MCFdCallbacks` | `NoPanic` | a thief removes from its victim's set what a third thread added (`core_epoll.C:278`) |
| `WebLength` | `MCWebServer` | `RequestAlone` | a message with two requests goes to the pending list whole (`sws.C:673`) |
| `WebPendingFreed` | `MCWebServer` | `PendingExists` | the read side frees what the treatment will pop (`sws.C:698`) |
| `WebTwice` | `MCWebServer` | `ClosedOnce` | the read side and `FourOhFor` both post `Close` (`sws.C:1528`) |
| `WebLong` | `MCWebServer` | `LongKicked` | an assertion fails where the request should be refused (`sws.C:576`) |
| `WebHalf` | `MCWebServer` | `ClosedAfterClient` | a client that leaves in the middle of a request is never closed (`sws.C:552`) |
| `WebSpecialLeft` | `MCWebServer` | `ClosedAfterClient` | a special request is counted as a treatment for ever, and `Close` posts itself for ever when its client has gone (`sws.C:1464`) |
| `WebSpecialFirst` | `MCWebServer` | `FilesAnswered` | a request behind a special one is never answered (`sws.C:766`) |
| `CompressShort` | `MCCompress` | `NeverExits` | the room given to `compress` is less than `compress.c:13-15` asks for (`sws.C:1085`), negative for a file shorter than the header; the server exits |
| `CompressTrailer` | `MCCompress` | `RoundTrip` | the event-driven end does not wait for its trailer to be written (`deflate.c:1915`) |
| `CompressHeader` | `MCCompress` | `NoFault` | a gzip field longer than what is left of `pending_buf` is written over bytes not sent yet (`deflate.c:620`) |

With `SharedNumbers` `PostedOnce` fails too: after the callback `do_fd_check`
clears `epoll_queued` (`core_epoll.C:391`) and looks at the list, while another thread
that was given the number of the closed descriptor adds its own callback.

Read in the code, harmless in the model: `timecb_remove` leaves `nb_timecbs` too high
(`core.C:113`, "Number of inserted callbacks in tree" at `core.C:32`), so that polling
tasks look at an empty tree; `has_been_stolen` is raised on the thief
(`task.lbc.C:678`), the header describes it as the flag of the victim
(`task.lbc.h:110`).

Read in the code, not modelled: `color_to_thread` is called with any color a timer
may have (`core.C:78`, `task.lbc.C:90`) and reads outside of `color_to_queue` for negative
ones; the echo server registers each connection from the color of its acceptor
(`apps/echo_server/echo_server.C:95`), which with stealing is the program of the
finding `FdStealPanic` and is not `Careful` in the sense of section 5;
`deflateReset` keeps `gzhead`, which `zlib.h:697`
says it resets; `zlib.h:695` says the default `os` is 255 and the code writes
`OS_CODE`; `static sl_mutex_t task_mu[]` stands in a header (`task.common.h:76`), so
each translation unit has its own and `task_print_queue` locks another mutex than
the scheduler; `libz_CPPFLAGS` in `zlib/Makefile.am` names no target (it should be
`libz_la_CPPFLAGS`), so `FASTEST` and `NO_GZIP` are not defined, `deflate_slow` is what
runs at level 6, and a build with `USE_EVENT_DRIVEN_GZIP` (0 in `sws.h:117`)
would stop at the `assert(0)` of `async_deflate_slow`: `driven` models the build the
flags intend; the `ReadRequest` of the echo server does not free its buffer at the end of
a connection, and its `fdcb(fd, selwrite, NULL)` drops answers still queued;
`sendfile` that fails leaves its file open when the client has gone;
`deflateParams` called without room for what was read changes the function with a
literal not tallied (`Params` of `Compress` gives it the room).

## 5. Proofs

Proved by TLAPS, for every value of the constants that satisfies
`SchedulerAssumption`, `TimersAssumption`, `FdAssumption`, `WebAssumption` or
`KeysAssumption` (for `Wakeup`: for any sets of watchers and wakers):

* `WakeupProofs!TypeCorrect`, `WakeupsKept`, `WritesUseful`. The inductive
  invariant adds to the types: `epoll_active` is raised only between the locked
  section and its lowering (`ActiveOnlyInWait`); a watcher in the wait whose
  flag is down has been woken or is (`DownMeansWoken`); a blocked watcher that
  was asked not to wait has its flag down (`AskedMeansDown`). The last two give
  `NoLostWakeup`; it is not inductive alone because a drain could eat the byte
  of a later request if the flag could be up then.
* `SchedulerSafety!TypeCorrect`. `TypeOK` is not inductive: `dest` is a thread
  only where `register_task` uses it, and the color posted must have a list.
  `PostOK` adds both.
* `SchedulerSafety!ColorsExclusive`, `ListsHaveOneHome`, `NothingStranded`,
  `StealListsExact`, under `ColorsFit` (true of every program with stealing; see
  the findings). None of the four is inductive; all
  follow from `SafeInv`, the types and two groups of conjuncts.
  * `ListInv`, where the lists are: no chain holds a list twice
    (`NoDuplicates`); a thread chains lists of its own (`AtHome`), all those
    that hold callbacks (`Chained`) and otherwise only the one it runs
    (`Useful`, `Current`); the steal list is what is chained with callbacks
    (`StealIn`, `StealAll`); a color without owner is carried by one thief, and
    holds callbacks (`Looted`). Exclusion follows from `Current` and `AtHome`:
    what a thread runs is at home, and a list has one home. `Useful` is what
    keeps an emptied list from being rotated to the front; `Chained` is what
    makes a task that follows the last one chain its list again.
  * `FlowInv`, what is under way: a post that chose its thread has chosen the
    home of its list (`Posting`), which with stealing rests on the lock of the
    owner and the second test of `COLOR_TO_QUEUE`, and without it on
    `ColorsFit`; without stealing no owner changes (`NotStealing`); a thread
    that is in its loop, or runs a callback of the program, has its polling
    task queued (`Polling`), so that `choose_task` always finds a task; before
    `task_go` nothing runs (`Starting`).

  The proof has one lemma per action. The locks do not occur in it: a locked
  section is one step of the model, and the sections that are split tolerate
  what may come between their parts because `queueOf` says who owns a list.
* `SchedulerSafety!NothingPanics`, under `ColorsFit`. Here the locks matter: a
  thief that found its victim worth a steal under its lock (`task.lbc.C:677`)
  must still find a color when it takes the first one, although several steps
  may come in between. `Holding` says who holds the lock of a section of
  several steps, `Found` that the test still holds; `ActorCalm` shows at once
  that other actors disturb neither. `choose_task` cannot fail by `Polling`.
* `SchedulerProofs!NobodySleepsOnWork`, under `ColorsFit`. Every step of
  `Scheduler` is a step of `Wakeup` or leaves its variables alone
  (`UsesWakeup`), so `NoLostWakeup` holds in the scheduler. `AwakeInv` adds that
  a worker is in the wait only while it runs its polling task, and that one
  whose thread has other tasks, before the choice of the timeout or in an
  ordinary wait, was asked not to wait. A post to another thread asks it
  (`Wakes`), except the one of a polling task, which never leaves its thread
  (`Posting`). A post of the polling task itself, for an expired timer, asks
  nobody; it leads to a null timeout or to a late wait, so the theorem leaves
  that case out and says the most that is true of it. A thread enters a late
  wait by a step that changes no queue (`FallsAsleep`); once it waits its queue
  grows only by posts of other workers, each of which writes in its pipe
  (`WokenByOthers`); and a byte, or the waker that will write it, stays until
  the wait ends (`WakeupLasts`).
* `SchedulerProofs!OnePollingTask`, under `ColorsFit`. Polling tasks are only at
  the tail of the negative lists, each at one position (`Apart`); only a worker
  that runs its polling task posts it (`Reposts`); and the task is queued
  exactly when it does not run, or, before `task_go`, once `amain` has come to
  the post of that thread (`OneEach`). That the list is never stolen is in
  `SafeInv`, that the post ends at the thread it came from in `Posting`, and
  that it ends at all before `choose_task` in `Polling`.
* `SchedulerProofs!CountersTrue`, under `ColorsFit`: `CountersExact`, which is
  inductive with `SafeInv`. A step changes what one thread holds of one list
  (`CountsMoved`): a list that `register_task` chains was empty and is not
  chained twice (`FreshUnchained`), one that `choose_task` forgets is empty, one
  that is stolen or inserted is chained nowhere else. Without `Useful` and
  `Current` an empty list would be counted twice or never.
* `SchedulerProofs!PromiseKept`, under `ColorsFit`: `Scheduler` implements
  `ColoredTasks`, with the mapping `StatusOf` and `OfColor` that the runs check.
  `PlaceInv` says where a callback of the program is: in the list of its color,
  in the segment `cpucb` or `cpucb_tail` uses (`Filed`), at one position
  (`FiledOnce`); what an actor carries in `register_task` is what the program
  posted, and it is queued already while the actor writes in the pipe
  (`Carried`); what a thread runs it took from the list of its color
  (`RunsOwn`); and to be posted, being posted, queued and running exclude each
  other, but for that write (`InOnePlace`). It is inductive with `SafeInv` and
  `CalmInv`.
  * `register_task` that inserts is `Post` (`RegisterPlace`): the color
    has one list wherever it is, so an insertion at the end of a segment is one
    at the end of the color (`ColorAppend`), also while a thief carries it.
  * `choose_task` is `Start` (`NextTaskPlace`): the first of a segment is the
    first of its color (`ColorTail`), the tail segment is only reached when the
    head is empty, and by `SafeInv` nobody else runs a callback of the color.
  * The return of a callback is `Finish` (`EndCallbackPlace`). The steals, insertions and waits, and
    the steps of a post before its insertion and after it, change nothing of
    what the mapping sees.
  * `Selected` is a recursive function, of which a prover knows nothing until it
    is shown to exist: `SelectionExists`, by the least length without one, and
    `SelectedFollows`. `Total`, the sum behind `NbQueued`, is treated alike
    (`SumsExist`, `TotalOne`). These are the inductions done by hand.

* `TimersProofs!TypeCorrect`, `TimersInOnePlace`, `TimersCounted`,
  `TimersRunInOrder`, `NobodyOversleeps`, for any program, build, number of
  threads and set of dates. A timer moves from the tree to the queue of its
  color, to the thread that runs it, to `freed`; any thread may move it, cancel
  it or steal its color meanwhile.
  * `ListsInv` says where it is. `EachPlaced` has one line for each of
    `timecbs`, the queues, the running callbacks, `timecbs_active`, the
    cancelled and the freed; it needs `ListsSound` (nothing twice in a list, a
    `do_timecb` on the color of its timer) and `OneOwner` (a callback runs on
    the owner of its color, a color in flight has one thief). `NeverTooSmall`
    is why `nb_timecbs` can be read without the lock: a cancelled timer leaves
    it too large, nothing makes it too small.
  * `RunInOrder` is a property of a step, about the variable `ahead` that
    records who waited in front of whom. `KeptOrder` follows a pair through the
    tree (`ByDate` keeps a later insertion from coming between), the queue of
    the color and the callback; it needs `OneOwner` again, for a color runs on
    one thread.
  * `LookInv` adds the lock and `SomebodyLooks`: with a timer in the tree some
    thread has still to look at it, or waits no longer than for the first timer
    by the `tsnow` it read, unless a thread is lost in `wakeup_fdwatcher(-1)`. The
    step to prove is the subtraction (`WaitIsRest`: both branches of the borrow
    give the same rest) and that a thread that fills `tsnow` in the middle of
    another's subtraction is itself one that will look. `NoOversleep` follows:
    not all threads wait without end. It says nothing of how long the one that
    looks waits: a wait computed with an old `tsnow` is too long by its age, which
    nothing in the code bounds.
* `FdProofs!ChecksPostedOnce`, `ChecksCallRegistered`, `NothingForgotten`,
  `OneThreadWatches`, `EpollNeverFails`, for programs and builds that are
  `Careful`: they do not remove a callback whose check is posted, do not act on
  a descriptor from another task of its color, register for reading only where
  colors are stolen or errors come alone, and with stealing register a
  descriptor in its color. Each of these is needed: the runs of the findings
  `FdFreed`, `FdOther`, `FdError`, `FdStealSets` and `FdStealPanic` drop one and
  find the fault. `Careful` speaks of `setting`, which no step changes.
  `SharedNumbers` stays in the properties, for the fault it names.
  * `FdInv` is proved of all the steps but those a careful program cannot take
    (`NoLoadFirst`: no check is left of a descriptor that is accepted, so that a
    load that passes its store does no harm). None of the five properties is
    inductive. `OneCheck` counts the checks of a descriptor, `CallsFirst` ties
    each to the head of its list, `Listed` keeps callbacks apart.
  * No event is stale (`Fresh`): what `epoll_wait` returned is still in the set
    of the thread, or `fd_to_core` names another, and then the event is
    dropped. That rests on `OneWatch`, and `OneWatch` on `WatchedHome`: a
    descriptor that had an event is watched where its color is, which during a
    theft is with the victim before the first loop of `_epoll_steal` and with
    the thief after it (`AtHome`). So the thread that runs a check is the only
    one with the descriptor (`RunsAlone`), and putting it back adds no second
    set. A descriptor registered anywhere may be away from its color until its
    first event, but then nothing else handles it (`Accepted`).
  * `Movable` and `Interested` say that the list `_epoll_steal` walks is what
    the victim watches, so that the first loop moves everything and the second,
    which tests the wrong mark, has nothing to do (`MovesAll`); this is where
    reading only is used.
* `WebProofs!NothingFails`, `AnswersInOrder`, `ClosedHasNothing`,
  `CountOfClients`, `NothingIsLost`, for any finite set of sockets, number of
  connections and requests, size of buffers and of accepted batches, with and
  without compression and `USE_SENDFILE`. They hold for settings that are
  `Careful`: a client has one request at a time, or two in all, neither of
  which fails, and waits for their answers; a client that leaves early asks for
  nothing that fails; a buffer holds the longest text that may come. Without any
  one of these conditions TLC finds a fault (`WebLength`, `WebPendingFreed`,
  `WebTwice` and `WebLong` in the runs of the findings), so the theorems say
  how far the server may be trusted. All the settings of the run `WebServer`
  are careful. None of the properties is inductive; they follow from
  `WebInv`.
  * `OneEach` is its center: a connection has at most one handler that reads,
    one that treats and one that closes, each with a message of its own, none
    freed and none of another connection (`Own`, `Numbered`). So a handler that
    frees its message frees nothing that is used elsewhere, and no connection is
    closed twice.
  * `Reads` ties a posted read to the callback and to what there is to read;
    `Pending` says that a pending request is alone in its message, and that a
    request with the close flag is the last task of its connection. With it
    `Close` finds no treatment, and the end of a treatment finds its successor.
  * `Treated` numbers the requests: answered, treated, pending, in this order
    without a gap; `Sent` continues the numbers through the buffer and the
    wire. `AnswersInOrder` rests on both.
  * `Behind`, for one request at a time: what is read before a treatment ends
    is only the end of the connection.
  * `ReadRequest` has six outcomes (`ReadComesTo`), each proved apart: nothing
    to read, the beginning of a request, one request, two in a buffer, a request
    while another is treated, a last request whose client has gone.
  * `NothingIsLost` asks besides that settings are `Tidy`: a client that may
    leave early neither leaves in the middle of a request (`WebHalf`) nor has
    `sendfile` fail behind it (section 4). `LostInv` follows each message and
    each open file through the handlers.

* `TreeProofs!TreeIsRedBlack`, `TreeIsWalked`, `TreeIsSearched`,
  `TreeIsKeyedList`, for any set of entries and of positive keys. None of the
  properties is inductive. The invariant is `TreeListed`: the tree has the
  entries of a list `l`, each at its position `pos`, in the order of their keys.
  `Tree` says so with what the program does not store: `Shape` gives each entry
  the positions of the first and the last entry below it, from which the links,
  the order and the number of entries follow locally, without induction over
  the tree; `Heights` gives it the number of black entries on the paths
  down; `Colors` that no red entry has a red child.
  * A rotation keeps the positions and moves two of the bounds (`RotateKids`
    and the lemmas after it). In the repairs one thing is wrong at a time: a red
    entry `x` below a red parent in that of an insertion, a path through
    `x` that lacks a black entry in that of a removal (`Damaged`). Each turn
    moves it up or ends it (`InsertStep`, `DeleteStep`); the number of entries
    below `x` grows, so that the loop ends.
  * `itree_insert` puts the new leaf behind the entries whose keys are not larger
    (`InsertedTree`): the descent narrows an interval of positions
    (`BelowStep`). `itree_delete` takes the entry, or its successor, out of the
    shape (`UnlinkedTree`), gives the successor the place of the entry
    (`PlaceTaken`; the positions of all others stay), and repairs
    (`RemovedTree`). The place where the repair starts is the case a test hardly
    reaches: the parent of the child of the successor may be the removed entry.
  * The loops of the code, and the walk, are recursive functions, of which a
    prover knows nothing until they are shown to exist. `LoopExists` shows it
    of every loop at once, as what its turns come to. It does not say that they
    end; each lemma about a loop shows that by a number that falls with each
    turn. `Walked` compares the walk with the list from the leaves up
    (`SameBelow`).
  * From `TreeListed` the walk is `l` (`Walked`), next and prev of an entry are its
    neighbours in `l` (`WalkedBothWays`), a search ends at the first position of
    its key (`SearchedDown`), and `TreeInsert` and `TreeRemove` do to `l` what
    `KeyedList` says (`InsertedList`, `RemovedList`).

`ListLemmas` holds what is proved once about `Max` and `Min` of bounded sets of
numbers and about insertion, removal, append and tail of sequences, seen as sets
without duplicates and for the order of their elements (`Before`).

Before a proof TLC checked each part of the inductive invariants on the small
instances (those of `FdInv` also with three threads and two colors). The
exception is `TreeListed`, which says that positions and bounds exist: TLC
checks the properties that follow from it.

All the safety properties that the passing runs check of `Wakeup`, `Scheduler`,
`IntervalTree`, `Timers`, `FdCallbacks` and `WebServer` are proved, and both
implementations of abstract modules. Their liveness
(`WakeupDelivered`, `EveryTaskRuns`, `EveryTimerEnds`, `CheckEnds`,
`EveryRequestAnswered`, `ClosedAfterRequests`) is only model-checked: it is out of
reach of the prover.

The compressor (`RoundTrip`, its `NoFault`) is only model-checked. `Trees` and what
extends it declare RECURSIVE operators, with which the prover cannot work, and
what they compute for every input is an induction over data.

## 6. Not modelled

* Statistics, dump and stop (`task.common.C`): output, read without locks.
* The freelist of tasks (`MAX_FREETASKS`), CPU affinity, the parsing of the
  environment, a second call of `amain`.
* The non-default policies of `ws_config.lbc.h`.
* Starvation of the polling task by programs that post without end: a callback of
  the model is posted once.
* The locks themselves (`lock.h`): an `xchg` loop is one step.
* `deleteall` and `traverse` of the tree, which nothing calls; a callback that is
  given to several timers; the repost of the same descriptor callback (a `PANIC`).
* The web server's other coloring methods, the stages of the measurements (fake
  stages, file summer) and the free list of messages, which are compiled out; the
  contents of the cache.
* The echo server: three handlers like those of the web server, which keep no
  state but the callbacks of their descriptors (`FdCallbacks`).
* In zlib: the decoder is not in the repository; `deflateCopy`, `deflatePrime`,
  `deflateTune`, `deflateBound`, `crc32_combine`, the big-endian crc,
  `set_data_type`, `async_deflate_slow`; extra fields of more than 65535 bytes.
* Generated callback wrappers.

`PROJECT.json` lists the hazards of all parts; the one without a property has a note.

## 7. Plan

Done: `Wakeup`, `Scheduler` with the promise of `ColoredTasks`, `IntervalTree`
with that of `KeyedList`, `Timers`, `FdCallbacks` and `WebServer`, with proofs of
all their safety properties; the compressor, model-checked. Left:

1. Starvation of the polling task by programs that repost without end.
