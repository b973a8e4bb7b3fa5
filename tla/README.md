# A TLA+ model of libtcr

libtcr runs many *tc_threads* (coroutines with their own stacks) on a few *worker*
pthreads. A tc_thread sleeps by leaving a `struct event` on a list and switching to the
scheduler. Whoever makes the event happen moves it to a list that the workers search.
The library has no global lock. Its correctness lies in the order in which event lists,
flags, one spinlock per thread and a one-shot eventfd are touched by several workers. No
test of `tests/` can force such an order, and these modules are about it.

All line numbers are those of `src/tcr/threaded_cr.c` unless a file is named.

## The parts of the system

| Part | Where | Module |
|---|---|---|
| scheduler: `scheduler_part2`, `run_immediate`, `run_or_queue`, `switch_to`, `tc_scheduler`, `tc_sched_yield` | 578-985 | TcSched |
| event lists: `immediate`, `pending`, `waiters`; `refcnt`, `event_stack` | 269-295, 444-554 | TcSched |
| wait queues | 1965-2170, `threaded_cr.h` 308-334 | TcSched, in the abstract TcWaitq |
| signals | 2188-2304 | TcSched, in the abstract TcWaitq (partly) |
| life of a tc_thread | 562-576, 1407-1547, 1920-1963 | TcSched |
| mutex | 1845-1912, 2055-2094 | TcMutex, abstractly Lock |
| reader/writer lock | 2578-2630, `threaded_cr.h` 478-492 | TcRwLock, abstractly ReadersWriters |
| waiting for file descriptors | 307-436, 498-518, 987-1063, 1375-1404 | TcFd |
| deferred free of tc_fds | 1700-1841 | WorkerSync (partly) |
| timers, `tc_sleep` | 2325-2575 | TcSleep |
| asynchronous I/O | 881-923, 2657-2842, `threaded_cr.h` 534-640 | TcAio (partly) |
| thread pools, `tc_parallel_for` | 1549-1613, `threaded_cr.h` 383-414 | - |
| domains, `tc_run` and its end | 1067-1366 | - |
| spinlocks | `spinlock.h`, `spinlock.c` | - (a critical section is one step) |
| coroutines, context switch, atomics, compatibility | `coroutines.c`, `swapcontext_*`, `atomic.h`, `compat.h` | - |
| diagnostics, nice levels | 2307, 3065-3099 | - |

`PROJECT.json` lists them with reasons, and the hazards with the line where each bites.

How they interact. Everything that sleeps does so with `tc_waitq_prepare_to_wait()`,
`tc_scheduler()` and `tc_waitq_finish_wait()`, or with an event on a tc_fd. TcSched models
these down to the lists and the workers; the parts above them are modelled over TcWaitq,
which keeps of a wait queue what a caller can see. `tc_rw_lock` contains a mutex, so
TcRwLock extends TcMutex. `tc_sleep()` uses a mutex (with `trylock`), a wait queue for each
sleeper and the timerfd, so TcSleep extends TcMutex as well. Asynchronous I/O uses a wait
queue for each tc_thread, so TcAio extends TcWaitq.

## The modules

**TcSched** is the core. One action is one critical section or one system call. A worker
`w` is in `scheduler_part2()` (`wpc[w]`) or on the stack of a tc_thread (`ctx[w]`); a
thread is at `pc[t]`. Worker actions:

* `run_immediate`, then up to three searches of the immediate list (`pass`: "own",
  "free", "any"), each ending in `search_none`, `search_queue` (the event goes to
  `tc->pending`), `search_run` or `search_exiting`;
* `switch_to` and `switch_in`, with the spin on `tc->running` in between;
* `tc_thread_free`;
* `epoll_immediate`, `epoll_timeout`, `rearm_read`, `arm_immediate`.

Thread actions follow the calls: `test`, `tc_waitq_prepare_to_wait`, `cond`,
`tc_scheduler`, `switch_out`, `tc_waitq_finish_wait` for a wait; `tc_sched_yield` to
`yield_done`; `tc_waitq_wakeup` and `iwi_immediate` (which also fire signals); the signal
subscriptions; `tc_thread_insert` and `tc_thread_new`; `tc_thread_wait`; `tc_die` to
`die_post`. A search keeps `common.immediate.lock` across several events, so this lock
is a variable (`immLock`); other sections begin and end in one action.

The client is the constant `Calls`: the calls a thread may make as its first, second,
... call. The condition of a wait queue is a counter (`avail`) that a wakeup raises and a
successful wait lowers. A condition may itself make a call, up to `MaxDepth`. `due` is a
history variable for signals.

**EventLists** has the few sequence operators that event lists need.

**TcWaitq** is a wait queue without workers: `waiters`, the events that a wakeup has made
`active`, the fired signals `sig`, and `woken` for `woken_by_event`. With a signal and the
event both active `tc_scheduler` returns with either, as the searches may.

**TcMutex** adds `m_owner` and, for each thread, where it is in `tc_mutex_lock()`. A
compare-and-swap is a step; `tc_waitq_wakeup_one_owner()` makes the first waiter the owner
in the step that wakes it, as the code does under the lock of the queue.

**TcRwLock** adds the count of readers. The decrement in `tc_rw_r_unlock()` and the wakeup
after it are two steps, and so are a writer's test and its sleep.

**Lock** and **ReadersWriters** say what a mutex and a reader/writer lock promise, without
queues, signals or program counters. TcMutex implements Lock with the threads in a call as
`asking` and those that have returned from it as `holding`. Lock leaves room for what the
implementation does and a client notices: ownership may arrive before the thread is told,
but then the thread cannot give up. TcRwLock implements ReadersWriters; the mutex inside
it implements Lock, with other places where a thread holds it.

**TcSleep** has the timer list, the clock, the timerfd and the master: the sleeper that
got `timer_mutex` and waits on the timerfd for everybody. Ends are `<<tv_sec, tv_nsec>>`
pairs, with the code's carry, borrow and comparison. The clock ticks between any two steps.
`exited` stands for `msg_exit()`.

**TcAio** has the slots of each tc_thread (`flag`, `notify`, `res`), the kernel (requests
in progress, ring of completions, eventfd counter), the one worker that is in
`handle_aio_event()`, and the threads in `tc_aio_submit_*()`, `tc_aio_write()`,
`tc_aio_read()` or `tc_aio_wait()`. Marking a slot done, reading its `notify` and the wakeup
are three steps; so are setting `notify`, looking at the slot and going to sleep.

**TcFd** is one tc_fd: its event list, the armed mask with its cache, the kernel's report,
and `matching_event()` on workers over a scheduler reduced to the degree of TcWaitq. Each
EPOLL_CTL_MOD may fail; `stale` remembers that the last one did. A worker runs one thread at
a time, and `loop[w]` says whether it is going to look at the immediate list, polls, or
sleeps in `epoll_wait()`, because `move_to_immediate()` (321) tells no worker of the event.

**WorkerSync** is independent: its actors are workers around `epoll_wait()`, with the
sleeping list, `must_sync`, the barrier and the memory of tc_fds. **Domain** declares the
workers for it and for TcFd.

**MCTcSched**, **MCTcFd** and **MCTcSleep** hold client programs, requests and naps for
TLC. **TcSchedProofs**, **SchedLife** and **SchedSafety** (each extends the one before),
**WaitqFacts** with **LockProofs**, **SleepProofs** and **AioProofs** on top of it, and
**FdProofs** (TcFd and WorkerSync) hold the proofs.

Definitions such as `leave_waiters` or `cas_owner_blind`, next to the one they resemble,
are plausible mistakes. Each property is known to fail when one of them takes the place
of the real definition (`mutants` in `PROJECT.json`).

## The runs

| Run | Instance | States | What it shows |
|---|---|---|---|
| sched | 2 workers, 3 threads (one pinned), 1 queue, 1 signal | 374,430 | structure of the scheduler; a signal is delivered once, in `wait`, `wait_event`, `join` or `yield`, and hides no wakeup; every created thread ends |
| mutex | 3 threads with signals | 26,848 | exclusion, lock passing against signals, implements Lock, every `lock` returns |
| rwlock | 3 threads, 2 with signals | 167,488 | a writer is alone, an interrupted one returns the mutex, implements ReadersWriters, everybody is served |
| sync | 3 workers, 2 tc_fds | 49,906 | no use of freed memory, exact barrier, everything is freed unless a worker slept over its signal |
| fd | a reader with signals, another one or a writer, 2 workers | 179,468 | every waiter is watched, errors reach all, no event is forgotten on the immediate list, `tc_wait_fd` returns, unless EPOLL_CTL_MOD fails |
| sleep | 2 sleepers with signals | 235,496 | ordered list, one master, nobody sleeps unwatched or too short, `tc_sleep` returns |
| aio | 1 thread, 2 slots, 4 calls | 316,282 | a slot has one request, no completion is lost, every call returns that can get a slot |
| lost_one, nested_lost, sync_lost, aio_spin, aio_intr | | | expected to fail, see below |

The type invariants of TcSched, TcMutex, TcRwLock and WorkerSync are proved and are in no
run; those of TcFd, TcSleep and TcAio are part of FdWatched, TimerListExact and
SlotExclusive. MutexGivenBack is proved, and follows from InnerIsLock, which a run checks.

Bounds, and why they are enough. Two workers are enough for a race of a searcher with a
sleeper, and three threads let a third one interfere; a barrier of several workers needs
the three of `sync`. In `sched`, `Rounds` is 1 instead of the 4 of `run_immediate()`: more
rounds repeat the same searches before the worker goes to `epoll_wait()`, and it goes there
with and without work left all the same; and `PerWorker`, how many events per worker count as
few, is 1 instead of 2, so that the immediate list gets too long for the first two searches.
No wait condition sleeps there (`MaxDepth`); the one run with a sleep inside a condition is
`nested_lost`. The theorems hold for all `Rounds` and `PerWorker`. A thread makes at most six
calls. Each thread waits for a descriptor once (`MaxWaits`). In `sleep` a second has two
nanoseconds (`NSEC`), so carry and borrow occur with naps of half a second, one and one and a
half; each thread sleeps once, and the two ends can be in any order or equal. In `aio`,
`io_getevents()` returns one completion at a time (`AtOnce`), so the loop over a count of
two is taken; that a batch may hold more completions than the eventfd has counted so far is
left to the theorem `CountedCorrect`. A call that finds no free slot is the third or fourth.

Deadlock is checked in `mutex`, `rwlock`, `sync` and `fd`. It is not in TcSched, because a
program that has ended, or waits for what never comes, rightly stops; nor in TcSleep and
TcAio, whose threads stop after their last call.

Fairness. The kernel keeps every pthread running, so each worker is weakly fair whatever
code it executes. In TcMutex, TcRwLock, TcSleep and TcAio the threads inside the library
are weakly fair; that they get their turns is what `ThreadsExit` of TcSched says. The holder
of a lock releases it, as a program must (strong fairness of `tc_mutex_unlock`, since
`tc_mutex_change_owner` may take the mutex away and give it back). Time passes and timers
expire; the kernel completes every request.

In TcFd every worker is weakly fair, and so is the thread it runs, its I/O included: a thread
that keeps its worker in client code for ever can keep an event on the immediate list, and
`WaitFdReturns` is about programs that do not. `epoll_wait()` is strongly fair, as the kernel
reports ready descriptors in turn, so that other events, or a thread that just then uses up
the data, do not hide one for ever. Nothing is assumed to wake a worker for an event on the
immediate list.

`AioReturnsWithRoom` is checked without signals (with them, see `aio_intr`), for calls that
do not find all slots used with notify queues of the caller's (see `aio_spin`).
`FreedUnlessLost` is checked with weak fairness of the workers only: no other event is
assumed to wake one from `epoll_wait()`. A worker that sleeps there with `must_sync` set has
slept over its signal (see `sync_lost`).

## Where code and documentation disagree

Five runs are expected to fail. `findings` in `PROJECT.json` quotes the text each
contradicts.

* **lost_one**: `tc_waitq_wakeup_one()` can choose a waiter that has already seen its
  condition true; its `finish_wait` discards the wakeup (2008) and another thread, whose
  condition is true as well, sleeps on.
* **nested_lost**: a sleep inside a wait condition is interrupted by a signal. Its event
  stays on `tc->event_stack` (2034), so the outer wait may sleep for ever.
* **aio_intr**: an interrupted `tc_aio_wait()` marks a slot free whose request the kernel
  still has (2707). The next `tc_aio_wait()` returns 0 although the request is outstanding.
* **sync_lost**: `tgkill()` reaches a worker between `worker_prepare_sleep()` and
  `epoll_wait()` (1828, 946). The signal is used up, the worker sleeps with `must_sync` set,
  and the tc_fd is not freed unless something else wakes this worker. It is no use of freed
  memory.
* **aio_spin**: a slot used with a notify queue of the caller's is never made free again
  (2676). When all slots have been used so, `_tc_aio_get_aio_data()` does not return.

Others were met while modelling and are not runs; `hazards` has them with a note.

* `arm()` caches the new mask before EPOLL_CTL_MOD, and keeps it when the call fails (433). The
  next wait that needs this mask finds it cached, does not call, and sleeps on an entry that
  was never armed. FdWatched and WaitFdReturns make an exception for states after a failed
  call (`stale`); without it TLC finds this in three steps.
* One wait for EPOLLIN and EPOLLOUT with both ready is moved to the immediate list and then
  removed from it without that list's lock (367).
* A wait without priority on the reporting worker is woken ahead of one with priority (344).
* A wait for an event other than EPOLLIN and EPOLLOUT is never matched (341).
* `tc_sleep()` carries while `tv_nsec` is above 10^9, so an end at exactly 10^9 reaches
  `timerfd_settime()`, which refuses it, and `msg_exit()` ends the program (2484, 2403). The
  run `sleep` reaches this state; `SleepReturns` allows for it.

## What is proved

Each theorem holds for every value of the constants that the module's ASSUME admits.

| Module | Theorems | Say |
|---|---|---|
| TcSchedProofs | `TypeCorrect` | `Spec => []TypeOK` |
| | `ListsCorrect` | `[]ListsConsistent`: an event is on the list `e->el` names, once, and nowhere else; `immediate_count` is exact |
| | `RunningFlagCorrect` | `[]RunningFlagExact`: TF_RUNNING is set exactly while a worker claims the thread |
| | `StacksCorrect` | `[]StackExclusive`: no stack is active twice or freed under a worker |
| | `RearmCorrect` | `[]RearmExclusive`: one worker at a time re-arms the eventfd, and its `read()` does not block |
| SchedSafety | `RefcntCorrect` | `[]RefcntExact`: `refcnt` is the number of the thread's events on lists |
| | `NoDanglingCorrect` | `[]NoDanglingEvent`: no list leads into a dead frame or a freed tc_thread |
| | `PendingCorrect` | `[]NothingLeftPending`: no thread sleeps on an event that is in its `pending` |
| | `WatchedCorrect` | `[]ImmediateWatched`: the immediate list is searched without help of client code |
| | `NoWakeupLost` | `[]NoLostWakeup`, if `MaxDepth = 1` and nobody calls `tc_waitq_wakeup_one()` |
| | `AssertionsCorrect` | `[](AllUnsubscribed => AssertionsHold)`, if `MaxDepth = 1` |
| SchedLife | `SignalsCorrect` | `[]SignalsExact`, if `MaxDepth = 1`: a signal is delivered once |
| AioProofs | `SlotCorrect`, `WaitedCorrect`, `NoticedCorrect`, `CountedCorrect` | all invariants of the run `aio` |
| LockProofs | `MutexTyped`, `MutexExclusive`, `MutexGrantNoticed`, `MutexNoSleep` | the types, and all invariants of the run `mutex` |
| | `MutexRefines` | TcMutex implements Lock |
| | `RwTyped`, `RwWriterAlone`, `RwGivenBack`, `RwWriterWoken` | the types, all invariants of the run `rwlock`, and that a thread outside holds no mutex |
| | `RwInnerRefines`, `RwRefines` | the mutex inside implements Lock, the whole ReadersWriters |
| SleepProofs | `TimerListCorrect` | `[]TimerListExact`: the timer list is ordered, and has nobody twice and nobody whose `tc_sleep()` has returned |
| | `LongEnoughCorrect` | `[]SleepsLongEnough`: no `tc_sleep()` returns 0 before its time |
| | `OneMasterCorrect`, `SleepersCorrect` | `[]OneMaster`, `[]SleepersWatched`: one thread has the timer, and nobody sleeps without it |
| FdProofs | `FdWatchedCorrect`, `MovedCorrect`, `ErrorToldCorrect` | all invariants of the run `fd` |
| | `SyncTyped`, `SyncNoUseAfterFree`, `SyncBarrierExact`, `SyncSleepersKnown` | the types, and all invariants of the run `sync` |

Assumptions. `SchedAssumption`: the constants of TcSched have their types, names of
different things differ, and there are finitely many workers. `AioAssumption`: constants have
their types and the names of steps are no threads. `MutexAssumption` and
`RwAssumption`: the two queues exist, NULL is no thread, and there are finitely many threads
(the count of readers). `SyncAssumption`: finitely many workers, and NULL is no tc_fd.
`SleepAssumption`: a second has some nanoseconds, naps have their type, and each thread has
a queue. `FdAssumption`: the constants of TcFd have their types, and no request is for EPOLLIN and
EPOLLOUT at once (see 367 above). No theorem bounds `NSEC`,
the naps, the number of waits or of sleeps.

**The scheduler.** None of the five is inductive. Whether a step may take an event off a
list depends on which call the thread is in; that depends on who is on its stack; and that
depends on TF_RUNNING. So they are proved together, as the theorem `Inductive`:

    IInv == TypeOK /\ CallsOK /\ WorkersOK /\ ListsConsistent
                   /\ EventsOK /\ ClaimsOK /\ WokenOK

* `CallsOK`: the call in progress fits the `pc` of the thread, and only a `wait_event`
  has a call inside it;
* `WorkersOK`: `wpc`, `ctx`, `target` and `running` agree;
* `EventsOK`: which events can be on a list, given where their thread is;
* `ClaimsOK`: RunningFlagExact, one claim per thread, and nobody else has a claim on a
  thread that is being freed;
* `WokenOK`: the event that woke a thread is its own and is off the lists.

`TcSchedProofs` begins with what removal and insertion do to sequences without
repetitions, and what the operations of TcSched do to the lists. Each conjunct is then
proved for the steps of a worker and for those of a thread. RearmExclusive is a second
induction on top of IInv. So is each of the following, and none of these is needed for IInv.

* RefcntExact: adding an event to a list needs that it was on none, and removing one that
  it was on some. The second is not in IInv for `tc_signal_unsubscribe()`; `RefInv` adds that
  a thread at this call has its subscription. It also says that a thread behind the check
  of `refcnt` in `tc_die()` has no subscription left, from which NoDanglingEvent follows.
* NothingLeftPending: `Sleepers` says, of a thread without TF_RUNNING, that `pending` has no
  signal and not the event on top of the event stack. It is about the events and not, like
  `pending_event()`, about the order in which they are searched.
* ImmediateWatched is not inductive because of `tc_sched_yield()`: it puts an event on the
  list and rings no bell, and is watched only since its thread goes on to the scheduler.
  `Watch` says this of every event: a yield watches its own event and no other.
* Life cycle (`LifeAll` in SchedLife): where an event can be, given the call it belongs to;
  which threads are on `domain->threads.list`; that nobody waits for the exit of a thread
  which has woken its `exit_waiters`; and that a thread which has to be started or freed has
  its embedded event on a list, or a worker on its way.
* SignalsExact, NoLostWakeup and AssertionsHold need to know which event a sleeping thread
  waits for. `SingleInv` says that it is the top of the event stack, that it is on a list or
  has a worker bring the thread back, and that the thread is woken by this event or by a
  signal. `Heard` adds that a thread which sleeps though its condition is true is about to
  be woken; with all that, a thread asleep while all workers are idle waits for something
  that has not happened.

`MaxDepth = 1` says that the condition of a `tc_waitq_wait_event()` does not itself sleep.
Without it SingleInv is false: after an interrupted inner wait the top of the event stack
is not the event of the outer wait, which is what `nested_lost` shows. The hypothesis
`Broadcasts`, that no call is a `wakeup_one`, excludes what `lost_one` shows.
`AllUnsubscribed` says that a thread has no
subscription when it enters `tc_die()`, as the manual asks. The theorems without such
a hypothesis hold for every client program, sleeping conditions included.

**Asynchronous I/O.** `AioInv` says that a slot is pending exactly as long as its request is
in one of three places (`Exact`): with the kernel, in the ring or in the batch of the worker,
and is there once (`Once`). The wakeup rests on `EventInv`: while a thread goes to
sleep on a slot its event is on its queue or active, and if the slot is no longer pending,
the event is active or the worker is about to read `notify` or to wake this queue. This needs
that `notify` points to the thread's queue from before the test until after the wait
(`SlotInv`). AioWaited needs the part of SlotInv about the slots below the current one:
those `tc_aio_wait()` has passed stay done. The theorems are about AioSpec, in which no signal
arrives; with signals AioWaited is false (`aio_intr`).

**The mutex.** MutualExclusion alone is not inductive: `tc_mutex_unlock()` makes another
thread the owner, and that this thread cannot at the same time leave with RV_INTR depends on
where its event is. `MInv(H, P)` therefore says, for each thread, at which steps its event
is on the queue or active, that an active event belongs to the owner (lock passing), and
that a thread that came back from the scheduler has a signal or owns the mutex. `H` is the
set of places where a thread holds the mutex, so the same lemmas serve the mutex
(`MutexInv`) and the reader/writer lock (`RwInv`). For the refinement each step of TcMutex is
shown to be a step of Lock or a stutter: a failed compare-and-swap is an Ask, RV_INTR a
GiveUp, which needs that the thread is not the owner, and that is MInv.

**The reader/writer lock.** `RwInv` adds that `readers` is the number of threads between
counting themselves and `tc_rw_r_unlock()`; this is why threads must be finite. With it a
writer that reads zero knows that nobody is reading, and since it has the mutex nobody
starts.

**Deferred free.** `SyncInv` adds to the three invariants who may still have a pointer: a
tc_fd on `free_list` is out of epoll, and each worker that still has it is one that must
sync; a tc_fd taken off the list is with one worker only. The barrier is the cardinality of
`must_sync`, so it is zero exactly when none of these is left.

**tc_sleep().** SleepersWatched is what can go wrong: a master leaves, and the next one has
to be told. It rests on who is on the list and who is awake, and with SleepsLongEnough on what
the ends say, so the four are proved together:

    SleepInv == SleepTypeOK /\ OwnQueue /\ ListExact /\ StillListed /\ EndsRight
                /\ TimeHasCome /\ OneMaster /\ SleepersWatched /\ SleepsLongEnough

* `OwnQueue`: a thread waits on no queue but that of its own timer_waiter. So nobody waits for
  `timer_mutex`, which is only taken with `trylock`, and unlocking it makes it free;
* `ListExact` is TimerListExact without the types. That an insertion keeps the order needs
  that the comparison of `<<tv_sec, tv_nsec>>` pairs is a total order also for ends that are
  not normalised;
* `StillListed`: who is about to sleep is on the list, or was taken off it and is awake;
* `EndsRight`: an end is the time of the call plus the nap, whatever the carry made of it;
* `TimeHasCome`: who was taken off the list by a master has its end behind it. The master
  takes the threads up to the first that has to wait, by a comparison of pairs with the
  clock; with EndsRight this is a comparison of times.

**Descriptors.** FdWatched is not inductive because of the comparison in `arm()`: with the new
mask equal to the cached one it does not call `epoll_ctl()`, and that is right only while
the kernel's mask still has the cached one.

    FdInv == Lists /\ MaskTypes /\ Rest /\ Watched /\ ErrorToldToAll /\ CacheRight /\ Entry

`CacheRight` says so: as long as no worker holds a report, the last EPOLL_CTL_MOD has
succeeded and there was no error, the cached mask is part of the kernel's. A report empties
the kernel's mask, and the worker that takes it stores another cached mask before it lets go;
a failed call leaves a wrong cache behind, and the next one that succeeds a right one.
`Entry`: the descriptor leaves epoll only with
an error. `Lists`, `MaskTypes` and `Rest` are the conjuncts of FdTypeOK, apart because few
steps touch more than one. `matching_event()` and `wakeup_all_events()` are shown to take
events off the list that are on it, two different ones (this needs FdAssumption), and to leave
the order of the others. MovedNotForgotten needs `Loops`: a worker that holds a report, and
only such a worker moves events, is going to look at the immediate list before it sleeps.

Checked by TLC only: AIO with signals and the wakeups of nested waits, in the runs aio_intr and
nested_lost that are expected to fail, and all liveness, which is out of the prover's reach, as
are ENABLED and induction over data.

## Not modelled

* Memory order: a critical section, an atomic operation and a volatile access are
  sequentially consistent.
* Spinlocks are not variables, so a deadlock among spinlocks is not visible. That their
  nesting has no cycle is a question about the text of every critical section.
* One domain, and no start and end of `tc_run()`: TcSched begins where the main thread is
  queued. After `__tc_main()` has ended the workers nothing of the library runs.
* Descriptors, timers and AIO are not sources of events in TcSched; TcFd has a scheduler of
  its own, in which workers find immediate events only by looking for them. The two
  together have too many states for two workers.
* The loop in `remove_event()` (475-480), which retries when the event has changed lists while
  it waited for the lock: a list operation is one step.
* Thread pools and `tc_parallel_for`: a list of tc_threads with TF_AFFINE, which TcSched
  has (`Home`), and a loop of `tc_thread_wait()`. What can go wrong in it is the reuse of
  memory, and a freed tc_thread is not created again in TcSched; for the same reason the
  id of a `tc_thread_ref` always matches.
* `tc_signal_destroy()`, and `signal_cancel_pending()` in `tc_die()`: the modelled
  programs unsubscribe first, as `man-pages/tc_signal_subscribe.xml` asks.
* tc_fds in the caller's memory (`tc_unregister_fd_mem`), whose free is not deferred, and
  AIO requests on a `tc_aio_data` of the caller.
* `tc_aio_sync()` and `tc_aio_sync_notify()` (2845-2956): the calling worker does the
  `fsync()` itself, so nobody sleeps.
* In TcSleep `tc_wait_fd()` on the timerfd is one step that waits for the expiry or a signal;
  TcFd has its details.
* TcWaitq is written from the same source as TcSched; that TcSched implements it is not
  shown. A mapping has to find the point at which `tc_scheduler()` decides between a
  signal and the event, which in TcSched is in the search of another worker.
* The emulation of timerfd for old systems (2959-3060), diagnostics, nice levels, and the
  context switch itself.
