------------------------------ MODULE TcSleep ------------------------------
(***************************************************************************)
(* tc_sleep(): the sleepers are on one list, ordered by their end.  One of *)
(* them, the master, is whoever gets timer_mutex with tc_mutex_trylock();  *)
(* it waits on the timerfd for all, the others on a queue of their own     *)
(* (here t names the queue of t's timer_waiter).  A master that is done or *)
(* interrupted hands over by waking the first of the list.                 *)
(***************************************************************************)
EXTENDS TcMutex, FiniteSetsExt

CONSTANTS
    NSEC,       \* nanoseconds of a second (10^9 in the code)
    Naps,       \* the <<sec, nsec>> a thread may sleep
    MaxTime,    \* no sleep ends later; the clock goes on only for the timer
    MaxSleeps   \* how often each thread sleeps

ASSUME SleepAssumption ==
    /\ NSEC \in Nat \ {0} /\ MaxTime \in Nat /\ MaxSleeps \in Nat
    /\ Naps \subseteq Nat \X Nat
    /\ Threads \cup {"wq"} \subseteq Queues /\ "wq" \notin Threads
    /\ NULL \notin Nat

VARIABLES
    now,         \* CLOCK_MONOTONIC, in nanoseconds
    timer_list,  \* tc_domain.timer_list
    abs_end,     \* abs_end[t]: tw.abs_end of t, a <<tv_sec, tv_nsec>>
    ts,          \* ts[t]: the time t has read as master
    rv,          \* rv[t]: what t's tc_sleep() returns
    timer,       \* the timerfd: when it expires, or NULL
    expired,     \* the timerfd has expired and was neither read nor set since
    exited,      \* msg_exit() was called
    sleeps,      \* sleeps[t]: how often t has slept
    until        \* until[t]: the instant up to which t asked to sleep (history)

timeVars  == <<now, timer, expired, exited>>
sleepVars == <<vars, timer_list, abs_end, ts, rv, sleeps, until, timeVars>>
kept      == <<abs_end, rv, sleeps, until>>

-----------------------------------------------------------------------------
Unset      == <<0, 0>>
Instant(a) == a[1] * NSEC + a[2]
clock      == <<now \div NSEC, now % NSEC>>

\* compare_ts_times(a, b) < 0
Earlier(a, b) == a[1] < b[1] \/ (a[1] = b[1] /\ a[2] < b[2])

\* "while (tv_nsec > 1e9)": a second exactly stays in tv_nsec.
normalised_short(a) == \* carries nothing
    a
normalised(a) ==
    LET n == IF a[2] > NSEC THEN (a[2] - 1) \div NSEC ELSE 0
    IN  <<a[1] + n, a[2] - n * NSEC>>

\* timer_delta(): a - b, with tv_nsec not below zero.
timer_delta(a, b) ==
    IF a[2] < b[2] THEN <<a[1] - b[1] - 1, a[2] - b[2] + NSEC>>
                   ELSE <<a[1] - b[1], a[2] - b[2]>>

\* timerfd_settime() with an absolute time or a delta; EINVAL ends the program.
timerfd_settime(value, at) ==
    IF value[2] >= NSEC
    THEN exited' = TRUE /\ UNCHANGED <<timer, expired>>
    ELSE timer' = at /\ expired' = FALSE /\ UNCHANGED exited

\* timerfd_reprogram_valid(): sets the timer for the sleeper end belongs to, unless it
\* has to wake up at the time t already.
still_to_come(end, t) == Instant(timer_delta(end, t)) > 0
timerfd_reprogram(end, t) ==
    LET delta == timer_delta(end, t)
    IN  IF delta[1] > 0 THEN timerfd_settime(end, Instant(end))
                        ELSE timerfd_settime(delta, now + Instant(delta))

\* waiting_done(): "NOT_ON_TIMERLIST", or the time has come.
waiting_done(t) == ~Contains(timer_list, t) \/ ~Earlier(clock, abs_end[t])

-----------------------------------------------------------------------------
tc_sleep(t) ==
    /\ pc[t] = "idle" /\ sleeps[t] < MaxSleeps
    /\ \E nap \in Naps :
        /\ now + Instant(nap) <= MaxTime
        /\ abs_end' = [abs_end EXCEPT ![t] = normalised(<<clock[1] + nap[1], clock[2] + nap[2]>>)]
        /\ until' = [until EXCEPT ![t] = now + Instant(nap)]
    /\ sleeps' = [sleeps EXCEPT ![t] = @ + 1]
    /\ Goto(t, "yield")
    /\ UNCHANGED <<wqVars, m_owner, timer_list, rv, ts, timeVars>>

\* A signal ends the call of the scheduler that t is in.
sleep_interrupted_quit(t, next) == \* leaves whatever is still to be undone
    /\ t \in sig
    /\ sig' = sig \ {t}
    /\ rv' = [rv EXCEPT ![t] = "RV_INTR"]
    /\ Goto(t, "remove")
    /\ UNCHANGED <<waiters, active, woken>>
sleep_interrupted(t, next) ==
    /\ t \in sig
    /\ sig' = sig \ {t}
    /\ rv' = [rv EXCEPT ![t] = "RV_INTR"]
    /\ Goto(t, next)
    /\ UNCHANGED <<waiters, active, woken>>

\* "The contract ... was to _always_ activate the scheduler".
yield(t) ==
    /\ pc[t] = "yield"
    /\ \/ Goto(t, "insert") /\ UNCHANGED <<wqVars, rv>>
       \/ sleep_interrupted(t, "remove")
    /\ UNCHANGED <<m_owner, timer_list, abs_end, ts, sleeps, until, timeVars>>

\* Before the first one that ends later; a new first one sets the timer.
place_last(t) == Len(timer_list) + 1 \* whenever it ends
place(t) ==
    Min({i \in DOMAIN timer_list : Earlier(abs_end[t], abs_end[timer_list[i]])}
        \cup {Len(timer_list) + 1})
insert_into_timer_list(t) ==
    /\ pc[t] = "insert"
    /\ timer_list' = InsertAt(timer_list, place(t), t)
    /\ IF Head(timer_list') = t /\ still_to_come(abs_end[t], clock)
       THEN timerfd_reprogram(abs_end[t], clock)
       ELSE UNCHANGED <<timer, expired, exited>>
    /\ Goto(t, "tw_prepare")
    /\ UNCHANGED <<wqVars, m_owner, kept, ts, now>>

-----------------------------------------------------------------------------
\* __tc_wait_event(&tw.wq, wait_done || have_lock)
tw_prepare(t) ==
    /\ pc[t] = "tw_prepare"
    /\ prepare_to_wait(t, t)
    /\ Goto(t, "tw_cond")
    /\ UNCHANGED <<m_owner, timer_list, kept, ts, timeVars>>

tw_cond(t) ==
    /\ pc[t] = "tw_cond"
    /\ Goto(t, IF waiting_done(t) THEN "tw_finish_done" ELSE "tw_trylock")
    /\ UNCHANGED <<wqVars, m_owner, timer_list, kept, ts, timeVars>>

tw_no_trylock(t) == \* nobody becomes the master
    /\ pc[t] = "tw_trylock"
    /\ Goto(t, "tw_scheduler")
    /\ UNCHANGED <<wqVars, m_owner, timer_list, kept, ts, timeVars>>
tw_trylock(t) ==
    /\ pc[t] = "tw_trylock"
    /\ cas_owner(t, "tw_finish_master", "tw_scheduler")
    /\ UNCHANGED <<wqVars, timer_list, kept, ts, timeVars>>

tw_scheduler(t) ==
    /\ pc[t] = "tw_scheduler"
    /\ tc_scheduler(t)
    /\ Goto(t, "tw_finish")
    /\ UNCHANGED <<m_owner, timer_list, kept, ts, timeVars>>

tw_finish(t) ==
    /\ \/ pc[t] = "tw_finish" /\ finish_wait(t, t) /\ Goto(t, "tw_prepare") /\ UNCHANGED rv
       \/ pc[t] = "tw_finish" /\ finish_intr(t, t) /\ Goto(t, "remove")
          /\ rv' = [rv EXCEPT ![t] = "RV_INTR"]
       \/ pc[t] = "tw_finish_done" /\ finish_wait(t, t) /\ Goto(t, "remove") /\ UNCHANGED rv
       \/ pc[t] = "tw_finish_master" /\ finish_wait(t, t) /\ Goto(t, "master") /\ UNCHANGED rv
    /\ UNCHANGED <<m_owner, timer_list, abs_end, ts, sleeps, until, timeVars>>

-----------------------------------------------------------------------------
\* The loop of the master.
master(t) ==
    /\ pc[t] = "master"
    /\ IF waiting_done(t)
       THEN Goto(t, "unlock") /\ UNCHANGED ts
       ELSE Goto(t, "reprogram") /\ ts' = [ts EXCEPT ![t] = clock]
    /\ UNCHANGED <<wqVars, m_owner, timer_list, kept, timeVars>>

reprogram(t) ==
    LET end == abs_end[Head(timer_list)]
    IN  /\ pc[t] = "reprogram"
        /\ IF still_to_come(end, ts[t])
           THEN timerfd_reprogram(end, ts[t]) /\ Goto(t, "wait_fd")
           ELSE UNCHANGED <<timer, expired, exited>> /\ Goto(t, "expire")
        /\ ts' = [ts EXCEPT ![t] = Unset] \* not used again
        /\ UNCHANGED <<wqVars, m_owner, timer_list, kept, now>>

\* tc_wait_fd(EPOLLIN, &timer_tcfd): the descriptor is reported, or a signal comes.
wait_fd(t) ==
    /\ pc[t] = "wait_fd"
    /\ \/ expired /\ Goto(t, "read") /\ UNCHANGED <<wqVars, rv>>
       \/ sleep_interrupted(t, "unlock")
    /\ UNCHANGED <<m_owner, timer_list, abs_end, ts, sleeps, until, timeVars>>

\* The descriptor does not block: if the timer was set meanwhile nothing is read.
read(t) ==
    /\ pc[t] = "read"
    /\ expired' = FALSE
    /\ Goto(t, "expire")
    /\ UNCHANGED <<wqVars, m_owner, timer_list, kept, ts, now, timer, exited>>

\* "Look which threads can be woken up": the list up to the first that has to wait.
at_end(tw) == ~Earlier(clock, abs_end[tw])
expire(t) ==
    LET wait == {i \in DOMAIN timer_list : ~at_end(timer_list[i])}
        n    == Min(wait \cup {Len(timer_list) + 1}) - 1
    IN  /\ pc[t] = "expire"
        /\ timer_list' = SubSeq(timer_list, n + 1, Len(timer_list))
        /\ tc_waitq_wakeup_all({timer_list[i] : i \in 1..n})
        /\ Goto(t, "master")
        /\ UNCHANGED <<m_owner, kept, ts, timeVars>>

unlock_timer(t) ==
    /\ pc[t] = "unlock"
    /\ mutex_unlock(t)
    /\ Goto(t, "remove")
    /\ UNCHANGED <<timer_list, kept, ts, timeVars>>

\* remove_from_timer_list_wakeup(): "Tell another one to take over."
take_over_none(l) == {} \* wakes nobody
take_over(l) == IF l = <<>> THEN {} ELSE {Head(l)}
remove_from_timer_list_wakeup(t) ==
    /\ pc[t] = "remove"
    /\ timer_list' = RemoveFirst(timer_list, t)
    /\ tc_waitq_wakeup_all(take_over(timer_list'))
    /\ Goto(t, "idle")
    /\ abs_end' = [abs_end EXCEPT ![t] = Unset] \* the variables of the call are gone
    /\ until' = [until EXCEPT ![t] = 0]
    /\ rv' = [rv EXCEPT ![t] = "RV_OK"]
    /\ UNCHANGED <<m_owner, sleeps, ts, timeVars>>

-----------------------------------------------------------------------------
\* The kernel: time passes, and the timer expires.
tick ==
    /\ now < MaxTime \/ (timer # NULL /\ now < timer)
    /\ now' = now + 1
    /\ UNCHANGED <<vars, timer_list, kept, ts, timer, expired, exited>>

timer_expires ==
    /\ timer # NULL /\ timer <= now
    /\ timer' = NULL /\ expired' = TRUE
    /\ UNCHANGED <<vars, timer_list, kept, ts, now, exited>>

sleep_signal(t) == signal(t) /\ UNCHANGED <<timer_list, kept, ts, timeVars>>

SleepInit ==
    /\ MutexInit
    /\ now = 0 /\ timer = NULL /\ expired = FALSE /\ exited = FALSE
    /\ timer_list = <<>>
    /\ abs_end = [t \in Threads |-> Unset]
    /\ ts = [t \in Threads |-> Unset]
    /\ rv = [t \in Threads |-> "RV_OK"]
    /\ sleeps = [t \in Threads |-> 0]
    /\ until = [t \in Threads |-> 0]

sleeping(t) ==
    \/ yield(t) \/ insert_into_timer_list(t)
    \/ tw_prepare(t) \/ tw_cond(t) \/ tw_trylock(t) \/ tw_scheduler(t) \/ tw_finish(t)
    \/ master(t) \/ reprogram(t) \/ wait_fd(t) \/ read(t) \/ expire(t) \/ unlock_timer(t)
    \/ remove_from_timer_list_wakeup(t)

SleepNext ==
    /\ ~exited
    /\ \/ \E t \in Threads : tc_sleep(t) \/ sleeping(t) \/ sleep_signal(t)
       \/ tick \/ timer_expires

SleepSpec == SleepInit /\ [][SleepNext]_sleepVars

\* Threads inside the library go on, time passes and timers expire.
SleepFairSpec ==
    /\ SleepSpec
    /\ \A t \in Threads : WF_sleepVars(~exited /\ sleeping(t))
    /\ WF_sleepVars(~exited /\ tick) /\ WF_sleepVars(~exited /\ timer_expires)

-----------------------------------------------------------------------------
MasterPCs == {"tw_finish_master", "master", "reprogram", "wait_fd", "read", "expire", "unlock"}
ListedPCs == MasterPCs \cup {"tw_prepare", "tw_cond", "tw_trylock", "tw_scheduler",
                             "tw_finish", "tw_finish_done", "remove"}
SleepPCs  == ListedPCs \cup {"idle", "yield", "insert"}

\* Type invariant of the sleepers.
SleepTypeOK ==
    /\ WaitqType
    /\ m_owner \in Threads \cup {NULL}
    /\ pc \in [Threads -> SleepPCs]
    /\ timer_list \in Seq(Threads)
    /\ abs_end \in [Threads -> Nat \X (0..NSEC)] /\ ts \in [Threads -> Nat \X Nat]
    /\ rv \in [Threads -> {"RV_OK", "RV_INTR"}]
    /\ now \in Nat /\ timer \in Nat \cup {NULL}
    /\ expired \in BOOLEAN /\ exited \in BOOLEAN
    /\ sleeps \in [Threads -> 0..MaxSleeps] /\ until \in [Threads -> 0..MaxTime]

\* The list is in the order of the ends and has nobody twice, and a timer_waiter, which
\* is on the stack of its tc_sleep(), is not on it when this tc_sleep() has returned:
\* remove_from_timer_list_wakeup() comes after whatever a master did with it.
TimerListExact ==
    /\ SleepTypeOK
    /\ IsInjective(timer_list)
    /\ \A i, j \in DOMAIN timer_list :
          i < j => ~Earlier(abs_end[timer_list[j]], abs_end[timer_list[i]])
    /\ \A t \in Range(timer_list) : pc[t] \in ListedPCs

\* "tc_sleep() sleeps for sec seconds and nsec nano seconds" (man-pages/tc_sleep.xml): a
\* call that is not interrupted does not return earlier, whoever it was that looked at
\* the clock, and whatever the carry between tv_nsec and tv_sec.
SleepsLongEnough ==
    \A t \in Threads : pc[t] \in {"tw_finish_done", "unlock", "remove"} /\ rv[t] = "RV_OK" =>
        now >= until[t]

\* There is one master: timer_mutex belongs to whoever is in the loop or on the way into
\* or out of it, a signal notwithstanding, and the master is on the list itself, so
\* timerfd_reprogram_valid() finds a first sleeper.
OneMaster ==
    /\ \A t \in Threads : m_owner = t <=> pc[t] \in MasterPCs
    /\ \A t \in Threads : pc[t] = "reprogram" => Contains(timer_list, t)

Asleep(t) == pc[t] = "tw_scheduler" /\ t \notin active \cup sig

\* Nobody sleeps unobserved: who sleeps is on the list, and there is a master, or the
\* first of the list is awake and will try to become it, or someone is about to wake
\* the first.  While the master waits the timer runs or has expired.
SleepersWatched ==
    /\ \A t \in Threads : Asleep(t) =>
        /\ Contains(timer_list, t)
        /\ \/ m_owner # NULL
           \/ ~Asleep(Head(timer_list))
           \/ \E u \in Threads : pc[u] = "remove"
    /\ \A t \in Threads : pc[t] = "wait_fd" => timer # NULL \/ expired \/ exited

\* tc_sleep() returns, unless the program ends; the master wakes those whose time has
\* come, and another one takes over from a master that is done or interrupted.
SleepReturns == \A t \in Threads : pc[t] # "idle" ~> pc[t] = "idle" \/ exited
=============================================================================
