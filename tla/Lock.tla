------------------------------- MODULE Lock --------------------------------
(***************************************************************************)
(* What a mutex promises to those who lock it, and nothing of how:         *)
(* TcMutex and TcRwLock implement it.                                      *)
(***************************************************************************)
CONSTANTS
    Threads,
    NULL

VARIABLES
    owner,   \* who owns the mutex, or NULL
    asking,  \* the threads in a call that waits for the mutex
    holding  \* the threads that were told that they have it

lockVars == <<owner, asking, holding>>

LockInit == owner = NULL /\ asking = {} /\ holding = {}

Ask(t) ==
    /\ t \notin asking \cup holding /\ owner # t
    /\ asking' = asking \cup {t}
    /\ UNCHANGED <<owner, holding>>

\* A free mutex is taken, at once or by one that waits and is told later.
Take(t) ==
    /\ owner = NULL /\ owner' = t
    /\ \/ asking' = asking \ {t} /\ holding' = {t}
       \/ t \in asking /\ UNCHANGED <<asking, holding>>

Told(t) ==
    /\ t \in asking /\ owner = t
    /\ asking' = asking \ {t} /\ holding' = {t}
    /\ UNCHANGED owner

\* Only who does not own the mutex may give up.
GiveUp(t) ==
    /\ t \in asking /\ owner # t
    /\ asking' = asking \ {t}
    /\ UNCHANGED <<owner, holding>>

\* The mutex gets free, or goes to one that waits for it.
Release(t) ==
    /\ t \in holding
    /\ owner' \in asking \cup {NULL}
    /\ holding' = {}
    /\ UNCHANGED asking

HandOver(t, u) ==
    /\ t \in holding /\ u \notin asking
    /\ owner' = u /\ holding' = {u}
    /\ UNCHANGED asking

LockNext == \E t \in Threads :
    \/ Ask(t) \/ Take(t) \/ Told(t) \/ GiveUp(t) \/ Release(t)
    \/ \E u \in Threads : HandOver(t, u)

LockSpec == LockInit /\ [][LockNext]_lockVars
=============================================================================
