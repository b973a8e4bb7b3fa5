------------------------------- MODULE Domain -------------------------------
(***************************************************************************)
(* What TcFd and WorkerSync, two views of a worker in scheduler_part2(),   *)
(* have in common.                                                         *)
(***************************************************************************)

CONSTANTS
    Workers,  \* the worker pthreads of the domain
    NULL
=============================================================================
