------------------------------- MODULE MCTcFd -------------------------------
(***************************************************************************)
(* Instances of TcFd.                                                      *)
(***************************************************************************)
EXTENDS TcFd, TLC

CONSTANTS t1, t2, w1, w2

For(d) == [mask |-> {d}, prio |-> FALSE]

\* A reader, and another one or a writer.
ReaderWriter == t1 :> {For("IN")} @@ t2 :> {For("IN"), For("OUT")}
=============================================================================
