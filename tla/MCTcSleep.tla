----------------------------- MODULE MCTcSleep -----------------------------
EXTENDS TcSleep

CONSTANTS t1, t2

\* Half a second, one second and one and a half.
ShortNaps == {<<0, 1>>, <<1, 0>>, <<0, 3>>}
=============================================================================
