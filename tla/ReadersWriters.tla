--------------------------- MODULE ReadersWriters ---------------------------
(***************************************************************************)
(* What a reader/writer lock promises; TcRwLock implements it.             *)
(***************************************************************************)
CONSTANT Threads

VARIABLES
    readings,  \* the threads that hold the lock for reading
    writings   \* the threads that hold it for writing

accessVars == <<readings, writings>>

AccessInit == readings = {} /\ writings = {}

BeginRead(t) ==
    /\ writings = {} /\ t \notin readings
    /\ readings' = readings \cup {t}
    /\ UNCHANGED writings

EndRead(t) ==
    /\ t \in readings
    /\ readings' = readings \ {t}
    /\ UNCHANGED writings

BeginWrite(t) ==
    /\ writings = {} /\ readings = {}
    /\ writings' = {t}
    /\ UNCHANGED readings

EndWrite(t) ==
    /\ writings = {t}
    /\ writings' = {}
    /\ UNCHANGED readings

\* The writer becomes a reader, and nobody can write in between.
Downgrade(t) ==
    /\ writings = {t}
    /\ writings' = {}
    /\ readings' = readings \cup {t}

AccessNext == \E t \in Threads :
    BeginRead(t) \/ EndRead(t) \/ BeginWrite(t) \/ EndWrite(t) \/ Downgrade(t)

AccessSpec == AccessInit /\ [][AccessNext]_accessVars
=============================================================================
