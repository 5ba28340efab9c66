----------------------------- MODULE Persistence -----------------------------
(***************************************************************************)
(* What the specification promises of persistence (sections 4.6 and 5),    *)
(* with no codec, file or lock in it.  live is the database as a running   *)
(* process holds it, durable the database a start would load: the last     *)
(* clean shutdown's snapshot, or Lost when no snapshot can be loaded.      *)
(*                                                                         *)
(*  - a start loads exactly the durable database (modulo derived state);   *)
(*  - requests change the live database only;                              *)
(*  - a crash or kill loses every write since the last clean shutdown,     *)
(*    and nothing older;                                                   *)
(*  - a shutdown writes the live database; when the write fails,           *)
(*    persistence is best-effort: the old snapshot stays or is Lost.       *)
(***************************************************************************)
CONSTANTS
    Empty,  \* the database with no collections
    Lost,   \* no loadable snapshot: the process refuses to start
    WriteMayFail  \* whether writing the snapshot may fail

VARIABLES
    up,       \* a process is serving
    live,     \* the database of the running process
    durable   \* the database the next start loads

vars == <<up, live, durable>>

Init ==
    /\ up = FALSE
    /\ live = Empty
    /\ durable = Empty

Start ==
    /\ ~up
    /\ durable # Lost
    /\ up' = TRUE
    /\ live' = durable
    /\ UNCHANGED durable

\* Any request: it may change the live database, never the durable one.
Request ==
    /\ up
    /\ UNCHANGED <<up, durable>>

Kill ==
    /\ up
    /\ up' = FALSE
    /\ live' = Empty
    /\ UNCHANGED durable

CleanShutdown ==
    /\ up
    /\ up' = FALSE
    /\ live' = Empty
    /\ durable' = live

FailedShutdown ==
    /\ WriteMayFail
    /\ up
    /\ up' = FALSE
    /\ live' = Empty
    /\ durable' \in {durable, Lost}

Next == Start \/ Request \/ Kill \/ CleanShutdown \/ FailedShutdown

Spec == Init /\ [][Next]_vars

=============================================================================
