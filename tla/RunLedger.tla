------------------------------ MODULE RunLedger ------------------------------
(***************************************************************************)
(* What cimple promises about a CI run, with no server, worker, connection *)
(* or queue in sight: a run is recorded, it is attempted at most once, and *)
(* only the exit code that its own attempt produced is ever written next   *)
(* to it, once.  A client that was told "queued" owns a recorded run.      *)
(* All of that with one exception: an id may be given out for a run whose  *)
(* record is not kept.  It will be the id of another run too, and then it  *)
(* is promised only that what is written next to it was produced under it. *)
(* Nothing here promises that a recorded run is ever attempted: that is    *)
(* the liveness of Cimple, and holds only on calm executions.              *)
(***************************************************************************)
EXTENDS Integers, Sequences

CONSTANTS
    Clients,    \* the callers of "queue-run"
    ExitCodes   \* what a CI script may exit with

Unfinished == [finished |-> FALSE, exit_code |-> -1]
Finished(ec) == [finished |-> TRUE, exit_code |-> ec]

VARIABLES
    rows,       \* rows[id]: is run id finished, and with what exit code
    attempted,  \* ids of the runs some worker has begun
    outcomes,   \* <<id, exit code>> produced by those attempts
    acked,      \* acked[c]: the id client c was answered for, 0 before
    unkept      \* ids given out for runs whose record was not kept

vars == <<rows, attempted, outcomes, acked, unkept>>

Init ==
    /\ rows = << >>
    /\ attempted = {}
    /\ outcomes = {}
    /\ acked = [c \in Clients |-> 0]
    /\ unkept = {}

\* A run is recorded; its id is the next row.
Create ==
    /\ rows' = Append(rows, Unfinished)
    /\ UNCHANGED <<attempted, outcomes, acked, unkept>>

\* The next row's id is given out and there is no row: the id will be given out
\* again.
Misplace ==
    /\ unkept' = unkept \union {Len(rows) + 1}
    /\ UNCHANGED <<rows, attempted, outcomes, acked>>

\* Client c is told its run is queued.  No two clients share a run.
Acknowledge(c, r) ==
    /\ acked[c] = 0
    /\ r \in unkept \/ \A d \in Clients : acked[d] # r
    /\ acked' = [acked EXCEPT ![c] = r]
    /\ UNCHANGED <<rows, attempted, outcomes, unkept>>

Attempt(r) ==
    /\ r \in unkept \/ (r \notin attempted /\ ~rows[r].finished)
    /\ attempted' = attempted \union {r}
    /\ UNCHANGED <<rows, outcomes, acked, unkept>>

Produce(r, ec) ==
    /\ r \in attempted
    /\ r \in unkept \/ \A o \in outcomes : o[1] # r
    /\ outcomes' = outcomes \union {<<r, ec>>}
    /\ UNCHANGED <<rows, attempted, acked, unkept>>

Finish(r, ec) ==
    /\ r \in DOMAIN rows
    /\ r \in unkept \/ ~rows[r].finished
    /\ <<r, ec>> \in outcomes
    /\ rows' = [rows EXCEPT ![r] = Finished(ec)]
    /\ UNCHANGED <<attempted, outcomes, acked, unkept>>

Next ==
    \/ Create
    \/ Misplace
    \/ \E r \in DOMAIN rows \union unkept :
        \/ \E c \in Clients : Acknowledge(c, r)
        \/ Attempt(r)
        \/ \E ec \in ExitCodes : Produce(r, ec) \/ Finish(r, ec)

Spec == Init /\ [][Next]_vars
=============================================================================
