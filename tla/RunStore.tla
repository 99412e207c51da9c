------------------------------- MODULE RunStore -------------------------------
(***************************************************************************)
(* What the server's storage promises its callers, with no repository id,  *)
(* statement, mutex or schema in sight: one list of runs and its durable   *)
(* part.  A run that was created is durable before its caller is told so.  *)
(* A run that was finished may not be: it waits for the insertion that is  *)
(* in progress, and is lost with it.  What is durable stays.               *)
(*                                                                         *)
(* Once the library has failed, callers may be told of runs that were      *)
(* rolled back, and a run may end up with the repository of another call.  *)
(***************************************************************************)
EXTENDS Naturals, Sequences

CONSTANTS
    Callers, Urls, Revs, ExitCodes,
    None        \* the exit code of a run that has not finished

VARIABLES
    rows,       \* the runs as callers see them
    kept,       \* the runs that survive the end of the process
    calls,      \* what each caller asked for, and how far that is
    returned,   \* the runs that were created, as their callers know them
    reported,   \* the runs whose callers know that they are finished, and how
    failed      \* has the library failed?

vars == <<rows, kept, calls, returned, reported, failed>>

NoCall == [what |-> "nothing", phase |-> "none"]
Creation(url, rev) == [what |-> "create", phase |-> "asked", id |-> 0, url |-> url, rev |-> rev]
Completion(id, ec) == [what |-> "finish", phase |-> "asked", id |-> id, ec |-> ec]

Stands(c, what, phase) == calls[c].what = what /\ calls[c].phase = phase

Inserting == \E c \in Callers : calls[c].phase = "inserted"

Init ==
    /\ rows = << >>
    /\ kept = << >>
    /\ calls = [c \in Callers |-> NoCall]
    /\ returned = {}
    /\ reported = {}
    /\ failed = FALSE

Ask(c) ==
    /\ calls[c] = NoCall
    /\ \/ \E url \in Urls, rev \in Revs : calls' = [calls EXCEPT ![c] = Creation(url, rev)]
       \/ \E r \in returned, ec \in ExitCodes : calls' = [calls EXCEPT ![c] = Completion(r.id, ec)]
    /\ UNCHANGED <<rows, kept, returned, reported, failed>>

\* The run is there, and one call at a time has such a run.
Insert(c) ==
    /\ Stands(c, "create", "asked")
    /\ ~Inserting
    /\ \E url \in Urls :
        /\ url = calls[c].url \/ failed
        /\ rows' = Append(rows, [url |-> url, rev |-> calls[c].rev, ec |-> None])
    /\ calls' = [calls EXCEPT ![c].phase = "inserted", ![c].id = Len(rows) + 1]
    /\ UNCHANGED <<kept, returned, reported, failed>>

\* It becomes durable with all that waited for it.  A failure takes all of it
\* away, and the caller is not told.
Settle(c) ==
    /\ Stands(c, "create", "inserted")
    /\ calls' = [calls EXCEPT ![c].phase = "done"]
    /\ \/ kept' = rows /\ UNCHANGED <<rows, failed>>
       \/ rows' = kept /\ failed' = TRUE /\ UNCHANGED kept
    /\ UNCHANGED <<returned, reported>>

Finish(c) ==
    /\ Stands(c, "finish", "asked")
    /\ calls' = [calls EXCEPT ![c].phase = "done"]
    /\ rows' = IF calls[c].id \in DOMAIN rows THEN [rows EXCEPT ![calls[c].id].ec = calls[c].ec] ELSE rows
    /\ kept' = IF Inserting THEN kept ELSE rows'
    /\ UNCHANGED <<returned, reported, failed>>

\* A call fails only where the library fails or has failed, and may take what
\* is not durable with it.
Refuse(c) ==
    /\ calls[c].phase = "asked"
    /\ calls' = [calls EXCEPT ![c].phase = "refused"]
    /\ failed' = TRUE
    /\ rows' \in {rows, kept}
    /\ UNCHANGED <<kept, returned, reported>>

\* The caller is told.
Return(c) ==
    /\ calls[c].phase \in {"done", "refused"}
    /\ calls' = [calls EXCEPT ![c] = NoCall]
    /\ returned' = IF Stands(c, "create", "done")
                   THEN returned \union {[url |-> calls[c].url, rev |-> calls[c].rev, id |-> calls[c].id]}
                   ELSE returned
    /\ reported' = IF Stands(c, "finish", "done")
                   THEN reported \union {[id |-> calls[c].id, ec |-> calls[c].ec]}
                   ELSE reported
    /\ UNCHANGED <<rows, kept, failed>>

\* The process ends.  Without failures no run that was returned is lost.
Crash ==
    /\ rows' = kept
    /\ calls' = [c \in Callers |-> NoCall]
    /\ returned' = IF failed THEN {r \in returned : r.id \in DOMAIN kept} ELSE returned
    /\ reported' = {r \in reported : r.id \in DOMAIN kept /\ kept[r.id].ec = r.ec}
    /\ UNCHANGED <<kept, failed>>

\* The library fails where no call is concerned.
Fail ==
    /\ failed' = TRUE
    /\ UNCHANGED <<rows, kept, calls, returned, reported>>

Next ==
    \/ \E c \in Callers : Ask(c) \/ Insert(c) \/ Settle(c) \/ Finish(c) \/ Refuse(c) \/ Return(c)
    \/ Crash
    \/ Fail

Spec == Init /\ [][Next]_vars
=============================================================================
