------------------------------ MODULE RemoteCall ------------------------------
(***************************************************************************)
(* What a call of the server promises its caller, with no connection,      *)
(* message or thread in sight: it is executed at most once, and the caller *)
(* is told how that ended, or is left in silence.  A caller that was told  *)
(* of an error may call again without having its run queued twice; one     *)
(* that was left in silence may not.                                       *)
(***************************************************************************)
CONSTANT Calls     \* each is made at most once

VARIABLES
    asked,     \* what the call asks for: "nothing" yet, a "run", or "other" things
    outcome,   \* how it was executed: "none" (not yet), "ok", "failed"
    queued,    \* the calls whose run is in the queue
    told       \* what the caller knows: "nothing", "ok", "error", "silence"

vars == <<asked, outcome, queued, told>>

Init ==
    /\ asked = [c \in Calls |-> "nothing"]
    /\ outcome = [c \in Calls |-> "none"]
    /\ queued = {}
    /\ told = [c \in Calls |-> "nothing"]

Ask(c) ==
    /\ asked[c] = "nothing"
    /\ \E what \in {"run", "other"} : asked' = [asked EXCEPT ![c] = what]
    /\ UNCHANGED <<outcome, queued, told>>

\* A call that asks for a run queues it if it succeeds; no other does, and
\* none that fails.
Execute(c) ==
    /\ asked[c] # "nothing"
    /\ outcome[c] = "none"
    /\ \/ /\ outcome' = [outcome EXCEPT ![c] = "ok"]
          /\ queued' = IF asked[c] = "run" THEN queued \union {c} ELSE queued
       \/ /\ outcome' = [outcome EXCEPT ![c] = "failed"]
          /\ UNCHANGED queued
    /\ UNCHANGED <<asked, told>>

Answer(c) ==
    /\ told[c] = "nothing"
    /\ \/ outcome[c] = "ok" /\ told' = [told EXCEPT ![c] = "ok"]
       \/ outcome[c] = "failed" /\ told' = [told EXCEPT ![c] = "error"]
    /\ UNCHANGED <<asked, outcome, queued>>

Forsake(c) ==
    /\ told[c] = "nothing"
    /\ told' = [told EXCEPT ![c] = "silence"]
    /\ UNCHANGED <<asked, outcome, queued>>

Next == \E c \in Calls : Ask(c) \/ Execute(c) \/ Answer(c) \/ Forsake(c)

Spec == Init /\ [][Next]_vars
=============================================================================
