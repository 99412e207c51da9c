------------------------------ MODULE MCExchange ------------------------------
(* Exchange for TLC: two calls.  Those that read or write runs are paired     *)
(* with one another, the others with a queue-run.  Which connection makes     *)
(* which call is of no account: one order of two messages stands for both.    *)
EXTENDS Exchange

CONSTANTS c1, c2

\* The messages of cimple's own programs; then a method the server has not, an
\* id of the wrong type, and notifications where requests are usual.
MessageList ==
    <<request_queue_run, request_get_runs, request_finished_run, request_new_worker,
      jsonrpc_request_create("unknown"), [request_get_runs EXCEPT !.id = "other"],
      jsonrpc_notification_create("queue-run"), jsonrpc_notification_create("get-runs")>>

MCMessages == {MessageList[i] : i \in DOMAIN MessageList}

MCInit ==
    /\ Init
    /\ \E i \in 1 .. 3, j \in DOMAIN MessageList :
        i <= j /\ (j <= 3 \/ i = 1) /\ msg[c1] = MessageList[i] /\ msg[c2] = MessageList[j]

MCFairSpec == MCInit /\ [][Next]_vars /\ Fairness
=============================================================================
