------------------------------- MODULE Exchange -------------------------------
(***************************************************************************)
(* A call of the server: a peer connects, sends a message, and waits for   *)
(* the answer if its message has an id; a client thread of the server      *)
(* receives the message, checks it, finds the command's handler, answers   *)
(* a request and leaves a notification unanswered, and closes.             *)
(*                                                                         *)
(* The messages come from cimple's own programs or from others that know   *)
(* the format.  The handlers share the rows of runs.  get-runs reads them  *)
(* one at a time from one prepared statement, under its mutex, while other *)
(* threads insert and finish runs.  Connections are those of NetFrame.     *)
(***************************************************************************)
EXTENDS NetFrame, FiniteSets

CONSTANTS
    Messages,    \* what peers send
    ExitCodes,   \* what CI scripts exit with, negated signals included
    OldRows,     \* bound: how many rows earlier servers left at most
    Nobody       \* the holder of a free mutex

Commands == {"new-worker", "queue-run", "finished-run", "get-runs"}

\* Of what type the "id" is.
Ids == {"absent", "number", "string", "other"}

\* Does "params" hold what the command wants, with the right types.
Params == {"complete", "incomplete", "no container"}

\* A JSON object: is its "jsonrpc" the string "2.0"; its "method" is "none" if
\* it has none.
Message ==
    [jsonrpc : BOOLEAN,
     id : Ids,
     method : Commands \union {"unknown", "none"},
     params : Params]

\* What cimple's own programs send.
jsonrpc_notification_create(method) ==
    [jsonrpc |-> TRUE, id |-> "absent", method |-> method, params |-> "complete"]
jsonrpc_request_create(method) == [jsonrpc_notification_create(method) EXCEPT !.id = "number"]

request_queue_run == jsonrpc_request_create("queue-run")
request_get_runs == jsonrpc_request_create("get-runs")
request_new_worker == jsonrpc_notification_create("new-worker")
request_finished_run == jsonrpc_notification_create("finished-run")

ASSUME MessagesAssumption == Messages \subseteq Message
ASSUME ExitCodesAssumption == ExitCodes \subseteq Int
ASSUME OldRowsAssumption == OldRows \in Nat
ASSUME NobodyAssumption == Nobody \notin Conns

VARIABLES
    up,          \* is the server process there
    msg,         \* the message a peer sends
    run, ec,     \* the run id and exit code in a finished-run
    told,        \* how the peer's call ended: "nothing" (yet), "ok", "error",
                 \* "sent" (a notification), "silence" (no answer came)
    stage,       \* where the server's thread is: "none", "recv", "handle",
                 \* "list", "answer", "reply", "end"
    ret,         \* what the handler returned: "none" (nothing yet), "ok", "failed"
    response,    \* what the handler answered: "none", "result"
    answer,      \* what was sent: "none", "result", "error"
    kept,        \* connections the server has duplicated and kept
    rows,        \* the table of runs
    queue,       \* history: the calls whose runs were put in the run queue
    holder,      \* who has the mutex of the statement that lists runs
    cursor,      \* the id of the row that statement returns next
    runs,        \* the run_queue get-runs fills for a call
    before       \* history: the rows when that began

serverVars == <<stage, ret, response, answer, kept, rows, queue, holder, cursor, runs, before>>
vars == <<netVars, up, msg, run, ec, told, serverVars>>

Row == [finished : BOOLEAN, exit_code : Int]
Unfinished == [finished |-> FALSE, exit_code |-> -1]

TypeOK ==
    /\ NetTypeOK
    /\ up \in BOOLEAN
    /\ msg \in [Conns -> Message]
    /\ run \in [Conns -> Nat]
    /\ ec \in [Conns -> Int]
    /\ told \in [Conns -> {"nothing", "ok", "error", "sent", "silence"}]
    /\ stage \in [Conns -> {"none", "recv", "handle", "list", "answer", "reply", "end"}]
    /\ ret \in [Conns -> {"none", "ok", "failed"}]
    /\ response \in [Conns -> {"none", "result"}]
    /\ answer \in [Conns -> {"none", "result", "error"}]
    /\ kept \subseteq Conns
    /\ rows \in Seq(Row)
    /\ queue \in Seq(Conns)
    /\ holder \in Conns \union {Nobody}
    /\ cursor \in Nat
    /\ runs \in [Conns -> Seq([id : Nat, exit_code : Int])]
    /\ before \in [Conns -> Seq(Row)]

\* Rows left by earlier servers.
Init ==
    /\ NetInit
    /\ up = TRUE
    /\ msg \in [Conns -> Messages]
    /\ run = [c \in Conns |-> 0]
    /\ ec = [c \in Conns |-> 0]
    /\ told = [c \in Conns |-> "nothing"]
    /\ stage = [c \in Conns |-> "none"]
    /\ ret = [c \in Conns |-> "none"]
    /\ response = [c \in Conns |-> "none"]
    /\ answer = [c \in Conns |-> "none"]
    /\ kept = {}
    /\ \E n \in 0 .. OldRows : rows \in
        [1 .. n -> {Unfinished} \union [finished : {TRUE}, exit_code : ExitCodes]]
    /\ queue = << >>
    /\ holder = Nobody
    /\ cursor = 0
    /\ runs = [c \in Conns |-> << >>]
    /\ before = [c \in Conns |-> << >>]

-----------------------------------------------------------------------------
(* JSON-RPC *)

\* jsonrpc_request_from_json
Valid(m) ==
    /\ m.jsonrpc
    /\ m.id \in {"absent", "number", "string"}
    /\ m.method # "none"
    /\ m.params # "no container"

\* Seeded fault: no answer is thought of as one to a notification.
is_notification_Never(m) == FALSE

is_notification(m) == m.id = "absent"

\* An answer carries the id of its request, and none can be made without it.
CanAnswer(m) == ~is_notification(m)

\* Seeded fault: a handler that has answered nothing has succeeded.
ActualResponse_Default(r, resp) == "result"

\* Which of the handler's response, the default response and the default error
\* is sent.
ActualResponse(r, resp) ==
    LET actual == IF resp # "none" THEN resp ELSE IF r = "failed" THEN "error" ELSE "result"
    IN  IF r = "failed" /\ actual # "error" THEN "error" ELSE actual

-----------------------------------------------------------------------------
(* The peer *)

\* A finished-run names a run that has a row and that no other has named.
Reportable == {id \in DOMAIN rows : ~rows[id].finished} \ {run[c] : c \in Conns}

\* client_main, worker_get_run, worker_do_run: connect and begin to send.
Connect(c) ==
    /\ io[Client(c)] = "idle"
    /\ told[c] = "nothing"
    /\ \/ /\ up
          /\ open' = [open EXCEPT ![Client(c)] = TRUE, ![Server(c)] = TRUE]
          /\ \E n \in TextSizes : SendBegins(Client(c), n)
          /\ IF msg[c].method = "finished-run"
             THEN /\ \E id \in Reportable : run' = [run EXCEPT ![c] = id]
                  /\ \E code \in ExitCodes : ec' = [ec EXCEPT ![c] = code]
             ELSE UNCHANGED <<run, ec>>
          /\ Fine
          /\ UNCHANGED told
       \/ /\ IF up THEN Fail ELSE Fine
          /\ told' = [told EXCEPT ![c] = "silence"]
          /\ UNCHANGED <<open, io, length, run, ec>>
    /\ UNCHANGED <<sent, size, taken, up, msg, serverVars>>

\* The peer's call is over, and its descriptor closed.
Over(c, what) ==
    /\ told' = [told EXCEPT ![c] = what]
    /\ open' = [open EXCEPT ![Client(c)] = FALSE]

\* The message is sent: wait for the answer, if there will be one.  A worker
\* keeps its new-worker connection open.
Await(c) ==
    /\ told[c] = "nothing"
    /\ io[Client(c)] = "sent"
    /\ IF is_notification(msg[c])
       THEN /\ told' = [told EXCEPT ![c] = "sent"]
            /\ open' = [open EXCEPT ![Client(c)] = msg[c].method = "new-worker"]
            /\ UNCHANGED io
       ELSE /\ RecvBegins(Client(c))
            /\ UNCHANGED <<told, open>>
    /\ UNCHANGED <<length, sent, size, taken, failures, up, msg, run, ec, serverVars>>

\* jsonrpc_response_recv is over: an answer, or none.
Learn(c) ==
    /\ told[c] = "nothing"
    /\ \/ /\ io[Client(c)] = "received"
          /\ Over(c, IF answer[c] = "error" THEN "error" ELSE "ok")
       \/ /\ io[Client(c)] = "failed"
          /\ Over(c, "silence")
    /\ UNCHANGED <<io, length, sent, size, taken, failures, up, msg, run, ec, serverVars>>

\* The peer is killed.
PeerGone(c) ==
    /\ told[c] = "nothing"
    /\ io[Client(c)] # "idle"
    /\ Over(c, "silence")
    /\ io' = [io EXCEPT ![Client(c)] = "failed"]
    /\ Fail
    /\ UNCHANGED <<length, sent, size, taken, up, msg, run, ec, serverVars>>

-----------------------------------------------------------------------------
(* The server's client thread *)

UNCHANGED_Peer == UNCHANGED <<length, sent, size, taken, up, msg, run, ec, told>>
UNCHANGED_Table == UNCHANGED <<kept, rows, queue, holder, cursor, runs, before>>

Goto(c, where) == stage' = [stage EXCEPT ![c] = where]

\* The thread is over; client_destroy closes its descriptor.  That of a worker
\* is closed only if it was not duplicated.
ThreadEnds(c) ==
    /\ Goto(c, "end")
    /\ open' = [open EXCEPT ![Server(c)] = c \in kept]

\* tcp_server_accept, up to jsonrpc_request_recv.
Accept(c) ==
    /\ up
    /\ stage[c] = "none"
    /\ open[Server(c)]
    /\ \/ /\ Goto(c, "recv")
          /\ RecvBegins(Server(c))
          /\ Fine
          /\ UNCHANGED open
       \/ ThreadEnds(c) /\ Fail /\ UNCHANGED io
    /\ UNCHANGED <<ret, response, answer>>
    /\ UNCHANGED_Peer /\ UNCHANGED_Table

\* jsonrpc_request_recv is over.  The default answers to a request are made
\* before its handler is called.
Dispatch(c) ==
    /\ stage[c] = "recv"
    /\ \/ io[Server(c)] = "received" /\ Valid(msg[c]) /\ Goto(c, "handle") /\ Fine /\ UNCHANGED open
       \/ io[Server(c)] = "received" /\ ~Valid(msg[c]) /\ ThreadEnds(c) /\ Fine
       \/ io[Server(c)] = "received" /\ ~is_notification(msg[c]) /\ ThreadEnds(c) /\ Fail
       \/ io[Server(c)] = "failed" /\ ThreadEnds(c) /\ Fine
    /\ UNCHANGED <<io, ret, response, answer>>
    /\ UNCHANGED_Peer /\ UNCHANGED_Table

\* A handler returns.
Returns(c, r, resp) ==
    /\ Goto(c, "answer")
    /\ ret' = [ret EXCEPT ![c] = r]
    /\ response' = [response EXCEPT ![c] = resp]
    /\ UNCHANGED <<open, io, answer>>
    /\ UNCHANGED_Peer

\* The call reaches the handler of this command.
Handles(c, command) == stage[c] = "handle" /\ msg[c].method = command

HandleUnknown(c) ==
    /\ Handles(c, "unknown")
    /\ Returns(c, "failed", "none")
    /\ Fine
    /\ UNCHANGED_Table

\* The worker's connection is kept, whatever becomes of the thread's.
HandleNewWorker(c) ==
    /\ Handles(c, "new-worker")
    /\ \/ Returns(c, "ok", "none") /\ kept' = kept \union {c} /\ Fine
       \/ Returns(c, "failed", "none") /\ UNCHANGED kept /\ Fail
    /\ UNCHANGED <<rows, queue, holder, cursor, runs, before>>

Answerable(c) == msg[c].params = "complete" /\ CanAnswer(msg[c])

\* Seeded fault: the response is made after the run is queued.
HandleQueueRun_RespondLast(c) ==
    /\ Handles(c, "queue-run")
    /\ \/ /\ msg[c].params = "complete"
          /\ rows' = Append(rows, Unfinished)
          /\ queue' = Append(queue, c)
          /\ \/ CanAnswer(msg[c]) /\ Returns(c, "ok", "result") /\ Fine
             \/ ~CanAnswer(msg[c]) /\ Returns(c, "failed", "none") /\ Fine
             \/ Returns(c, "failed", "none") /\ Fail
       \/ /\ msg[c].params # "complete"
          /\ Returns(c, "failed", "none")
          /\ Fine
          /\ UNCHANGED <<rows, queue>>
    /\ UNCHANGED <<kept, holder, cursor, runs, before>>

\* The response is made first.  With the run in the queue, nothing fails any
\* more; before, the row may be there already.  A commit that fails is not
\* noticed: the run is queued, and the client told so, without a row.
HandleQueueRun(c) ==
    /\ Handles(c, "queue-run")
    /\ \/ /\ Answerable(c)
          /\ queue' = Append(queue, c)
          /\ Returns(c, "ok", "result")
          /\ \/ rows' = Append(rows, Unfinished) /\ Fine
             \/ UNCHANGED rows /\ Fail
       \/ /\ Answerable(c)
          /\ Returns(c, "failed", "none")
          /\ Fail
          /\ rows' \in {rows, Append(rows, Unfinished)}
          /\ UNCHANGED queue
       \/ /\ ~Answerable(c)
          /\ Returns(c, "failed", "none")
          /\ Fine
          /\ UNCHANGED <<rows, queue>>
    /\ UNCHANGED <<kept, holder, cursor, runs, before>>

HandleFinishedRun(c) ==
    /\ Handles(c, "finished-run")
    /\ \/ /\ msg[c].params = "complete"
          /\ rows' = [rows EXCEPT ![run[c]].finished = TRUE, ![run[c]].exit_code = ec[c]]
          /\ Returns(c, "ok", "none")
          /\ Fine
       \/ /\ Returns(c, "failed", "none")
          /\ IF msg[c].params = "complete" THEN Fail ELSE Fine
          /\ UNCHANGED rows
    /\ UNCHANGED <<kept, queue, holder, cursor, runs, before>>

\* Seeded fault: the mutex of the statement is not waited for.
BeginList_Unlocked(c) ==
    /\ Handles(c, "get-runs")
    /\ Goto(c, "list")
    /\ holder' = c
    /\ cursor' = Len(rows)
    /\ before' = [before EXCEPT ![c] = rows]
    /\ UNCHANGED <<open, io, ret, response, answer, kept, rows, queue, runs, failures>>
    /\ UNCHANGED_Peer

\* storage_get_runs takes the mutex and steps its statement for the first time:
\* ORDER BY id DESC begins with the last row.
BeginList(c) ==
    /\ Handles(c, "get-runs")
    /\ holder = Nobody
    /\ Goto(c, "list")
    /\ holder' = c
    /\ cursor' = Len(rows)
    /\ before' = [before EXCEPT ![c] = rows]
    /\ UNCHANGED <<open, io, ret, response, answer, kept, rows, queue, runs, failures>>
    /\ UNCHANGED_Peer

\* What get-runs answers of a run.
run_to_json(id) == [id |-> id, exit_code |-> rows[id].exit_code]

\* storage_sqlite_row_to_run and run_queue_add_last: the row as it is now.
ListRow(c) ==
    /\ stage[c] = "list"
    /\ cursor > 0
    /\ runs' = [runs EXCEPT ![c] = Append(@, run_to_json(cursor))]
    /\ cursor' = cursor - 1
    /\ UNCHANGED <<open, io, stage, ret, response, answer, kept, rows, queue, holder, before, failures>>
    /\ UNCHANGED_Peer

\* The statement is done, or fails at some row: it is reset and its mutex
\* unlocked.  Then the runs become the response, if that can be made.
EndList(c) ==
    /\ stage[c] = "list"
    /\ \/ cursor = 0 /\ CanAnswer(msg[c]) /\ Returns(c, "ok", "result") /\ Fine
       \/ cursor = 0 /\ ~CanAnswer(msg[c]) /\ Returns(c, "failed", "none") /\ Fine
       \/ Returns(c, "failed", "none") /\ Fail
    /\ holder' = Nobody
    /\ cursor' = 0
    /\ UNCHANGED <<kept, rows, queue, runs, before>>

\* The response is sent to a request; nothing is to a notification.
Answer(c) ==
    /\ stage[c] = "answer"
    /\ IF is_notification(msg[c])
       THEN ThreadEnds(c) /\ UNCHANGED <<io, length, answer>>
       ELSE /\ Goto(c, "reply")
            /\ answer' = [answer EXCEPT ![c] = ActualResponse(ret[c], response[c])]
            /\ \E n \in TextSizes : SendBegins(Server(c), n)
            /\ UNCHANGED open
    /\ UNCHANGED <<sent, size, taken, failures, up, msg, run, ec, told, ret, response>>
    /\ UNCHANGED_Table

\* jsonrpc_response_send is over.
Replied(c) ==
    /\ stage[c] = "reply"
    /\ io[Server(c)] \in {"sent", "failed"}
    /\ ThreadEnds(c)
    /\ UNCHANGED <<io, ret, response, answer, failures>>
    /\ UNCHANGED_Peer /\ UNCHANGED_Table

\* The server is killed.
ServerGone ==
    /\ up
    /\ up' = FALSE
    /\ Fail
    /\ open' = [e \in Ends |-> open[e] /\ e[2] = "client"]
    /\ io' = [e \in Ends |-> IF e[2] = "server" THEN "failed" ELSE io[e]]
    /\ stage' = [c \in Conns |-> "end"]
    /\ holder' = Nobody
    /\ kept' = {}
    /\ UNCHANGED <<length, sent, size, taken, msg, run, ec, told, ret, response, answer, rows, queue, cursor, runs, before>>

-----------------------------------------------------------------------------
PeerStep(c) == Connect(c) \/ Await(c) \/ Learn(c)

ThreadStep(c) ==
    \/ Accept(c) \/ Dispatch(c)
    \/ HandleUnknown(c) \/ HandleNewWorker(c) \/ HandleQueueRun(c) \/ HandleFinishedRun(c)
    \/ BeginList(c) \/ ListRow(c) \/ EndList(c)
    \/ Answer(c) \/ Replied(c)

NetStep(e) == IO(e) /\ UNCHANGED <<up, msg, run, ec, told, serverVars>>

Next ==
    \/ \E c \in Conns : PeerStep(c) \/ PeerGone(c) \/ ThreadStep(c)
    \/ \E e \in Ends : NetStep(e)
    \/ ServerGone

Spec == Init /\ [][Next]_vars

\* What goes on on a connection of its own accord.
Progress(c) ==
    \/ Await(c) \/ Learn(c)
    \/ ThreadStep(c)
    \/ \E e \in {Client(c), Server(c)} :
        (Send(e) \/ Recv(e) \/ RecvEnds(e)) /\ UNCHANGED <<up, msg, run, ec, told, serverVars>>

\* Peers and threads are scheduled, and the network makes progress.  Nobody has
\* to connect, and nothing has to fail.
Fairness == \A c \in Conns : WF_vars(Progress(c))

FairSpec == Spec /\ Fairness

-----------------------------------------------------------------------------
(* Properties *)

\* cmd_dispatcher_handle_conn_internal: bytes go back only to a well-formed
\* message with an id; a worker would take them for its run.
OnlyRequestsAnswered ==
    \A c \in Conns : sent[Server(c)] > 0 => Valid(msg[c]) /\ msg[c].id # "absent"

QueuedBy(c) == {i \in DOMAIN queue : queue[i] = c}

\* server_handle_cmd_queue_run: a client that was told "ok" has its run in the
\* queue, once; one that was told of an error has not, and may try again.
AnswersTrue ==
    \A c \in Conns :
        /\ told[c] = "ok" /\ msg[c].method = "queue-run" => Cardinality(QueuedBy(c)) = 1
        /\ told[c] = "error" => QueuedBy(c) = {}

\* storage_sqlite_rows_to_runs: every run there was is listed once, last first,
\* as it was or as it is by now, however many threads list, insert and finish
\* in the meantime; an exit code other than -1 is that of a finished run.
ListingTrue ==
    \A c \in Conns : msg[c].method = "get-runs" /\ ret[c] = "ok" =>
        /\ Len(runs[c]) = Len(before[c])
        /\ \A i \in DOMAIN runs[c] :
            LET id == Len(before[c]) + 1 - i
                code == runs[c][i].exit_code
            IN  /\ runs[c][i].id = id
                /\ code \in {before[c][id].exit_code, rows[id].exit_code}
                /\ code # -1 => rows[id].finished /\ rows[id].exit_code = code

Call == INSTANCE RemoteCall WITH
    Calls <- Conns,
    asked <- [c \in Conns |->
                IF io[Client(c)] = "idle" THEN "nothing"
                ELSE IF msg[c].method = "queue-run" THEN "run" ELSE "other"],
    outcome <- ret,
    queued <- {queue[i] : i \in DOMAIN queue},
    told <- [c \in Conns |-> IF told[c] = "sent" THEN "silence" ELSE told[c]]

\* Peers, network and threads implement a remote call: each message is handled
\* at most once, and who is told how that ended is told the truth.
ImplementsRemoteCall == Call!Spec

\* net_recv, net_send: no call waits for ever, on either side, for a peer that
\* reads, sends or goes away.
CallsEnd ==
    \A c \in Conns : io[Client(c)] # "idle" ~> told[c] # "nothing" /\ stage[c] = "end"
=============================================================================
