-------------------------------- MODULE Cimple --------------------------------
(***************************************************************************)
(* The whole system at the grain of its messages: one server with its      *)
(* SQLite rows, run queue and worker queue, the cimple-worker processes,   *)
(* the cimple-client invocations, and the connections between them.        *)
(*                                                                         *)
(* Every request is one connection (command.c reads one request per        *)
(* connection).  What a server thread does under server_mtx, or under the  *)
(* lock of one prepared statement, is one action; two such sections of a   *)
(* handler are two actions, so handlers interleave between them.           *)
(* "queue-run" is answered; "new-worker", "start-run" and "finished-run"   *)
(* are notifications nobody answers.                                       *)
(*                                                                         *)
(* Failures - a signal, a crash, a system call that fails, a CI run that   *)
(* fails - are spent from a budget, MaxDisruptions, so that a behaviour    *)
(* with a budget of 0 is a calm one.                                       *)
(***************************************************************************)
EXTENDS Integers, Sequences, FiniteSets

CONSTANTS
    Workers,         \* the cimple-worker processes
    Clients,         \* the cimple-client processes, each queues one run
    ExitCodes,       \* what a CI script may exit with
    MaxEpoch,        \* bound: how often the server is started
    MaxSessions,     \* bound: a worker with that many sessions behind it
                     \* is not started again
    MaxDisruptions   \* bound: how many failures a behaviour has

\* A script may succeed.
ASSUME ExitCodesAssumption == ExitCodes \subseteq Int /\ 0 \in ExitCodes
ASSUME BoundsAssumption ==
    /\ MaxEpoch \in Nat
    /\ MaxSessions \in Nat
    /\ MaxDisruptions \in Nat

-----------------------------------------------------------------------------
(* enum run_status and the labels the schema gives its values *)
CREATED == 1
FINISHED == 2
StatusLabel == [s \in {CREATED, FINISHED} |-> IF s = CREATED THEN "created" ELSE "finished"]

\* SQLite gives an integer bound against a TEXT column the column's affinity:
\* it is compared as its decimal digits.
AsText == [n \in {CREATED, FINISHED} |-> IF n = CREATED THEN "1" ELSE "2"]

\* A connection is named by the worker that opened it and its session number.
Conn == Workers \X Nat

Row == [status : {CREATED, FINISHED}, exit_code : Int]
Request == [method : {"new-worker", "finished-run"}, conn : Conn, run : Nat, exit_code : Int]

request_new_worker(conn) ==
    [method |-> "new-worker", conn |-> conn, run |-> 0, exit_code |-> 0]
request_finished_run(conn, run, ec) ==
    [method |-> "finished-run", conn |-> conn, run |-> run, exit_code |-> ec]

VARIABLES
    \* the database file: db[id] is the row of run id; survives everything
    db,
    \* the server process
    srv,          \* "down", "up", "stopping" (SIGTERM seen) or "deaf" (its event
                  \* loop failed: nobody accepts or sees signals any more)
    epoch,        \* how often it was started
    runQueue,     \* run ids, first to be assigned first
    workerQueue,  \* connections of the workers waiting for a run
    backlog,      \* requests of workers in connections not accepted yet
    threads,      \* requests being handled by a client thread
    \* the clients, and the thread that handles each one's "queue-run"
    cpc,          \* "idle", "sent", "accepted", "inserted", "queued", "ok", "failed"
    crun,         \* the id its run was given, 0 before
    \* the workers
    wpc,          \* "down", "start", "waiting", "running", "report"
    session,      \* number of its last "new-worker" connection
    inbox,        \* run in a start-run delivered on that connection, 0 = none
    wrun,         \* the run it is executing or reporting, 0 = none
    wec,          \* the exit code it is going to report
    wsig,         \* has it a SIGTERM pending
    \* history: what workers did, whether or not anybody heard of it
    attempts,     \* [run, conn]: a worker began the run it was given there
    outcomes,     \* <<run, exit code>>: a CI run was over with that result
    unkept,       \* ids that were given out for a row that was rolled back
    disruptions   \* failures so far

serverVars == <<srv, epoch, runQueue, workerQueue, backlog, threads>>
clientVars == <<cpc, crun>>
workerVars == <<wpc, session, inbox, wrun, wec, wsig>>
history == <<attempts, outcomes, unkept>>
vars == <<db, serverVars, clientVars, workerVars, history, disruptions>>

TypeOK ==
    /\ db \in Seq(Row)
    /\ srv \in {"down", "up", "stopping", "deaf"}
    /\ epoch \in Nat
    /\ runQueue \in Seq(Nat)
    /\ workerQueue \in Seq(Conn)
    /\ backlog \subseteq Request
    /\ threads \subseteq Request
    /\ cpc \in [Clients -> {"idle", "sent", "accepted", "inserted", "queued", "ok", "failed"}]
    /\ crun \in [Clients -> Nat]
    /\ wpc \in [Workers -> {"down", "start", "waiting", "running", "report"}]
    /\ session \in [Workers -> Nat]
    /\ inbox \in [Workers -> Nat]
    /\ wrun \in [Workers -> Nat]
    /\ wec \in [Workers -> Int]
    /\ wsig \in [Workers -> BOOLEAN]
    /\ attempts \subseteq [run : Nat, conn : Conn]
    /\ outcomes \subseteq Nat \X Int
    /\ unkept \subseteq Nat
    /\ disruptions \in Nat

Init ==
    /\ db = << >>
    /\ srv = "down"
    /\ epoch = 0
    /\ runQueue = << >>
    /\ workerQueue = << >>
    /\ backlog = {}
    /\ threads = {}
    /\ cpc = [c \in Clients |-> "idle"]
    /\ crun = [c \in Clients |-> 0]
    /\ wpc = [w \in Workers |-> "down"]
    /\ session = [w \in Workers |-> 0]
    /\ inbox = [w \in Workers |-> 0]
    /\ wrun = [w \in Workers |-> 0]
    /\ wec = [w \in Workers |-> 0]
    /\ wsig = [w \in Workers |-> FALSE]
    /\ attempts = {}
    /\ outcomes = {}
    /\ unkept = {}
    /\ disruptions = 0

Disrupt ==
    /\ disruptions < MaxDisruptions
    /\ disruptions' = disruptions + 1

Calm == UNCHANGED disruptions

-----------------------------------------------------------------------------
(* Storage *)

\* INSERT ... RETURNING has the id of its row before the row is committed, by
\* the reset of the statement.  A commit that fails there is only logged
\* (sqlite_reset): the row is gone, its id is returned all the same, and the
\* next row gets it again.
Inserts(status) ==
    \/ db' = Append(db, [status |-> status, exit_code |-> -1]) /\ UNCHANGED unkept /\ Calm
    \/ UNCHANGED db /\ unkept' = unkept \union {Len(db) + 1} /\ Disrupt

\* Seeded fault: the enumeration starts at 0, as C's do by default.
storage_run_create_FromZero == Inserts(0)

storage_run_create == Inserts(CREATED)

\* UPDATE ... WHERE id = ?, whatever the row holds; nothing without a row.
storage_run_finished(run, ec) ==
    db' = [db EXCEPT ![run] = [status |-> FINISHED, exit_code |-> ec]]

\* Seeded fault: the query that finds the unfinished rows, with nothing to tell
\* a run that was given out from one that was not.
storage_get_run_queue_ByLabel ==
    LET found == {id \in DOMAIN db : StatusLabel[db[id].status] = StatusLabel[CREATED]}
    IN  CHOOSE queue \in [1 .. Cardinality(found) -> found] :
            \A i, j \in 1 .. Cardinality(found) : i < j => queue[i] < queue[j]

\* SELECT ... FROM cimple_runs_view WHERE status = ? ORDER BY id, with
\* RUN_STATUS_CREATED bound; the view's status is the label.
storage_get_run_queue ==
    LET found == {id \in DOMAIN db : StatusLabel[db[id].status] = AsText[CREATED]}
    IN  CHOOSE queue \in [1 .. Cardinality(found) -> found] :
            \A i, j \in 1 .. Cardinality(found) : i < j => queue[i] < queue[j]

-----------------------------------------------------------------------------
(* The server process *)

\* The run queue is read back from the database before anyone can connect.
ServerStart ==
    /\ srv = "down"
    /\ epoch < MaxEpoch
    /\ srv' = "up"
    /\ epoch' = epoch + 1
    /\ runQueue' = storage_get_run_queue
    /\ UNCHANGED <<db, workerQueue, backlog, threads, clientVars, workerVars, history, disruptions>>

\* One connection is accepted and given a thread of its own.
tcp_server_accept ==
    \/ \E m \in backlog :
        /\ backlog' = backlog \ {m}
        /\ threads' = threads \union {m}
        /\ UNCHANGED cpc
    \/ \E c \in Clients :
        /\ cpc[c] = "sent"
        /\ cpc' = [cpc EXCEPT ![c] = "accepted"]
        /\ UNCHANGED <<backlog, threads>>

Accept ==
    /\ srv = "up"
    /\ tcp_server_accept
    /\ UNCHANGED <<db, srv, epoch, runQueue, workerQueue, crun, workerVars, history, disruptions>>

\* SIGTERM.  The signal descriptor is the first in the event loop, so the same
\* pass over the descriptors may still accept one connection.
ServerStop ==
    /\ srv = "up"
    /\ Disrupt
    /\ srv' = "stopping"
    /\ tcp_server_accept \/ UNCHANGED <<backlog, threads, cpc>>
    /\ UNCHANGED <<db, epoch, runQueue, workerQueue, crun, workerVars, history>>

\* poll, accept or pthread_create fails: the listening thread leaves its loop
\* and waits in server_destroy for a main thread that was not told to stop.  A
\* connection whose thread could not be made is closed.
ListenFail ==
    /\ srv = "up"
    /\ Disrupt
    /\ srv' = "deaf"
    /\ \/ UNCHANGED <<backlog, cpc>>
       \/ \E m \in backlog : backlog' = backlog \ {m} /\ UNCHANGED cpc
       \/ \E c \in Clients :
            /\ cpc[c] = "sent"
            /\ cpc' = [cpc EXCEPT ![c] = "failed"]
            /\ UNCHANGED backlog
    /\ UNCHANGED <<db, epoch, runQueue, workerQueue, threads, crun, workerVars, history>>

\* Everything but the database goes with the process.
ProcessGone ==
    /\ srv' = "down"
    /\ runQueue' = << >>
    /\ workerQueue' = << >>
    /\ backlog' = {}
    /\ threads' = {}
    /\ cpc' = [c \in Clients |->
                IF cpc[c] \in {"sent", "accepted", "inserted", "queued"}
                THEN "failed" ELSE cpc[c]]
    /\ UNCHANGED <<db, epoch, crun, workerVars, history>>

\* Seeded fault: waits for the queued workers to be used up first.
ServerExit_DrainWorkers ==
    /\ srv = "stopping"
    /\ workerQueue = << >>
    /\ ProcessGone
    /\ Calm

\* The event loop has seen `stopping`; every client thread is joined.
ServerExit ==
    /\ srv = "stopping"
    /\ threads = {}
    /\ \A c \in Clients : cpc[c] \notin {"accepted", "inserted", "queued"}
    /\ ProcessGone
    /\ Calm

ServerCrash ==
    /\ srv # "down"
    /\ ProcessGone
    /\ Disrupt

-----------------------------------------------------------------------------
(* Client threads of the server *)

\* server_enqueue_worker: the connection is duplicated and kept.
HandleNewWorker(m) ==
    /\ m.method = "new-worker"
    /\ \/ workerQueue' = Append(workerQueue, m.conn) /\ Calm
       \/ UNCHANGED workerQueue /\ Disrupt      \* file_dup or malloc failed
    /\ threads' = threads \ {m}
    /\ UNCHANGED <<db, srv, epoch, runQueue, backlog, clientVars, workerVars, history>>

HandleFinishedRun(m) ==
    /\ m.method = "finished-run"
    /\ \/ storage_run_finished(m.run, m.exit_code) /\ Calm
       \/ UNCHANGED db /\ Disrupt               \* logged, or rolled back with the
                                                \* insertion of another thread
    /\ threads' = threads \ {m}
    /\ UNCHANGED <<srv, epoch, runQueue, workerQueue, backlog, clientVars, workerVars, history>>

\* Seeded fault: the id of the row before the one inserted.
InsertRun_StaleId(c) ==
    /\ cpc[c] = "accepted"
    /\ storage_run_create
    /\ cpc' = [cpc EXCEPT ![c] = "inserted"]
    /\ crun' = [crun EXCEPT ![c] = Len(db)]
    /\ UNCHANGED <<serverVars, workerVars, attempts, outcomes>>

\* server_enqueue_run, first half: the row, before server_mtx is taken.
InsertRun(c) ==
    /\ cpc[c] = "accepted"
    /\ \/ /\ storage_run_create
          /\ cpc' = [cpc EXCEPT ![c] = "inserted"]
          /\ crun' = [crun EXCEPT ![c] = Len(db) + 1]
       \/ /\ cpc' = [cpc EXCEPT ![c] = "failed"]  \* the error response
          /\ UNCHANGED <<db, unkept, crun>>
          /\ Disrupt
    /\ UNCHANGED <<serverVars, workerVars, attempts, outcomes>>

\* server_enqueue_run, second half, under server_mtx.
EnqueueRun(c) ==
    /\ cpc[c] = "inserted"
    /\ runQueue' = Append(runQueue, crun[c])
    /\ cpc' = [cpc EXCEPT ![c] = "queued"]
    /\ UNCHANGED <<db, srv, epoch, workerQueue, backlog, threads, crun, workerVars, history, disruptions>>

RespondRun(c) ==
    /\ cpc[c] = "queued"
    /\ \/ cpc' = [cpc EXCEPT ![c] = "ok"] /\ Calm
       \/ cpc' = [cpc EXCEPT ![c] = "failed"] /\ Disrupt   \* client gone
    /\ UNCHANGED <<db, serverVars, crun, workerVars, history>>

-----------------------------------------------------------------------------
(* The server's main thread *)

\* The worker on the other end still reads this connection.
Listening(conn) == wpc[conn[1]] = "waiting" /\ session[conn[1]] = conn[2]

\* Both heads leave their queues; the worker's descriptor is closed whatever
\* happens.  A send to a worker that has gone may succeed (the kernel buffers
\* it) or fail; to one that listens, it fails only if a system call does.
\* unsent is the run queue after a failure.
AssignHeads(unsent) ==
    /\ srv \in {"up", "deaf"}
    /\ runQueue # << >>
    /\ workerQueue # << >>
    /\ workerQueue' = Tail(workerQueue)
    /\ LET run == Head(runQueue)
           conn == Head(workerQueue)
       IN  \/ /\ Listening(conn)
              /\ inbox' = [inbox EXCEPT ![conn[1]] = run]
              /\ runQueue' = Tail(runQueue)
              /\ Calm
           \/ /\ ~Listening(conn)
              /\ runQueue' = Tail(runQueue)
              /\ Calm
              /\ UNCHANGED inbox
           \/ /\ runQueue' = unsent
              /\ Listening(conn) => Disrupt
              /\ ~Listening(conn) => Calm
              /\ UNCHANGED inbox
    /\ UNCHANGED <<db, srv, epoch, backlog, threads, clientVars,
                   wpc, session, wrun, wec, wsig, history>>

\* Seeded faults: a run that could not be sent is forgotten; it goes behind
\* the others; a run is only assigned when another one is queued behind it.
server_assign_run_Forget == AssignHeads(Tail(runQueue))
server_assign_run_Last == AssignHeads(Append(Tail(runQueue), Head(runQueue)))
server_assign_run_NotLast ==
    Len(runQueue) > 1 /\ AssignHeads(<<Head(runQueue)>> \o Tail(runQueue))

\* A run that could not be sent goes back to the front.
server_assign_run == AssignHeads(<<Head(runQueue)>> \o Tail(runQueue))

-----------------------------------------------------------------------------
(* Workers *)

WorkerStart(w) ==
    /\ wpc[w] = "down"
    /\ session[w] < MaxSessions
    /\ wpc' = [wpc EXCEPT ![w] = "start"]
    /\ UNCHANGED <<db, serverVars, clientVars, session, inbox, wrun, wec, wsig, history, disruptions>>

\* The process exits: its connections and what it held are gone.
WorkerGone(w) ==
    /\ wpc' = [wpc EXCEPT ![w] = "down"]
    /\ inbox' = [inbox EXCEPT ![w] = 0]
    /\ wrun' = [wrun EXCEPT ![w] = 0]
    /\ wec' = [wec EXCEPT ![w] = 0]
    /\ wsig' = [wsig EXCEPT ![w] = FALSE]
    /\ UNCHANGED <<db, serverVars, clientVars, session, history>>

\* connect or send fails: for free when the server does not listen.
Unreachable == IF srv \in {"down", "stopping"} THEN Calm ELSE Disrupt

\* worker_get_run: connect, send "new-worker", and wait.
WorkerRegister(w) ==
    /\ wpc[w] = "start"
    /\ \/ /\ srv # "down"
          /\ wpc' = [wpc EXCEPT ![w] = "waiting"]
          /\ session' = [session EXCEPT ![w] = session[w] + 1]
          /\ backlog' = backlog \union {request_new_worker(<<w, session[w] + 1>>)}
          /\ UNCHANGED <<db, srv, epoch, runQueue, workerQueue, threads, clientVars,
                         inbox, wrun, wec, wsig, history, disruptions>>
       \/ Unreachable /\ WorkerGone(w)

\* The poll returns with a start-run and no signal.
TakeRun(w) ==
    /\ wpc[w] = "waiting"
    /\ inbox[w] # 0
    /\ ~wsig[w]
    /\ wpc' = [wpc EXCEPT ![w] = "running"]
    /\ wrun' = [wrun EXCEPT ![w] = inbox[w]]
    /\ inbox' = [inbox EXCEPT ![w] = 0]
    /\ attempts' = attempts \union {[run |-> inbox[w], conn |-> <<w, session[w]>>]}
    /\ UNCHANGED <<db, serverVars, clientVars, session, wec, wsig, outcomes, unkept, disruptions>>

\* At the server: its "new-worker" is unread, being handled or queued.
Registered(conn) ==
    \/ \E m \in backlog \union threads : m.conn = conn /\ m.method = "new-worker"
    \/ \E i \in DOMAIN workerQueue : workerQueue[i] = conn

\* Seeded fault: POLLHUP is looked at before POLLIN.
SeeEOF_BeforeRun(w) ==
    /\ wpc[w] = "waiting"
    /\ ~Registered(<<w, session[w]>>)
    /\ WorkerGone(w)
    /\ Calm

\* The server has closed its end without a run: a request that cannot be read.
SeeEOF(w) ==
    /\ wpc[w] = "waiting"
    /\ inbox[w] = 0
    /\ ~Registered(<<w, session[w]>>)
    /\ WorkerGone(w)
    /\ Calm

\* Seeded fault: the signal is ignored when there is a run to do.
SeeSignal_Idle(w) ==
    /\ wpc[w] = "waiting"
    /\ inbox[w] = 0
    /\ wsig[w]
    /\ WorkerGone(w)
    /\ Calm

\* The poll returns with the signal.  A start-run read in the same pass is
\* dropped with the process: worker_main looks at `stopping` first.
SeeSignal(w) ==
    /\ wpc[w] = "waiting"
    /\ wsig[w]
    /\ WorkerGone(w)
    /\ Calm

\* Seeded fault: a run that failed is reported all the same.
WorkerRun_IgnoreFailure(w) ==
    /\ wpc[w] = "running"
    /\ wpc' = [wpc EXCEPT ![w] = "report"]
    /\ \E ec \in ExitCodes :
        /\ wec' = [wec EXCEPT ![w] = ec]
        /\ outcomes' = outcomes \union {<<wrun[w], ec>>} \/ UNCHANGED outcomes
    /\ UNCHANGED <<db, serverVars, clientVars, session, inbox, wrun, wsig, attempts, unkept, disruptions>>

\* ci_run_git_repo (see CIRun): the script exits; fork fails, and the result is
\* 0 all the same; or there is no result.
WorkerRun(w) ==
    /\ wpc[w] = "running"
    /\ \/ \E ec \in ExitCodes :
            /\ wpc' = [wpc EXCEPT ![w] = "report"]
            /\ wec' = [wec EXCEPT ![w] = ec]
            /\ outcomes' = outcomes \union {<<wrun[w], ec>>}
            /\ Calm \/ (ec = 0 /\ Disrupt)
            /\ UNCHANGED <<db, serverVars, clientVars, session, inbox, wrun, wsig, attempts, unkept>>
       \/ WorkerGone(w) /\ Disrupt

\* A fresh connection carries "finished-run"; then the worker starts over.
WorkerReport(w) ==
    /\ wpc[w] = "report"
    /\ \/ /\ srv # "down"
          /\ backlog' = backlog \union
                {request_finished_run(<<w, session[w]>>, wrun[w], wec[w])}
          /\ wpc' = [wpc EXCEPT ![w] = "start"]
          /\ wrun' = [wrun EXCEPT ![w] = 0]
          /\ wec' = [wec EXCEPT ![w] = 0]
          /\ UNCHANGED <<db, srv, epoch, runQueue, workerQueue, threads, clientVars,
                         session, inbox, wsig, history, disruptions>>
       \/ Unreachable /\ WorkerGone(w)

WorkerSignal(w) ==
    /\ wpc[w] # "down"
    /\ ~wsig[w]
    /\ wsig' = [wsig EXCEPT ![w] = TRUE]
    /\ Disrupt
    /\ UNCHANGED <<db, serverVars, clientVars, wpc, session, inbox, wrun, wec, history>>

WorkerCrash(w) ==
    /\ wpc[w] # "down"
    /\ WorkerGone(w)
    /\ Disrupt

-----------------------------------------------------------------------------
(* Clients *)

\* Connect and send "queue-run"; refused when the server does not listen.
ClientSend(c) ==
    /\ cpc[c] = "idle"
    /\ \/ srv # "down" /\ cpc' = [cpc EXCEPT ![c] = "sent"] /\ Calm
       \/ Unreachable /\ cpc' = [cpc EXCEPT ![c] = "failed"]
    /\ UNCHANGED <<db, serverVars, crun, workerVars, history>>

-----------------------------------------------------------------------------
ServerNext ==
    \/ ServerStart
    \/ Accept
    \/ ServerStop
    \/ ListenFail
    \/ ServerExit
    \/ ServerCrash
    \/ server_assign_run
    \/ \E m \in threads : HandleNewWorker(m) \/ HandleFinishedRun(m)

ClientNext(c) == ClientSend(c) \/ InsertRun(c) \/ EnqueueRun(c) \/ RespondRun(c)

\* What a worker process does of its own accord once it runs.
WorkerStep(w) ==
    \/ WorkerRegister(w)
    \/ TakeRun(w)
    \/ SeeEOF(w)
    \/ SeeSignal(w)
    \/ WorkerRun(w)
    \/ WorkerReport(w)

WorkerNext(w) == WorkerStart(w) \/ WorkerStep(w) \/ WorkerSignal(w) \/ WorkerCrash(w)

Next ==
    \/ ServerNext
    \/ \E c \in Clients : ClientNext(c)
    \/ \E w \in Workers : WorkerNext(w)

Spec == Init /\ [][Next]_vars

\* Threads and processes are scheduled; docker-compose restarts what exited
\* ("restart: always").  No failure and no client invocation is ever owed.
Fairness ==
    /\ WF_vars(ServerStart)
    /\ WF_vars(Accept)
    /\ WF_vars(ServerExit)
    /\ WF_vars(server_assign_run)
    /\ WF_vars(\E m \in threads : HandleNewWorker(m) \/ HandleFinishedRun(m))
    /\ \A c \in Clients : WF_vars(InsertRun(c) \/ EnqueueRun(c) \/ RespondRun(c))
    /\ \A w \in Workers : WF_vars(WorkerStart(w)) /\ WF_vars(WorkerStep(w))

FairSpec == Spec /\ Fairness
=============================================================================
