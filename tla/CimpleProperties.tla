--------------------------- MODULE CimpleProperties ---------------------------
(***************************************************************************)
(* What Cimple is checked for and proved to satisfy.                       *)
(***************************************************************************)
EXTENDS Cimple

-----------------------------------------------------------------------------
(* Safety *)

\* A run is begun by at most one worker, over all restarts of everything: a
\* re-queued run (server.c, server_assign_run) was not also delivered, and no
\* run re-read at start-up had been given out before.  Two runs are begun under
\* one id only if that id was given out for a row that was rolled back, which
\* sqlite_reset logs and storage_run_create does not notice (sqlite.c:113).
AtMostOnce == \A a, b \in attempts : a.run = b.run => a = b \/ a.run \in unkept

\* A row marked finished holds the exit code that that very run was over with,
\* and it was over with no other (server.c, server_handle_cmd_finished_run,
\* trusts the message), unless another run had its id and lost its row.
FinishedTruthful ==
    \A id \in DOMAIN db \ unkept : db[id].status = FINISHED =>
        {o \in outcomes : o[1] = id} = {<<id, db[id].exit_code>>}

\* The custody of a run: who can still bring it to its end.
Queued == {runQueue[i] : i \in DOMAIN runQueue}
BeingQueued == {crun[c] : c \in {d \in Clients : cpc[d] = "inserted"}}
Reported == {m.run : m \in {n \in backlog \union threads : n.method = "finished-run"}}
HeldByWorker(w) == {inbox[w], wrun[w]} \ {0}

Held ==
    Queued \union BeingQueued \union Reported \union UNION {HeldByWorker(w) : w \in Workers}

\* A recorded run that nobody holds any more was lost to a failure: the
\* handlers and the queues alone never lose one.
LossNeedsDisruption ==
    \A id \in DOMAIN db : db[id].status = CREATED /\ id \notin Held => disruptions > 0

\* The parts of the inductive invariant; CimpleProofs says why each is needed.
Attempted == {a.run : a \in attempts}
Inserted == {c \in Clients : cpc[c] = "inserted"}

\* The ids that have been given out.
Known == (1 .. Len(db)) \union unkept

\* Whatever names a run names a row, or the row that was rolled back.  The next
\* row is nobody's, or has an id that is not to be trusted.
IdsExist ==
    /\ unkept \subseteq 1 .. Len(db) + 1
    /\ \A k \in DOMAIN runQueue : runQueue[k] \in Known
    /\ \A c \in Clients : crun[c] \in Known \union {0}
    /\ \A w \in Workers : inbox[w] \in Known \union {0} /\ wrun[w] \in Known \union {0}
    /\ \A m \in backlog \union threads : m.run \in Known \union {0}
    /\ \A a \in attempts : a.run \in Known

QueueCustody ==
    \A k \in DOMAIN runQueue : runQueue[k] \notin unkept =>
        /\ \A l \in DOMAIN runQueue : runQueue[k] = runQueue[l] => k = l
        /\ runQueue[k] \notin Attempted
        /\ \A w \in Workers : inbox[w] # runQueue[k]
        /\ \A c \in Inserted : crun[c] # runQueue[k]

InboxCustody ==
    \A w \in Workers : inbox[w] \notin unkept \union {0} =>
        /\ inbox[w] \notin Attempted
        /\ \A v \in Workers : inbox[v] = inbox[w] => v = w
        /\ \A c \in Inserted : crun[c] # inbox[w]

ClientCustody ==
    \A c \in Inserted :
        /\ crun[c] # 0
        /\ crun[c] \notin unkept =>
            /\ crun[c] \notin Attempted
            /\ \A d \in Inserted : crun[d] = crun[c] => d = c

WorkerCustody ==
    \A w \in Workers :
        /\ wpc[w] = "running" =>
            /\ [run |-> wrun[w], conn |-> <<w, session[w]>>] \in attempts
            /\ wrun[w] \notin unkept => \A o \in outcomes : o[1] # wrun[w]
        /\ wpc[w] = "report" => <<wrun[w], wec[w]>> \in outcomes

OutcomeCustody ==
    /\ \A o \in outcomes : o[1] \in Attempted
    /\ \A o, p \in outcomes : o[1] = p[1] => o = p \/ o[1] \in unkept
    /\ \A m \in backlog \union threads :
        m.method = "finished-run" => <<m.run, m.exit_code>> \in outcomes

\* Every run is in the custody of one party: it waits in the queue, in one
\* worker's socket or in the thread that inserted it, or one worker has begun
\* it (server.c, server_enqueue_run and server_assign_run move it).  One whose
\* id was given out before, for a row that was rolled back, may be confused
\* with its predecessor, and no other run is.
Custody ==
    /\ IdsExist
    /\ QueueCustody
    /\ InboxCustody
    /\ ClientCustody
    /\ WorkerCustody
    /\ OutcomeCustody

-----------------------------------------------------------------------------
(* Action properties *)

\* A finished row is never written again, although the UPDATE in
\* storage_sqlite.c looks at nothing but the id, unless the id was given out
\* before, for a row that was rolled back.
FinishedIsFinal ==
    [][\A id \in DOMAIN db \ unkept : db[id].status = FINISHED => db'[id] = db[id]]_vars

\* The only steps that let go of an unfinished run: a process that holds it
\* exits, it is sent to a worker that no longer listens (server.c:175), its
\* result cannot be stored (server.c:309), or its connection is closed unread.
RunNotDropped ==
    [][\A id \in (Held \ Held') \intersect DOMAIN db' : db'[id].status = CREATED =>
        \/ srv # "down" /\ srv' = "down"
        \/ \E w \in Workers : id \in HeldByWorker(w) /\ wpc'[w] = "down"
        \/ /\ id \in Queued /\ workerQueue # << >>
           /\ id = Head(runQueue) /\ ~Listening(Head(workerQueue))
        \/ id \in Reported /\ threads' # threads /\ disruptions' > disruptions
        \/ srv = "up" /\ srv' = "deaf"]_vars

\* Queued runs are assigned in the order they were queued: one whose worker
\* cannot be reached goes back to the front (server.c:185), not behind others.
\* Two runs with one id cannot be told apart.
QueueOrderKept ==
    [][\A i, j \in DOMAIN runQueue :
        i < j /\ {runQueue[i], runQueue[j]} \intersect unkept = {}
              /\ (\E k \in DOMAIN runQueue' : runQueue'[k] = runQueue[i]) =>
            \E k, l \in DOMAIN runQueue' :
                k < l /\ runQueue'[k] = runQueue[i] /\ runQueue'[l] = runQueue[j]]_vars

-----------------------------------------------------------------------------
(* Cimple implements the ledger of runs *)

Ledger == INSTANCE RunLedger WITH
    rows <- [id \in DOMAIN db |->
                [finished |-> db[id].status = FINISHED, exit_code |-> db[id].exit_code]],
    attempted <- Attempted,
    acked <- [c \in Clients |-> IF cpc[c] = "ok" THEN crun[c] ELSE 0]

\* Each step of server, workers and clients is a step of RunLedger or changes
\* nothing of it: rows are only added, attempted once and finished once with
\* their own exit code, and no two clients are answered for the same run, but
\* for the ids that a failed commit gives out twice.
ImplementsLedger == Ledger!Spec

-----------------------------------------------------------------------------
(* Liveness, under FairSpec *)

\* Unless something fails, a request that reached the server is answered "ok"
\* and its run is executed, reported and marked finished.
EveryRunFinishes ==
    \A c \in Clients :
        cpc[c] = "sent" ~> disruptions > 0 \/ (cpc[c] = "ok" /\ db[crun[c]].status = FINISHED)

\* A run does not stay queued while the server listens: dead workers ahead of
\* live ones in the worker queue are used up, dropped workers register again.
QueuedRunLeaves ==
    \A id \in 1 .. Cardinality(Clients) : id \in Queued ~> id \notin Queued \/ srv = "deaf"

\* server_main.c: once SIGTERM is seen, the process gets to its exit.
StopEnds == srv = "stopping" ~> srv = "down"

\* worker.c: a worker that was signalled exits, at the latest when it next
\* waits for a run.
SignalledWorkerEnds == \A w \in Workers : wsig[w] ~> wpc[w] = "down"

-----------------------------------------------------------------------------
(* What the code says of itself and does not do *)

\* server_create fills the run queue from storage_get_run_queue, whose query
\* asks for the rows with RUN_STATUS_CREATED: after a restart every unfinished
\* run would be queued again.
RestartRecoversQueue ==
    [][srv = "down" /\ srv' = "up" =>
        {runQueue'[i] : i \in DOMAIN runQueue'} = {id \in DOMAIN db : db[id].status = CREATED}]_vars
=============================================================================
