--------------------------- MODULE CimpleLossProofs ---------------------------
(***************************************************************************)
(* Proofs about Cimple: in what order runs leave the queue, which steps    *)
(* let go of an unfinished run, and that none does unless something fails, *)
(* for any workers, clients, exit codes and bounds.                        *)
(***************************************************************************)
EXTENDS CimpleProofs

-----------------------------------------------------------------------------
(* The order of the queue *)

\* What may become of the run queue in a step.
LEMMA QueueChanges ==
    ASSUME Inv, [Next]_vars
    PROVE  \/ runQueue' = runQueue
           \/ runQueue' = << >>
           \/ runQueue # << >> /\ runQueue' = Tail(runQueue)
           \/ \E id \in Nat : runQueue' = Append(runQueue, id)
<1>1. CASE ServerStart
  BY <1>1, NothingRecovered DEF Inv, ServerStart
<1>2. CASE server_assign_run
  <2>1. runQueue \in Seq(Nat)
    BY DEF Inv, TypeOK
  <2>2. runQueue # << >> /\ runQueue' \in {Tail(runQueue), <<Head(runQueue)>> \o Tail(runQueue)}
    BY <1>2 DEF server_assign_run, AssignHeads
  <2> QED BY <2>1, <2>2, RequeueHead
<1>3. CASE \E c \in Clients : EnqueueRun(c)
  BY <1>3 DEF Inv, TypeOK, EnqueueRun
<1>4. CASE \/ Accept \/ ServerStop \/ ListenFail \/ ServerExit \/ ServerCrash
           \/ \E m \in threads : HandleNewWorker(m) \/ HandleFinishedRun(m)
  BY <1>4
  DEF Accept, ServerStop, ListenFail, ServerExit, ServerCrash, ProcessGone, HandleNewWorker, HandleFinishedRun
<1>5. CASE \E c \in Clients : ClientSend(c) \/ InsertRun(c) \/ RespondRun(c)
  BY <1>5 DEF ClientSend, InsertRun, RespondRun, serverVars
<1>6. CASE \E w \in Workers : WorkerNext(w)
  BY <1>6
  DEF WorkerNext, WorkerStep, WorkerStart, WorkerRegister, TakeRun, SeeEOF, SeeSignal, WorkerRun,
      WorkerReport, WorkerSignal, WorkerCrash, WorkerGone, serverVars
<1>7. CASE UNCHANGED vars
  BY <1>7 DEF vars, serverVars
<1> QED
  BY <1>1, <1>2, <1>3, <1>4, <1>5, <1>6, <1>7 DEF Next, ServerNext, ClientNext

\* QueueOrderKept's step: every change of the queue keeps the order, because a
\* run whose id is its own is in it once.
LEMMA OrderStep ==
    ASSUME Inv, [Next]_vars,
           NEW i \in DOMAIN runQueue, NEW j \in DOMAIN runQueue, i < j, runQueue[i] \notin unkept,
           NEW k0 \in DOMAIN runQueue', runQueue'[k0] = runQueue[i]
    PROVE  \E k, l \in DOMAIN runQueue' :
               k < l /\ runQueue'[k] = runQueue[i] /\ runQueue'[l] = runQueue[j]
<1>1. runQueue \in Seq(Nat) /\ Len(runQueue) \in Nat /\ DOMAIN runQueue = 1 .. Len(runQueue)
  BY LenProperties DEF Inv, TypeOK
<1>2. CASE runQueue' = runQueue
  BY <1>2
<1>3. CASE runQueue' = << >>
  BY <1>3, EmptySeq, LenProperties
<1>4. CASE runQueue # << >> /\ runQueue' = Tail(runQueue)
  <2>1. /\ Len(runQueue') = Len(runQueue) - 1
        /\ DOMAIN runQueue' = 1 .. Len(runQueue) - 1
        /\ \A k \in 1 .. Len(runQueue) - 1 : runQueue'[k] = runQueue[k + 1]
    BY <1>1, <1>4, HeadTailProperties, LenProperties
  <2>2. k0 + 1 = i
    <3>1. k0 \in 1 .. Len(runQueue) - 1 /\ k0 + 1 \in DOMAIN runQueue /\ runQueue[k0 + 1] = runQueue[i]
      BY <1>1, <2>1
    <3> QED BY <3>1 DEF Inv, Custody, QueueCustody
  <2>3. j - 1 \in DOMAIN runQueue' /\ k0 < j - 1 /\ runQueue'[j - 1] = runQueue[j]
    <3>1. j - 1 \in 1 .. Len(runQueue) - 1 /\ k0 < j - 1 /\ (j - 1) + 1 = j
      BY <1>1, <2>1, <2>2
    <3> QED BY <2>1, <3>1
  <2> QED BY <2>3
<1>5. CASE \E id \in Nat : runQueue' = Append(runQueue, id)
  <2>1. /\ DOMAIN runQueue \subseteq DOMAIN runQueue'
        /\ \A k \in DOMAIN runQueue : runQueue'[k] = runQueue[k]
    BY <1>1, <1>5, AppendProperties, LenProperties
  <2> QED BY <2>1
<1> QED BY <1>2, <1>3, <1>4, <1>5, QueueChanges

\* QueueOrderKept (server_assign_run): runs leave the queue in the order they
\* came; one that could not be sent is the first again.
THEOREM OrderIsKept == Spec => QueueOrderKept
<1> DEFINE Kept ==
        \A i, j \in DOMAIN runQueue :
            i < j /\ {runQueue[i], runQueue[j]} \intersect unkept = {}
                  /\ (\E k \in DOMAIN runQueue' : runQueue'[k] = runQueue[i]) =>
                \E k, l \in DOMAIN runQueue' :
                    k < l /\ runQueue'[k] = runQueue[i] /\ runQueue'[l] = runQueue[j]
<1>1. Inv /\ [Next]_vars => Kept
  BY OrderStep
<1>2. Inv /\ [Next]_vars => [Kept]_vars
  BY <1>1
<1>3. Spec => [][Kept]_vars
  BY <1>2, Invariance, PTL DEF Spec
<1> QED BY <1>3 DEF QueueOrderKept

-----------------------------------------------------------------------------
(* Registered connections *)

\* A worker has a run only while it executes or reports it, and one in its
\* socket only while it waits; nobody is in a server that is down.
Quiet ==
    /\ \A w \in Workers :
        /\ wpc[w] \in {"down", "start", "waiting"} => wrun[w] = 0
        /\ wpc[w] # "waiting" => inbox[w] = 0
    /\ srv = "down" => runQueue = << >> /\ \A c \in Clients : cpc[c] \notin {"accepted", "inserted"}

\* A connection is registered in one place, and a worker that still reads it has
\* not been given a run on it.
Registry ==
    /\ \A m \in backlog \union threads : m.method = "new-worker" =>
        /\ m = request_new_worker(m.conn)
        /\ ~(m \in backlog /\ m \in threads)
        /\ \A i \in DOMAIN workerQueue : workerQueue[i] # m.conn
    /\ \A i, j \in DOMAIN workerQueue : workerQueue[i] = workerQueue[j] => i = j
    /\ \A conn \in Conn : Registered(conn) =>
        /\ conn[2] <= session[conn[1]]
        /\ Listening(conn) => inbox[conn[1]] = 0

LEMMA RegistryInit == Init => Quiet /\ Registry
<1>1. DOMAIN << >> = {}
  BY EmptySeq, LenProperties
<1> QED BY <1>1 DEF Init, Quiet, Registry, Registered

LEMMA QuietStep ==
    ASSUME Inv, Quiet, [Next]_vars
    PROVE  Quiet'
<1> USE DEF Inv, TypeOK, Quiet
<1>1. CASE ServerStart \/ ServerStop \/ ListenFail \/ ServerExit \/ ServerCrash
  BY <1>1
  DEF ServerStart, ServerStop, tcp_server_accept, ListenFail, ServerExit, ServerCrash, ProcessGone,
      workerVars, clientVars
<1>2. CASE Accept \/ server_assign_run \/ \E m \in threads : HandleNewWorker(m) \/ HandleFinishedRun(m)
  BY <1>2
  DEF Accept, tcp_server_accept, server_assign_run, AssignHeads, Listening, HandleNewWorker, HandleFinishedRun,
      workerVars, clientVars
<1>3. CASE \E c \in Clients : ClientNext(c)
  BY <1>3 DEF ClientNext, ClientSend, InsertRun, EnqueueRun, RespondRun, serverVars, workerVars
<1>4. ASSUME NEW w \in Workers, WorkerGone(w)
      PROVE  Quiet'
  BY <1>4 DEF WorkerGone, serverVars, clientVars
<1>5. ASSUME NEW w \in Workers, WorkerNext(w)
      PROVE  Quiet'
  <2>1. CASE WorkerGone(w)
    BY <1>4, <2>1
  <2>2. CASE WorkerStart(w) \/ WorkerSignal(w)
    BY <2>2 DEF WorkerStart, WorkerSignal, serverVars, clientVars
  <2>3. CASE WorkerRegister(w) /\ ~WorkerGone(w)
    BY <2>3 DEF WorkerRegister, clientVars
  <2>4. CASE TakeRun(w)
    BY <2>4 DEF TakeRun, serverVars, clientVars
  <2>5. CASE WorkerRun(w) /\ ~WorkerGone(w)
    BY <2>5 DEF WorkerRun, serverVars, clientVars
  <2>6. CASE WorkerReport(w) /\ ~WorkerGone(w)
    <3>1. /\ wpc[w] = "report" /\ wpc' = [wpc EXCEPT ![w] = "start"]
          /\ wrun' = [wrun EXCEPT ![w] = 0]
          /\ UNCHANGED <<srv, runQueue, clientVars, inbox>>
      BY <2>6 DEF WorkerReport
    <3> QED BY <3>1 DEF clientVars
  <2> QED
    BY <1>5, <2>1, <2>2, <2>3, <2>4, <2>5, <2>6 DEF WorkerNext, WorkerStep, SeeEOF, SeeSignal, WorkerCrash
<1>6. CASE UNCHANGED vars
  BY <1>6 DEF vars, serverVars, workerVars, clientVars
<1> QED
  BY <1>1, <1>2, <1>3, <1>5, <1>6 DEF Next, ServerNext

\* A step that registers nothing, and by which no worker begins to wait.
NothingRegistered ==
    /\ \A m \in backlog' \union threads' : m.method = "new-worker" =>
        m \in backlog \union threads /\ ~(m \in backlog' /\ m \in threads')
    /\ workerQueue' \in {workerQueue, << >>}
    /\ session' = session
    /\ \A w \in Workers :
        wpc'[w] = "waiting" => wpc[w] = "waiting" /\ inbox'[w] \in {inbox[w], 0}

LEMMA NothingRegisteredKeeps ==
    ASSUME Registry, NothingRegistered
    PROVE  /\ Registry'
           /\ \A conn \in Conn : Registered(conn)' => Registered(conn)
<1>1. DOMAIN << >> = {}
  BY EmptySeq, LenProperties
<1>2. \A conn \in Conn : Registered(conn)' => Registered(conn)
  BY <1>1 DEF NothingRegistered, Registered
<1>3. \A conn \in Conn : conn[1] \in Workers
  BY DEF Conn
<1>4. \A conn \in Conn : Registered(conn)' =>
        conn[2] <= session'[conn[1]] /\ (Listening(conn)' => inbox'[conn[1]] = 0)
  BY <1>2, <1>3 DEF NothingRegistered, Registry, Listening
<1>5. \A i, j \in DOMAIN workerQueue' : workerQueue'[i] = workerQueue'[j] => i = j
  BY <1>1 DEF NothingRegistered, Registry
<1>6. \A m \in backlog' \union threads' : m.method = "new-worker" =>
        /\ m = request_new_worker(m.conn)
        /\ ~(m \in backlog' /\ m \in threads')
        /\ \A i \in DOMAIN workerQueue' : workerQueue'[i] # m.conn
  BY <1>1 DEF NothingRegistered, Registry
<1> QED BY <1>2, <1>4, <1>5, <1>6 DEF Registry, request_new_worker

\* server_assign_run: the head of the worker queue is registered no more.
LEMMA AssignRegistry ==
    ASSUME Inv, Registry, server_assign_run
    PROVE  /\ Registry'
           /\ \A conn \in Conn : Registered(conn)' => Registered(conn)
<1>1. /\ workerQueue \in Seq(Conn) /\ workerQueue # << >> /\ workerQueue' = Tail(workerQueue)
      /\ UNCHANGED <<backlog, threads, wpc, session>>
  BY DEF Inv, TypeOK, server_assign_run, AssignHeads
<1>2. /\ Len(workerQueue) \in Nat /\ DOMAIN workerQueue = 1 .. Len(workerQueue)
      /\ DOMAIN workerQueue' = 1 .. Len(workerQueue) - 1
      /\ \A i \in 1 .. Len(workerQueue) - 1 : workerQueue'[i] = workerQueue[i + 1]
      /\ 1 \in DOMAIN workerQueue /\ Head(workerQueue) = workerQueue[1] /\ workerQueue[1] \in Conn
  BY <1>1, HeadTailProperties, LenProperties, ElementOfSeq, EmptySeq
<1> DEFINE head == Head(workerQueue)
<1>3. \A i \in DOMAIN workerQueue' : i + 1 \in DOMAIN workerQueue /\ workerQueue'[i] = workerQueue[i + 1]
  BY <1>2
<1>4. \A i, j \in DOMAIN workerQueue' : workerQueue'[i] = workerQueue'[j] => i = j
  <2> SUFFICES ASSUME NEW i \in DOMAIN workerQueue', NEW j \in DOMAIN workerQueue',
                      workerQueue'[i] = workerQueue'[j]
               PROVE  i = j
    OBVIOUS
  <2>1. i + 1 = j + 1
    BY <1>3 DEF Registry
  <2> QED BY <1>2, <2>1
<1>5. \A m \in backlog' \union threads' : m.method = "new-worker" =>
        /\ m = request_new_worker(m.conn)
        /\ ~(m \in backlog' /\ m \in threads')
        /\ \A i \in DOMAIN workerQueue' : workerQueue'[i] # m.conn
  BY <1>1, <1>3 DEF Registry
<1>6. \A conn \in Conn : Registered(conn)' => Registered(conn) /\ conn # head
  <2> SUFFICES ASSUME NEW conn \in Conn, Registered(conn)'
               PROVE  Registered(conn) /\ conn # head
    OBVIOUS
  <2>1. CASE \E m \in backlog \union threads : m.conn = conn /\ m.method = "new-worker"
    BY <1>2, <2>1 DEF Registered, Registry
  <2>2. CASE \E i \in DOMAIN workerQueue' : workerQueue'[i] = conn
    <3>1. PICK i \in DOMAIN workerQueue' : workerQueue'[i] = conn
      BY <2>2
    <3>2. i + 1 \in DOMAIN workerQueue /\ workerQueue[i + 1] = conn /\ i + 1 # 1
      BY <1>2, <1>3, <3>1
    <3> QED BY <1>2, <3>2 DEF Registered, Registry
  <2> QED BY <1>1, <2>1, <2>2 DEF Registered
<1>7. Registered(head)
  BY <1>2 DEF Registered
<1>8. \A w \in Workers : inbox'[w] = inbox[w] \/ (Listening(head) /\ w = head[1])
  BY DEF server_assign_run, AssignHeads, Inv, TypeOK
<1>9. \A conn \in Conn : Registered(conn)' =>
        conn[2] <= session'[conn[1]] /\ (Listening(conn)' => inbox'[conn[1]] = 0)
  <2> SUFFICES ASSUME NEW conn \in Conn, Registered(conn)'
               PROVE  conn[2] <= session'[conn[1]] /\ (Listening(conn)' => inbox'[conn[1]] = 0)
    OBVIOUS
  <2>1. /\ Registered(conn) /\ conn # head /\ head \in Conn
        /\ conn[2] <= session[conn[1]] /\ (Listening(conn) => inbox[conn[1]] = 0)
    BY <1>2, <1>6 DEF Registry
  <2>2. Listening(conn)' = Listening(conn)
    BY <1>1 DEF Listening
  <2>3. Listening(conn) /\ Listening(head) => conn[1] # head[1]
    <3>1. conn = <<conn[1], conn[2]>> /\ head = <<head[1], head[2]>>
      BY <2>1 DEF Conn
    <3> QED BY <2>1, <3>1 DEF Listening
  <2>4. conn[1] \in Workers
    BY DEF Conn
  <2> QED BY <1>1, <1>8, <2>1, <2>2, <2>3, <2>4
<1> QED BY <1>4, <1>5, <1>6, <1>9 DEF Registry, request_new_worker

\* server_enqueue_worker: from a client thread to the end of the worker queue.
LEMMA NewWorkerRegistry ==
    ASSUME Inv, Registry, NEW m \in threads, HandleNewWorker(m)
    PROVE  /\ Registry'
           /\ \A conn \in Conn : Registered(conn)' => Registered(conn)
<1>1. /\ m.method = "new-worker" /\ m = request_new_worker(m.conn) /\ m \notin backlog
      /\ threads' = threads \ {m} /\ m.conn \in Conn
      /\ UNCHANGED <<backlog, wpc, session, inbox>>
  BY DEF Registry, HandleNewWorker, Inv, TypeOK, Request, workerVars
<1>2. \/ workerQueue' = workerQueue
      \/ workerQueue' = Append(workerQueue, m.conn)
  BY DEF HandleNewWorker
<1>3. /\ workerQueue \in Seq(Conn) /\ Len(workerQueue) \in Nat
      /\ DOMAIN workerQueue = 1 .. Len(workerQueue)
  BY LenProperties DEF Inv, TypeOK
<1>4. \A i \in DOMAIN workerQueue' :
        \/ i \in DOMAIN workerQueue /\ workerQueue'[i] = workerQueue[i]
        \/ i = Len(workerQueue) + 1 /\ workerQueue'[i] = m.conn
  BY <1>1, <1>2, <1>3, AppendProperties, LenProperties
<1>5. \A n \in backlog' \union threads' : n.method = "new-worker" =>
        n \in backlog \union threads /\ n.conn # m.conn
  BY <1>1 DEF Registry
<1>6. \A i \in DOMAIN workerQueue : workerQueue[i] # m.conn
  BY <1>1 DEF Registry
<1>7. \A i, j \in DOMAIN workerQueue' : workerQueue'[i] = workerQueue'[j] => i = j
  BY <1>4, <1>6 DEF Registry
<1>8. \A n \in backlog' \union threads' : n.method = "new-worker" =>
        /\ n = request_new_worker(n.conn)
        /\ ~(n \in backlog' /\ n \in threads')
        /\ \A i \in DOMAIN workerQueue' : workerQueue'[i] # n.conn
  BY <1>1, <1>4, <1>5 DEF Registry
<1>9. \A conn \in Conn : Registered(conn)' => Registered(conn)
  BY <1>1, <1>4, <1>5 DEF Registered
<1>10. \A conn \in Conn : Registered(conn)' =>
        conn[2] <= session'[conn[1]] /\ (Listening(conn)' => inbox'[conn[1]] = 0)
  BY <1>1, <1>9 DEF Registry, Listening
<1> QED BY <1>7, <1>8, <1>9, <1>10 DEF Registry, request_new_worker

\* worker_get_run: a connection nobody has seen before.
LEMMA RegisterRegistry ==
    ASSUME Inv, Quiet, Registry, NEW w \in Workers, WorkerRegister(w), ~WorkerGone(w)
    PROVE  /\ Registry'
           /\ \A conn \in Conn : Registered(conn)' => Registered(conn) \/ conn = <<w, session[w] + 1>>
<1> DEFINE new == <<w, session[w] + 1>>
<1>1. /\ wpc[w] = "start" /\ wpc' = [wpc EXCEPT ![w] = "waiting"]
      /\ session' = [session EXCEPT ![w] = session[w] + 1]
      /\ backlog' = backlog \union {request_new_worker(new)}
      /\ UNCHANGED <<threads, workerQueue, inbox>>
  BY DEF WorkerRegister
<1>2. /\ new \in Conn /\ session[w] \in Nat /\ inbox[w] = 0
      /\ \A v \in Workers : session[v] \in Nat
      /\ \A conn \in Conn : conn = <<conn[1], conn[2]>> /\ conn[1] \in Workers /\ conn[2] \in Nat
  BY <1>1 DEF Inv, TypeOK, Conn, Quiet
<1>3. ~Registered(new)
  <2>1. new[2] > session[new[1]]
    BY <1>2
  <2> QED BY <1>2, <2>1 DEF Registry
<1>4. /\ request_new_worker(new).conn = new
      /\ request_new_worker(new).method = "new-worker"
  BY DEF request_new_worker
<1>5. \A conn \in Conn : Registered(conn)' => Registered(conn) \/ conn = new
  BY <1>1, <1>4 DEF Registered
<1>6. \A m \in backlog' \union threads' : m.method = "new-worker" =>
        /\ m = request_new_worker(m.conn)
        /\ ~(m \in backlog' /\ m \in threads')
        /\ \A i \in DOMAIN workerQueue' : workerQueue'[i] # m.conn
  <2>1. request_new_worker(new) \notin threads /\ \A i \in DOMAIN workerQueue : workerQueue[i] # new
    BY <1>3, <1>4 DEF Registered
  <2> HIDE DEF new
  <2> QED BY <1>1, <1>4, <2>1 DEF Registry
<1>7. \A conn \in Conn : Registered(conn)' =>
        conn[2] <= session'[conn[1]] /\ (Listening(conn)' => inbox'[conn[1]] = 0)
  <2> SUFFICES ASSUME NEW conn \in Conn, Registered(conn)'
               PROVE  conn[2] <= session'[conn[1]] /\ (Listening(conn)' => inbox'[conn[1]] = 0)
    OBVIOUS
  <2>1. CASE conn[1] = w
    <3>1. session'[w] = session[w] + 1 /\ inbox'[w] = 0
      BY <1>1, <1>2 DEF Inv, TypeOK
    <3>2. conn[2] <= session[w] \/ conn = new
      BY <1>5, <2>1 DEF Registry
    <3> QED BY <1>2, <2>1, <3>1, <3>2
  <2>2. CASE conn[1] # w
    <3>1. Registered(conn)
      BY <1>5, <2>2
    <3>2. session'[conn[1]] = session[conn[1]] /\ wpc'[conn[1]] = wpc[conn[1]]
      BY <1>1, <1>2, <2>2 DEF Inv, TypeOK
    <3> QED BY <1>1, <3>1, <3>2 DEF Registry, Listening
  <2> QED BY <2>1, <2>2
<1> QED BY <1>1, <1>5, <1>6, <1>7 DEF Registry, request_new_worker

LEMMA RegistryStep ==
    ASSUME Inv, Quiet, Registry, [Next]_vars
    PROVE  /\ Registry'
           /\ \A conn \in Conn : Registered(conn)' =>
                \/ Registered(conn)
                \/ \E w \in Workers : WorkerRegister(w) /\ ~WorkerGone(w) /\ conn = <<w, session[w] + 1>>
<1> USE DEF NothingRegistered
<1>1. ASSUME ServerStart \/ ServerExit \/ ServerCrash \/ \E m \in threads : HandleFinishedRun(m)
      PROVE  NothingRegistered
  BY <1>1 DEF ServerStart, ServerExit, ServerCrash, ProcessGone, HandleFinishedRun, workerVars, Registry
<1>2. ASSUME Accept \/ ServerStop \/ ListenFail
      PROVE  NothingRegistered
  BY <1>2 DEF Accept, ServerStop, ListenFail, tcp_server_accept, workerVars, Registry
<1>3. ASSUME NEW c \in Clients, ClientNext(c)
      PROVE  NothingRegistered
  BY <1>3 DEF ClientNext, ClientSend, InsertRun, EnqueueRun, RespondRun, serverVars, workerVars, Registry
<1>4. ASSUME NEW w \in Workers, WorkerGone(w)
      PROVE  NothingRegistered
  BY <1>4 DEF WorkerGone, serverVars, Registry, Inv, TypeOK
<1>5. ASSUME NEW w \in Workers, WorkerStart(w) \/ WorkerSignal(w) \/ TakeRun(w) \/ (WorkerRun(w) /\ ~WorkerGone(w))
      PROVE  NothingRegistered
  BY <1>5 DEF WorkerStart, WorkerSignal, TakeRun, WorkerRun, serverVars, Registry, Inv, TypeOK
<1>6. ASSUME NEW w \in Workers, WorkerReport(w), ~WorkerGone(w)
      PROVE  NothingRegistered
  <2>1. /\ backlog' = backlog \union {request_finished_run(<<w, session[w]>>, wrun[w], wec[w])}
        /\ wpc' = [wpc EXCEPT ![w] = "start"]
        /\ UNCHANGED <<workerQueue, threads, session, inbox>>
    BY <1>6 DEF WorkerReport
  <2>2. request_finished_run(<<w, session[w]>>, wrun[w], wec[w]).method # "new-worker"
    BY DEF request_finished_run
  <2> QED BY <2>1, <2>2 DEF Registry, Inv, TypeOK
<1>7. ASSUME UNCHANGED vars
      PROVE  NothingRegistered
  BY <1>7 DEF vars, serverVars, workerVars, Registry
<1> HIDE DEF NothingRegistered
<1>8. ASSUME NEW w \in Workers, WorkerNext(w)
      PROVE  /\ Registry'
             /\ \A conn \in Conn : Registered(conn)' =>
                \/ Registered(conn)
                \/ WorkerRegister(w) /\ ~WorkerGone(w) /\ conn = <<w, session[w] + 1>>
  BY <1>4, <1>5, <1>6, <1>8, NothingRegisteredKeeps, RegisterRegistry
  DEF WorkerNext, WorkerStep, SeeEOF, SeeSignal, WorkerCrash
<1> QED
  BY <1>1, <1>2, <1>3, <1>7, <1>8, NothingRegisteredKeeps, AssignRegistry, NewWorkerRegistry
  DEF Next, ServerNext

-----------------------------------------------------------------------------
(* Who lets go of a run *)

\* What RunNotDropped allows.
Excused(id) ==
    \/ srv # "down" /\ srv' = "down"
    \/ \E w \in Workers : id \in HeldByWorker(w) /\ wpc'[w] = "down"
    \/ /\ id \in Queued /\ workerQueue # << >>
       /\ id = Head(runQueue) /\ ~Listening(Head(workerQueue))
    \/ id \in Reported /\ threads' # threads /\ disruptions' > disruptions
    \/ srv = "up" /\ srv' = "deaf"

\* The parts, where their variables stay.
LEMMA SameParts ==
    /\ runQueue' = runQueue => Queued' = Queued
    /\ backlog' \union threads' = backlog \union threads => Reported' = Reported
    /\ \A w \in Workers : inbox'[w] = inbox[w] /\ wrun'[w] = wrun[w] => HeldByWorker(w)' = HeldByWorker(w)
    /\ (\A c \in Clients : crun'[c] = crun[c] /\ (cpc'[c] = "inserted" <=> cpc[c] = "inserted"))
            => BeingQueued' = BeingQueued
<1>1. runQueue' = runQueue => Queued' = Queued
  BY DEF Queued
<1>2. backlog' \union threads' = backlog \union threads => Reported' = Reported
  BY DEF Reported
<1>3. \A w \in Workers : inbox'[w] = inbox[w] /\ wrun'[w] = wrun[w] => HeldByWorker(w)' = HeldByWorker(w)
  BY DEF HeldByWorker
<1>4. (\A c \in Clients : crun'[c] = crun[c] /\ (cpc'[c] = "inserted" <=> cpc[c] = "inserted"))
            => BeingQueued' = BeingQueued
  BY DEF BeingQueued
<1> QED BY <1>1, <1>2, <1>3, <1>4

LEMMA SameHeld ==
    ASSUME runQueue' = runQueue,
           Reported \subseteq Reported',
           UNCHANGED <<inbox, wrun>>,
           \A c \in Clients : crun'[c] = crun[c] /\ (cpc'[c] = "inserted" <=> cpc[c] = "inserted")
    PROVE  Held \subseteq Held'
  BY SameParts DEF Held

\* The server's process, outside its handlers.
LEMMA ServerDrops ==
    ASSUME Inv, Quiet,
           ServerStart \/ Accept \/ ServerStop \/ ListenFail \/ ServerExit \/ ServerCrash
    PROVE  Held \subseteq Held' \/ (srv # "down" /\ srv' = "down") \/ (srv = "up" /\ srv' = "deaf")
<1>1. CASE ServerStart
  <2>1. runQueue' = runQueue
    BY <1>1, NothingRecovered DEF ServerStart, Inv, Quiet
  <2>2. UNCHANGED <<backlog, threads, cpc, crun, inbox, wrun>>
    BY <1>1 DEF ServerStart, clientVars, workerVars
  <2> QED BY <2>1, <2>2, SameParts, SameHeld
<1>2. CASE Accept \/ ServerStop
  <2>1. UNCHANGED <<runQueue, crun, inbox, wrun>>
    BY <1>2 DEF Accept, ServerStop, workerVars
  <2>2. backlog' \union threads' = backlog \union threads
    BY <1>2 DEF Accept, ServerStop, tcp_server_accept
  <2>3. \A c \in Clients : cpc'[c] = "inserted" <=> cpc[c] = "inserted"
    BY <1>2 DEF Accept, ServerStop, tcp_server_accept, Inv, TypeOK
  <2> QED BY <2>1, <2>2, <2>3, SameParts, SameHeld
<1>3. CASE ListenFail \/ ServerExit \/ ServerCrash
  BY <1>3 DEF ListenFail, ServerExit, ServerCrash, ProcessGone
<1> QED BY <1>1, <1>2, <1>3

\* server_assign_run: a run is lost only to a worker that no longer listens.
LEMMA AssignDrops ==
    ASSUME Inv, Registry, server_assign_run, NEW id \in Held \ Held'
    PROVE  /\ id \in Queued /\ workerQueue # << >>
           /\ id = Head(runQueue) /\ ~Listening(Head(workerQueue))
<1> DEFINE head == Head(workerQueue)
<1>1. /\ runQueue \in Seq(Nat) /\ runQueue # << >> /\ workerQueue \in Seq(Conn) /\ workerQueue # << >>
      /\ UNCHANGED <<backlog, threads, cpc, crun, wrun>>
  BY DEF Inv, TypeOK, server_assign_run, AssignHeads, clientVars
<1>2. BeingQueued' = BeingQueued /\ Reported' = Reported
  BY <1>1, SameParts
<1>3. head \in Conn /\ head[1] \in Workers /\ Registered(head)
  <2>1. 1 \in DOMAIN workerQueue /\ head = workerQueue[1] /\ head \in Conn
    BY <1>1, HeadTailProperties, LenProperties, ElementOfSeq, EmptySeq
  <2> QED BY <2>1 DEF Registered, Conn
<1>4. Listening(head) => inbox[head[1]] = 0
  BY <1>3 DEF Registry
<1>5. \A w \in Workers : HeldByWorker(w) \subseteq HeldByWorker(w)'
  <2> TAKE w \in Workers
  <2>1. wrun'[w] = wrun[w] /\ (inbox'[w] = inbox[w] \/ inbox[w] = 0)
    BY <1>1, <1>4 DEF server_assign_run, AssignHeads, Inv, TypeOK
  <2> QED BY <2>1 DEF HeldByWorker
<1>6. id \in Queued /\ id \notin Queued'
  BY <1>2, <1>5 DEF Held
<1>7. /\ DOMAIN runQueue = 1 .. Len(runQueue) /\ Len(runQueue) \in Nat
      /\ DOMAIN Tail(runQueue) = 1 .. Len(runQueue) - 1
      /\ \A k \in 1 .. Len(runQueue) - 1 : Tail(runQueue)[k] = runQueue[k + 1]
      /\ Head(runQueue) = runQueue[1] /\ 1 \in DOMAIN runQueue
  BY <1>1, HeadTailProperties, LenProperties, EmptySeq
<1>8. runQueue' = Tail(runQueue)
  <2>1. runQueue' # runQueue
    BY <1>6 DEF Queued
  <2> QED BY <1>1, <2>1, RequeueHead DEF server_assign_run, AssignHeads
<1>9. id = Head(runQueue)
  <2>1. PICK k \in DOMAIN runQueue : runQueue[k] = id
    BY <1>6 DEF Queued
  <2>2. CASE k = 1
    BY <1>7, <2>1, <2>2
  <2>3. CASE k # 1
    <3>1. k - 1 \in DOMAIN runQueue' /\ runQueue'[k - 1] = id
      BY <1>7, <1>8, <2>1, <2>3
    <3> QED BY <1>6, <3>1 DEF Queued
  <2> QED BY <2>2, <2>3
<1>10. ~Listening(head)
  <2> SUFFICES ASSUME Listening(head) PROVE FALSE
    OBVIOUS
  <2>1. runQueue' # <<Head(runQueue)>> \o Tail(runQueue)
    BY <1>1, <1>6, RequeueHead DEF Queued
  <2>2. inbox' = [inbox EXCEPT ![head[1]] = Head(runQueue)]
    BY <2>1 DEF server_assign_run, AssignHeads
  <2>3. PICK w \in Workers : w = head[1]
    BY <1>3
  <2>4. inbox'[w] = id
    BY <1>9, <2>2, <2>3 DEF Inv, TypeOK
  <2>5. id # 0
    BY <1>6, KnownIds DEF Queued, Inv, Custody, IdsExist
  <2>6. id \in HeldByWorker(w)'
    BY <2>4, <2>5 DEF HeldByWorker
  <2> QED BY <2>6 DEF Held
<1> QED BY <1>1, <1>6, <1>9, <1>10

\* The handlers: a report is let go of when its row is finished, or when that
\* failed.
LEMMA HandlerDrops ==
    ASSUME Inv, NEW m \in threads, HandleNewWorker(m) \/ HandleFinishedRun(m),
           NEW id \in (Held \ Held') \intersect DOMAIN db', db'[id].status = CREATED
    PROVE  id \in Reported /\ threads' # threads /\ disruptions' > disruptions
<1>1. /\ threads' = threads \ {m} /\ UNCHANGED <<runQueue, backlog, cpc, crun, inbox, wrun>>
  BY DEF HandleNewWorker, HandleFinishedRun, clientVars, workerVars
<1>2. id \in Reported /\ id \notin Reported'
  BY <1>1, SameParts DEF Held
<1>3. m.method = "finished-run" /\ id = m.run
  BY <1>1, <1>2 DEF Reported
<1>4. HandleFinishedRun(m)
  BY <1>3 DEF HandleNewWorker
<1>5. CASE storage_run_finished(m.run, m.exit_code)
  <2>1. id \in DOMAIN db
    BY <1>5 DEF storage_run_finished
  <2>2. db'[id].status = FINISHED
    BY <1>3, <1>5, <2>1 DEF storage_run_finished
  <2> QED BY <2>2 DEF CREATED, FINISHED
<1>6. CASE Disrupt
  BY <1>1, <1>2, <1>6 DEF Disrupt, Inv, TypeOK
<1> QED BY <1>4, <1>5, <1>6 DEF HandleFinishedRun

\* A client and its thread let go of nothing.
LEMMA ClientDrops ==
    ASSUME Inv, NEW c \in Clients, ClientNext(c)
    PROVE  Held \subseteq Held'
<1>1. CASE ClientSend(c) \/ RespondRun(c)
  <2>1. /\ UNCHANGED <<runQueue, backlog, threads, crun, inbox, wrun>>
        /\ \A d \in Clients : cpc'[d] = "inserted" <=> cpc[d] = "inserted"
    BY <1>1 DEF ClientSend, RespondRun, serverVars, workerVars, Inv, TypeOK
  <2> QED BY <2>1, SameParts, SameHeld
<1>2. CASE InsertRun(c)
  <2>1. UNCHANGED <<runQueue, backlog, threads, inbox, wrun>>
    BY <1>2 DEF InsertRun, serverVars, workerVars
  <2>2. \A d \in Clients : cpc[d] = "inserted" => cpc'[d] = "inserted" /\ crun'[d] = crun[d]
    BY <1>2 DEF InsertRun, Inv, TypeOK
  <2>3. BeingQueued \subseteq BeingQueued'
    BY <2>2 DEF BeingQueued
  <2> QED BY <2>1, <2>3, SameParts DEF Held
<1>3. CASE EnqueueRun(c)
  <2>1. /\ UNCHANGED <<backlog, threads, crun, inbox, wrun>>
        /\ runQueue \in Seq(Nat) /\ crun[c] \in Nat /\ runQueue' = Append(runQueue, crun[c])
    BY <1>3 DEF EnqueueRun, workerVars, Inv, TypeOK
  <2>2. /\ DOMAIN runQueue \subseteq DOMAIN runQueue' /\ Len(runQueue) + 1 \in DOMAIN runQueue'
        /\ \A k \in DOMAIN runQueue : runQueue'[k] = runQueue[k]
        /\ runQueue'[Len(runQueue) + 1] = crun[c]
    BY <2>1, AppendProperties, LenProperties
  <2>3. Queued \subseteq Queued' /\ crun[c] \in Queued'
    BY <2>2 DEF Queued
  <2>4. \A d \in Clients : d # c /\ cpc[d] = "inserted" => cpc'[d] = "inserted" /\ crun'[d] = crun[d]
    BY <1>3 DEF EnqueueRun, Inv, TypeOK
  <2>5. BeingQueued \subseteq BeingQueued' \union {crun[c]}
    BY <2>4 DEF BeingQueued
  <2> QED BY <2>1, <2>3, <2>5, SameParts DEF Held
<1> QED BY <1>1, <1>2, <1>3 DEF ClientNext

\* A worker's exit loses what that worker had.
LEMMA GoneDrops ==
    ASSUME Inv, NEW w \in Workers, WorkerGone(w), NEW id \in Held \ Held'
    PROVE  id \in HeldByWorker(w) /\ wpc'[w] = "down"
<1>1. /\ UNCHANGED <<runQueue, backlog, threads, cpc, crun>> /\ wpc'[w] = "down"
      /\ \A v \in Workers : v # w => inbox'[v] = inbox[v] /\ wrun'[v] = wrun[v]
  BY DEF WorkerGone, serverVars, clientVars, Inv, TypeOK
<1>2. Queued' = Queued /\ BeingQueued' = BeingQueued /\ Reported' = Reported
  BY <1>1, SameParts
<1>3. \A v \in Workers : v # w => HeldByWorker(v)' = HeldByWorker(v)
  BY <1>1, SameParts
<1> QED BY <1>1, <1>2, <1>3 DEF Held

\* Otherwise a worker lets go of nothing.
LEMMA WorkerDrops ==
    ASSUME Inv, Quiet, NEW w \in Workers, WorkerNext(w), ~WorkerGone(w)
    PROVE  Held \subseteq Held'
<1>1. CASE WorkerStart(w) \/ WorkerSignal(w) \/ WorkerRun(w)
  <2>1. UNCHANGED <<runQueue, backlog, threads, cpc, crun, inbox, wrun>>
    BY <1>1 DEF WorkerStart, WorkerSignal, WorkerRun, serverVars, clientVars
  <2> QED BY <2>1, SameParts, SameHeld
<1>2. CASE WorkerRegister(w)
  <2>1. /\ UNCHANGED <<runQueue, threads, cpc, crun, inbox, wrun>>
        /\ backlog \subseteq backlog'
    BY <1>2 DEF WorkerRegister, clientVars
  <2>2. Reported \subseteq Reported'
    BY <2>1 DEF Reported
  <2> QED BY <2>1, <2>2, SameHeld
<1>3. CASE TakeRun(w)
  <2>1. /\ UNCHANGED <<runQueue, backlog, threads, cpc, crun>>
        /\ wrun[w] = 0 /\ wrun'[w] = inbox[w]
        /\ \A v \in Workers : v # w => inbox'[v] = inbox[v] /\ wrun'[v] = wrun[v]
    BY <1>3 DEF TakeRun, Quiet, serverVars, clientVars, Inv, TypeOK
  <2>2. HeldByWorker(w) \subseteq HeldByWorker(w)'
    BY <2>1 DEF HeldByWorker
  <2>3. \A v \in Workers : v # w => HeldByWorker(v)' = HeldByWorker(v)
    BY <2>1, SameParts
  <2> QED BY <2>1, <2>2, <2>3, SameParts DEF Held
<1>4. CASE WorkerReport(w)
  <2> DEFINE report == request_finished_run(<<w, session[w]>>, wrun[w], wec[w])
  <2>1. /\ UNCHANGED <<runQueue, threads, cpc, crun, inbox>>
        /\ backlog' = backlog \union {report}
        /\ wpc[w] = "report"
        /\ wrun' = [wrun EXCEPT ![w] = 0]
    BY <1>4 DEF WorkerReport, clientVars
  <2>2. report.method = "finished-run" /\ report.run = wrun[w]
    BY DEF request_finished_run
  <2> HIDE DEF report
  <2>3. Reported \subseteq Reported' /\ wrun[w] \in Reported'
    BY <2>1, <2>2 DEF Reported
  <2>4. HeldByWorker(w) \subseteq {wrun[w]}
    BY <2>1 DEF HeldByWorker, Quiet
  <2>5. \A v \in Workers : v # w => HeldByWorker(v)' = HeldByWorker(v)
    <3>1. \A v \in Workers : v # w => inbox'[v] = inbox[v] /\ wrun'[v] = wrun[v]
      BY <2>1 DEF Inv, TypeOK
    <3> QED BY <3>1, SameParts
  <2>6. Queued' = Queued /\ BeingQueued' = BeingQueued
    BY <2>1, SameParts
  <2> QED BY <2>3, <2>4, <2>5, <2>6 DEF Held
<1> QED
  BY <1>1, <1>2, <1>3, <1>4 DEF WorkerNext, WorkerStep, SeeEOF, SeeSignal, WorkerCrash

\* RunNotDropped's step.
LEMMA Drops ==
    ASSUME Inv, Quiet, Registry, [Next]_vars, NEW id \in (Held \ Held') \intersect DOMAIN db',
           db'[id].status = CREATED
    PROVE  Excused(id)
<1>1. CASE ServerStart \/ Accept \/ ServerStop \/ ListenFail \/ ServerExit \/ ServerCrash
  BY <1>1, ServerDrops DEF Excused
<1>2. CASE server_assign_run
  BY <1>2, AssignDrops DEF Excused
<1>3. CASE \E m \in threads : HandleNewWorker(m) \/ HandleFinishedRun(m)
  BY <1>3, HandlerDrops DEF Excused
<1>4. CASE \E c \in Clients : ClientNext(c)
  BY <1>4, ClientDrops
<1>5. CASE \E w \in Workers : WorkerNext(w)
  BY <1>5, GoneDrops, WorkerDrops DEF Excused
<1>6. CASE UNCHANGED vars
  <2>1. UNCHANGED <<runQueue, backlog, threads, cpc, crun, inbox, wrun>>
    BY <1>6 DEF vars, serverVars, clientVars, workerVars
  <2> QED BY <2>1, SameParts, SameHeld
<1> QED BY <1>1, <1>2, <1>3, <1>4, <1>5, <1>6 DEF Next, ServerNext

\* RunNotDropped: an unfinished run is let go of only by a process that exits,
\* a send to a worker that no longer listens (server_assign_run), a result that
\* cannot be stored (server_handle_cmd_finished_run), or a connection that is
\* closed unread.
THEOREM NoRunDropped == Spec => RunNotDropped
<1> DEFINE Let == \A id \in (Held \ Held') \intersect DOMAIN db' : db'[id].status = CREATED => Excused(id)
<1>1. Init => Inv /\ Quiet /\ Registry
  BY InitCustody, RegistryInit
<1>2. Inv /\ Quiet /\ Registry /\ [Next]_vars => (Inv /\ Quiet /\ Registry)'
  BY InvStep, QuietStep, RegistryStep
<1>3. Inv /\ Quiet /\ Registry /\ [Next]_vars => [Let]_vars
  BY Drops
<1>4. Spec => [][Let]_vars
  BY <1>1, <1>2, <1>3, PTL DEF Spec
<1> QED BY <1>4 DEF RunNotDropped, Excused

-----------------------------------------------------------------------------
(* Nothing is lost without a failure *)

\* As long as nothing failed, the server has not ended, nobody was signalled,
\* and a registered worker waits for its run.
Untroubled ==
    disruptions = 0 =>
        /\ srv \in {"down", "up"}
        /\ srv = "down" => db = << >>
        /\ \A w \in Workers : ~wsig[w]
        /\ \A conn \in Conn : Registered(conn) => Listening(conn)

LEMMA UntroubledInit == Init => Untroubled /\ LossNeedsDisruption
<1>1. DOMAIN << >> = {}
  BY EmptySeq, LenProperties
<1> QED BY <1>1 DEF Init, Untroubled, Registered, LossNeedsDisruption

\* A step after which nothing has failed yet.
LEMMA NoFailure ==
    ASSUME TypeOK, [Next]_vars, disruptions' = 0
    PROVE  disruptions = 0 /\ ~Disrupt
<1>1. disruptions \in Nat /\ ~Disrupt
  BY DEF TypeOK, Disrupt
<1>2. Calm
  <2>1. CASE ServerNext
    BY <1>1, <2>1
    DEF ServerNext, ServerStart, Accept, ServerStop, ListenFail, ServerExit, ServerCrash,
        server_assign_run, AssignHeads, HandleNewWorker, HandleFinishedRun, Calm
  <2>2. CASE \E c \in Clients : ClientNext(c)
    BY <1>1, <2>2
    DEF ClientNext, ClientSend, InsertRun, EnqueueRun, RespondRun, Unreachable, Calm,
        storage_run_create, Inserts
  <2>3. CASE \E w \in Workers : WorkerNext(w)
    BY <1>1, <2>3
    DEF WorkerNext, WorkerStep, WorkerStart, WorkerRegister, TakeRun, SeeEOF, SeeSignal, WorkerRun,
        WorkerReport, WorkerSignal, WorkerCrash, Unreachable, Calm
  <2>4. CASE UNCHANGED vars
    BY <2>4 DEF vars, Calm
  <2> QED BY <2>1, <2>2, <2>3, <2>4 DEF Next
<1> QED BY <1>1, <1>2 DEF Calm

\* The server's process: it starts, and does not end.
LEMMA UntroubledServer ==
    ASSUME Inv, Quiet, Untroubled, [Next]_vars, disruptions' = 0
    PROVE  /\ srv' \in {"down", "up"} /\ (srv' = "down" => srv = "down" /\ db' = << >>)
           /\ \A w \in Workers : ~wsig'[w]
<1>1. disruptions = 0 /\ ~Disrupt
  BY NoFailure DEF Inv
<1>2. srv \in {"down", "up"} /\ (srv = "down" => db = << >>) /\ \A w \in Workers : ~wsig[w]
  BY <1>1 DEF Untroubled
<1>3. srv' \in {"down", "up"} /\ (srv' = "down" => srv = "down")
  <2>1. CASE ServerNext
    BY <1>1, <1>2, <2>1
    DEF ServerNext, ServerStart, Accept, ServerStop, ListenFail, ServerExit, ServerCrash,
        server_assign_run, AssignHeads, HandleNewWorker, HandleFinishedRun
  <2>2. CASE \E c \in Clients : ClientNext(c)
    BY <1>2, <2>2 DEF ClientNext, ClientSend, InsertRun, EnqueueRun, RespondRun, serverVars
  <2>3. CASE \E w \in Workers : WorkerNext(w)
    BY <1>2, <2>3
    DEF WorkerNext, WorkerStep, WorkerStart, WorkerRegister, TakeRun, SeeEOF, SeeSignal, WorkerRun,
        WorkerReport, WorkerSignal, WorkerCrash, WorkerGone, serverVars
  <2>4. CASE UNCHANGED vars
    BY <1>2, <2>4 DEF vars, serverVars
  <2> QED BY <2>1, <2>2, <2>3, <2>4 DEF Next
<1>4. srv = "down" => db' = << >>
  <2> SUFFICES ASSUME srv = "down" PROVE db' = db
    BY <1>2
  <2>1. ASSUME NEW m \in threads, storage_run_finished(m.run, m.exit_code)
        PROVE  db' = db
    BY <1>2, <2>1 DEF storage_run_finished
  <2> QED BY <2>1, WhoWrites DEF InsertRun, Quiet
<1>5. \A w \in Workers : ~wsig'[w]
  <2>1. CASE ServerNext
    BY <1>2, <2>1
    DEF ServerNext, ServerStart, Accept, ServerStop, ListenFail, ServerExit, ServerCrash, ProcessGone,
        server_assign_run, AssignHeads, HandleNewWorker, HandleFinishedRun, workerVars
  <2>2. CASE \E c \in Clients : ClientNext(c)
    BY <1>2, <2>2 DEF ClientNext, ClientSend, InsertRun, EnqueueRun, RespondRun, workerVars
  <2>3. CASE \E w \in Workers : WorkerNext(w)
    BY <1>1, <1>2, <2>3
    DEF WorkerNext, WorkerStep, WorkerStart, WorkerRegister, TakeRun, SeeEOF, SeeSignal, WorkerRun,
        WorkerReport, WorkerSignal, WorkerCrash, WorkerGone, Inv, TypeOK
  <2>4. CASE UNCHANGED vars
    BY <1>2, <2>4 DEF vars, workerVars
  <2> QED BY <2>1, <2>2, <2>3, <2>4 DEF Next
<1> QED BY <1>3, <1>4, <1>5

\* A worker that is registered goes on waiting.
LEMMA UntroubledWorkers ==
    ASSUME Inv, Quiet, Registry, Untroubled, [Next]_vars, disruptions' = 0,
           NEW conn \in Conn, Registered(conn), Registered(conn)'
    PROVE  Listening(conn)'
<1>1. disruptions = 0 /\ ~Disrupt
  BY NoFailure DEF Inv
<1>2. /\ Listening(conn) /\ inbox[conn[1]] = 0 /\ ~wsig[conn[1]]
      /\ conn = <<conn[1], conn[2]>> /\ conn[1] \in Workers
  BY <1>1 DEF Untroubled, Registry, Conn
<1>3. CASE ServerNext
  BY <1>2, <1>3
  DEF ServerNext, ServerStart, Accept, ServerStop, ListenFail, ServerExit, ServerCrash, ProcessGone,
      server_assign_run, AssignHeads, HandleNewWorker, HandleFinishedRun, workerVars, Listening
<1>4. CASE \E c \in Clients : ClientNext(c)
  BY <1>2, <1>4 DEF ClientNext, ClientSend, InsertRun, EnqueueRun, RespondRun, workerVars, Listening
<1>5. ASSUME NEW w \in Workers, WorkerNext(w)
      PROVE  Listening(conn)'
  <2>1. CASE w = conn[1]
    <3>1. wpc[w] = "waiting" /\ conn = <<w, session[w]>>
      BY <1>2, <2>1 DEF Listening
    <3>2. ~WorkerStep(w)
      BY <1>2, <2>1, <3>1
      DEF WorkerStep, WorkerRegister, TakeRun, SeeEOF, SeeSignal, WorkerRun, WorkerReport
    <3> QED BY <1>1, <1>5, <3>1, <3>2 DEF WorkerNext, WorkerStart, WorkerSignal, WorkerCrash
  <2>2. CASE w # conn[1]
    <3>1. wpc'[conn[1]] = wpc[conn[1]] /\ session'[conn[1]] = session[conn[1]]
      BY <1>2, <1>5, <2>2
      DEF WorkerNext, WorkerStep, WorkerStart, WorkerRegister, TakeRun, SeeEOF, SeeSignal, WorkerRun,
          WorkerReport, WorkerSignal, WorkerCrash, WorkerGone, Inv, TypeOK
    <3> QED BY <1>2, <3>1 DEF Listening
  <2> QED BY <2>1, <2>2
<1>6. CASE UNCHANGED vars
  BY <1>2, <1>6 DEF vars, workerVars, Listening
<1> QED BY <1>3, <1>4, <1>5, <1>6 DEF Next

LEMMA UntroubledStep ==
    ASSUME Inv, Quiet, Registry, Untroubled, [Next]_vars
    PROVE  Untroubled'
<1> SUFFICES ASSUME disruptions' = 0
             PROVE  /\ srv' \in {"down", "up"}
                    /\ srv' = "down" => db' = << >>
                    /\ \A w \in Workers : ~wsig'[w]
                    /\ \A conn \in Conn : Registered(conn)' => Listening(conn)'
  BY DEF Untroubled, Conn
<1>1. ASSUME NEW conn \in Conn, Registered(conn)'
      PROVE  Listening(conn)'
  <2>1. CASE Registered(conn)
    BY <1>1, <2>1, UntroubledWorkers
  <2>2. ASSUME NEW w \in Workers, WorkerRegister(w), ~WorkerGone(w), conn = <<w, session[w] + 1>>
        PROVE  Listening(conn)'
    BY <2>2 DEF WorkerRegister, Listening, Inv, TypeOK
  <2> QED BY <1>1, <2>1, <2>2, RegistryStep
<1> QED BY <1>1, UntroubledServer

\* Until something fails, a worker that has a run does not exit: it sees the end
\* of its connection or a signal only when there is none (worker_main).
LEMMA HoldersStay ==
    ASSUME Inv, Quiet, Untroubled, [Next]_vars, disruptions' = 0,
           NEW w \in Workers, NEW id \in HeldByWorker(w), id \in DOMAIN db
    PROVE  wpc'[w] # "down"
<1> SUFFICES ASSUME wpc'[w] = "down" PROVE FALSE
  OBVIOUS
<1>1. disruptions = 0 /\ ~Disrupt
  BY NoFailure DEF Inv
<1>2. ~wsig[w] /\ srv \notin {"down", "stopping"}
  BY <1>1, EmptySeq, LenProperties DEF Untroubled
<1>3. \/ wpc[w] \in {"running", "report"}
      \/ wpc[w] = "waiting" /\ inbox[w] # 0
  BY DEF Quiet, HeldByWorker, Inv, TypeOK
<1>4. CASE ServerNext
  BY <1>3, <1>4
  DEF ServerNext, ServerStart, Accept, ServerStop, ListenFail, ServerExit, ServerCrash, ProcessGone,
      server_assign_run, AssignHeads, HandleNewWorker, HandleFinishedRun, workerVars
<1>5. CASE \E c \in Clients : ClientNext(c)
  BY <1>3, <1>5 DEF ClientNext, ClientSend, InsertRun, EnqueueRun, RespondRun, workerVars
<1>6. ASSUME NEW v \in Workers, WorkerNext(v)
      PROVE  FALSE
  <2>1. CASE v = w
    <3>1. WorkerStep(w)
      BY <1>1, <1>3, <1>6, <2>1 DEF WorkerNext, WorkerStart, WorkerSignal, WorkerCrash
    <3>2. TakeRun(w) \/ WorkerRun(w) \/ WorkerReport(w)
      BY <1>2, <1>3, <3>1 DEF WorkerStep, WorkerRegister, SeeEOF, SeeSignal
    <3> QED
      BY <1>1, <1>2, <3>2 DEF TakeRun, WorkerRun, WorkerReport, Unreachable, Inv, TypeOK
  <2>2. CASE v # w
    BY <1>3, <1>6, <2>2
    DEF WorkerNext, WorkerStep, WorkerStart, WorkerRegister, TakeRun, SeeEOF, SeeSignal, WorkerRun,
        WorkerReport, WorkerSignal, WorkerCrash, WorkerGone, Inv, TypeOK
  <2> QED BY <2>1, <2>2
<1>7. CASE UNCHANGED vars
  BY <1>3, <1>7 DEF vars, workerVars
<1> QED BY <1>4, <1>5, <1>6, <1>7 DEF Next

\* So nothing excuses the loss of a run.
LEMMA NoExcuse ==
    ASSUME Inv, Quiet, Registry, Untroubled, [Next]_vars, disruptions' = 0,
           NEW id \in DOMAIN db
    PROVE  ~Excused(id)
<1>1. disruptions = 0
  BY NoFailure DEF Inv
<1>2. srv' \in {"down", "up"} /\ (srv' = "down" => srv = "down")
  BY UntroubledServer
<1>3. workerQueue # << >> => Listening(Head(workerQueue))
  <2> SUFFICES ASSUME workerQueue # << >> PROVE Listening(Head(workerQueue))
    OBVIOUS
  <2>1. 1 \in DOMAIN workerQueue /\ Head(workerQueue) = workerQueue[1] /\ workerQueue[1] \in Conn
    BY HeadTailProperties, LenProperties, ElementOfSeq, EmptySeq DEF Inv, TypeOK
  <2> QED BY <1>1, <2>1 DEF Untroubled, Registered
<1> QED BY <1>1, <1>2, <1>3, HoldersStay DEF Excused

\* An insertion leaves the rows there are, and adds one.
LEMMA AppendedRow ==
    ASSUME TypeOK, db' = Append(db, [status |-> CREATED, exit_code |-> -1])
    PROVE  /\ DOMAIN db' = 1 .. Len(db) + 1
           /\ \A id \in DOMAIN db : id \in DOMAIN db' /\ db'[id] = db[id]
<1>1. db \in Seq(Row) /\ DOMAIN db = 1 .. Len(db) /\ Len(db) \in Nat
  BY LenProperties DEF TypeOK
<1>2. [status |-> CREATED, exit_code |-> -1] \in Row
  BY DEF Row
<1>3. db' \in Seq(Row) /\ Len(db') = Len(db) + 1 /\ \A id \in 1 .. Len(db) : db'[id] = db[id]
  BY <1>1, <1>2, AppendProperties
<1>4. DOMAIN db' = 1 .. Len(db) + 1
  BY <1>3, LenProperties
<1> QED BY <1>1, <1>3, <1>4

\* A row that is written holds an unfinished run only if it did, or was added by
\* the thread that is about to queue its run (server_enqueue_run).
LEMMA UnfinishedRows ==
    ASSUME Inv, [Next]_vars, NEW id \in DOMAIN db', db'[id].status = CREATED
    PROVE  (id \in DOMAIN db /\ db[id].status = CREATED) \/ id \in Held'
<1>1. db \in Seq(Row) /\ DOMAIN db = 1 .. Len(db) /\ Len(db) \in Nat
  BY LenProperties DEF Inv, TypeOK
<1>2. CASE id \in DOMAIN db
  <2>1. db[id].status \in {CREATED, FINISHED} /\ CREATED # FINISHED
    <3>1. db[id] \in Row
      BY <1>1, <1>2, ElementOfSeq
    <3> QED BY <3>1 DEF Row, CREATED, FINISHED
  <2>2. db[id].status = FINISHED => db'[id].status = FINISHED
    <3>1. CASE db' = Append(db, [status |-> CREATED, exit_code |-> -1])
      BY <1>2, <3>1, AppendedRow DEF Inv
    <3>2. CASE \E m \in threads : storage_run_finished(m.run, m.exit_code)
      BY <1>2, <3>2 DEF storage_run_finished
    <3> QED BY <3>1, <3>2, WhoWrites
  <2> QED BY <1>2, <2>1, <2>2
<1>3. CASE id \notin DOMAIN db
  <2>1. PICK c \in Clients :
            InsertRun(c) /\ db' = Append(db, [status |-> CREATED, exit_code |-> -1])
    BY <1>3, WhoWrites DEF storage_run_finished
  <2>2. id = Len(db) + 1
    <3>1. DOMAIN db' = 1 .. Len(db) + 1
      BY <2>1, AppendedRow DEF Inv
    <3> QED BY <1>1, <1>3, <3>1
  <2>3. cpc'[c] = "inserted" /\ crun'[c] = id
    <3>1. db' # db
      <4>1. DOMAIN db' # DOMAIN db
        BY <1>3
      <4> QED BY <4>1
    <3> QED BY <2>1, <2>2, <3>1 DEF InsertRun, Inv, TypeOK
  <2> QED BY <2>3 DEF BeingQueued, Held
<1> QED BY <1>2, <1>3

LEMMA KeptStep ==
    ASSUME Inv, Quiet, Registry, Untroubled, LossNeedsDisruption, [Next]_vars
    PROVE  LossNeedsDisruption'
<1> SUFFICES ASSUME NEW id \in DOMAIN db', db'[id].status = CREATED, id \notin Held'
             PROVE  disruptions' > 0
  BY DEF LossNeedsDisruption
<1>1. id \in DOMAIN db /\ db[id].status = CREATED
  BY UnfinishedRows
<1>2. disruptions' \in Nat
  BY TypingStep DEF Inv, TypeOK
<1>3. ASSUME disruptions' = 0 PROVE FALSE
  <2>1. id \in Held
    BY <1>1, <1>3, NoFailure DEF LossNeedsDisruption, Inv
  <2> QED BY <1>1, <1>3, <2>1, Drops, NoExcuse
<1> QED BY <1>2, <1>3

\* LossNeedsDisruption: a recorded run that is not finished is queued, being
\* queued, with a worker or being reported, unless something failed: the queues
\* and the handlers of server.c alone never lose one.
THEOREM LossesAreFailures == Spec => []LossNeedsDisruption
<1> DEFINE IInv == Inv /\ Quiet /\ Registry /\ Untroubled /\ LossNeedsDisruption
<1>1. Init => IInv
  BY InitCustody, RegistryInit, UntroubledInit
<1>2. IInv /\ [Next]_vars => IInv'
  BY InvStep, QuietStep, RegistryStep, UntroubledStep, KeptStep
<1> QED BY <1>1, <1>2, PTL DEF Spec

-----------------------------------------------------------------------------
(* What is lost stays lost *)

\* The parts only shrink, where their variables do.
LEMMA FewerHeld ==
    ASSUME Queued' \subseteq Queued,
           backlog' \union threads' \subseteq backlog \union threads,
           \A w \in Workers : inbox'[w] \in {inbox[w], 0} /\ wrun'[w] \in {wrun[w], inbox[w], 0},
           \A c \in Clients : cpc'[c] = "inserted" => cpc[c] = "inserted" /\ crun'[c] = crun[c]
    PROVE  Held' \subseteq Held
<1>1. Reported' \subseteq Reported
  BY DEF Reported
<1>2. \A w \in Workers : HeldByWorker(w)' \subseteq HeldByWorker(w)
  BY DEF HeldByWorker
<1>3. BeingQueued' \subseteq BeingQueued
  BY DEF BeingQueued
<1> QED BY <1>1, <1>2, <1>3 DEF Held

\* The server's process takes up nothing: it starts with an empty queue.
LEMMA ServerTakesNothing ==
    ASSUME Inv,
           \/ ServerStart \/ Accept \/ ServerStop \/ ListenFail \/ ServerExit \/ ServerCrash
           \/ \E m \in threads : HandleNewWorker(m) \/ HandleFinishedRun(m)
    PROVE  Held' \subseteq Held
<1>1. Queued' \subseteq Queued
  <2>1. runQueue' \in {runQueue, << >>}
    BY NothingRecovered
    DEF Inv, ServerStart, Accept, ServerStop, ListenFail, ServerExit, ServerCrash, ProcessGone,
        HandleNewWorker, HandleFinishedRun
  <2> QED BY <2>1, EmptySeq, LenProperties DEF Queued
<1>2. backlog' \union threads' \subseteq backlog \union threads
  BY DEF ServerStart, Accept, ServerStop, tcp_server_accept, ListenFail, ServerExit, ServerCrash, ProcessGone,
         HandleNewWorker, HandleFinishedRun
<1>3. UNCHANGED <<inbox, wrun, crun>>
  BY DEF ServerStart, Accept, ServerStop, ListenFail, ServerExit, ServerCrash, ProcessGone,
         HandleNewWorker, HandleFinishedRun, workerVars, clientVars
<1>4. \A c \in Clients : cpc'[c] = "inserted" => cpc[c] = "inserted"
  BY DEF Inv, TypeOK, ServerStart, Accept, ServerStop, tcp_server_accept, ListenFail, ServerExit, ServerCrash,
         ProcessGone, HandleNewWorker, HandleFinishedRun, clientVars
<1> QED BY <1>1, <1>2, <1>3, <1>4, FewerHeld

\* server_assign_run moves the head of the queue, or leaves it there.
LEMMA AssignTakesHead ==
    ASSUME Inv, server_assign_run
    PROVE  Held' \subseteq Held
<1>1. /\ runQueue \in Seq(Nat) /\ runQueue # << >>
      /\ UNCHANGED <<backlog, threads, cpc, crun, wrun>>
      /\ runQueue' \in {runQueue, Tail(runQueue)}
  BY RequeueHead DEF Inv, TypeOK, server_assign_run, AssignHeads, clientVars
<1>2. Queued' \subseteq Queued /\ Head(runQueue) \in Queued
  <2>1. /\ 1 \in DOMAIN runQueue /\ Head(runQueue) = runQueue[1]
        /\ \A k \in DOMAIN Tail(runQueue) : k + 1 \in DOMAIN runQueue /\ Tail(runQueue)[k] = runQueue[k + 1]
    BY <1>1, HeadTailProperties, LenProperties, EmptySeq
  <2> QED BY <1>1, <2>1 DEF Queued
<1>3. \A w \in Workers : HeldByWorker(w)' \subseteq HeldByWorker(w) \union {Head(runQueue)}
  <2>1. \A w \in Workers : inbox'[w] \in {inbox[w], Head(runQueue)} /\ wrun'[w] = wrun[w]
    BY <1>1 DEF Inv, TypeOK, server_assign_run, AssignHeads
  <2> QED BY <2>1 DEF HeldByWorker
<1>4. BeingQueued' = BeingQueued /\ Reported' = Reported
  BY <1>1, SameParts
<1> QED BY <1>2, <1>3, <1>4 DEF Held

\* A client's thread takes up the row it inserts, and queues what it holds.
LEMMA ClientTakesNew ==
    ASSUME Inv, NEW c \in Clients, ClientNext(c)
    PROVE  Held' \subseteq Held \union {Len(db) + 1}
<1>1. CASE ClientSend(c) \/ RespondRun(c)
  <2>1. /\ UNCHANGED <<runQueue, backlog, threads, crun, inbox, wrun>>
        /\ \A d \in Clients : cpc'[d] = "inserted" <=> cpc[d] = "inserted"
    BY <1>1 DEF ClientSend, RespondRun, serverVars, workerVars, Inv, TypeOK
  <2> QED BY <2>1, SameParts, FewerHeld
<1>2. CASE InsertRun(c)
  <2>1. UNCHANGED <<runQueue, backlog, threads, inbox, wrun>>
    BY <1>2 DEF InsertRun, serverVars, workerVars
  <2>2. \A d \in Clients : cpc'[d] = "inserted" =>
            crun'[d] = Len(db) + 1 \/ (cpc[d] = "inserted" /\ crun'[d] = crun[d])
    BY <1>2 DEF InsertRun, Inv, TypeOK
  <2>3. BeingQueued' \subseteq BeingQueued \union {Len(db) + 1}
    BY <2>2 DEF BeingQueued
  <2> QED BY <2>1, <2>3, SameParts DEF Held
<1>3. CASE EnqueueRun(c)
  <2>1. /\ UNCHANGED <<backlog, threads, crun, inbox, wrun>>
        /\ runQueue \in Seq(Nat) /\ crun[c] \in Nat /\ runQueue' = Append(runQueue, crun[c])
        /\ cpc[c] = "inserted"
        /\ \A d \in Clients : cpc'[d] = "inserted" => cpc[d] = "inserted"
    BY <1>3 DEF EnqueueRun, workerVars, Inv, TypeOK
  <2>2. \A k \in DOMAIN runQueue' :
            (k \in DOMAIN runQueue /\ runQueue'[k] = runQueue[k]) \/ runQueue'[k] = crun[c]
    BY <2>1, AppendProperties, LenProperties
  <2>3. Queued' \subseteq Queued \union BeingQueued
    BY <2>1, <2>2 DEF Queued, BeingQueued
  <2>4. BeingQueued' \subseteq BeingQueued
    BY <2>1 DEF BeingQueued
  <2> QED BY <2>1, <2>3, <2>4, SameParts DEF Held
<1> QED BY <1>1, <1>2, <1>3 DEF ClientNext

\* A worker passes on what it holds: from its socket to its hands, from there
\* into its report.
LEMMA WorkerTakesOwn ==
    ASSUME Inv, NEW w \in Workers, WorkerNext(w)
    PROVE  Held' \subseteq Held \union {0}
<1>1. ASSUME WorkerGone(w) PROVE Held' \subseteq Held
  <2>1. /\ UNCHANGED <<runQueue, backlog, threads, cpc, crun>>
        /\ \A v \in Workers : inbox'[v] \in {inbox[v], 0} /\ wrun'[v] \in {wrun[v], 0}
    BY <1>1 DEF WorkerGone, serverVars, clientVars, Inv, TypeOK
  <2> QED BY <2>1, SameParts, FewerHeld
<1>2. CASE (WorkerStart(w) \/ WorkerSignal(w) \/ TakeRun(w) \/ WorkerRun(w)) /\ ~WorkerGone(w)
  <2>1. /\ UNCHANGED <<runQueue, backlog, threads, cpc, crun>>
        /\ \A v \in Workers : inbox'[v] \in {inbox[v], 0} /\ wrun'[v] \in {wrun[v], inbox[v]}
    BY <1>2 DEF WorkerStart, WorkerSignal, TakeRun, WorkerRun, serverVars, clientVars, Inv, TypeOK
  <2> QED BY <2>1, SameParts, FewerHeld
<1>3. CASE WorkerRegister(w) /\ ~WorkerGone(w)
  <2> DEFINE new == request_new_worker(<<w, session[w] + 1>>)
  <2>1. UNCHANGED <<runQueue, threads, cpc, crun, inbox, wrun>> /\ backlog' = backlog \union {new}
    BY <1>3 DEF WorkerRegister, clientVars
  <2>2. new.method # "finished-run"
    BY DEF request_new_worker
  <2> HIDE DEF new
  <2>3. Reported' \subseteq Reported
    BY <2>1, <2>2 DEF Reported
  <2> QED BY <2>1, <2>3, SameParts DEF Held
<1>4. CASE WorkerReport(w) /\ ~WorkerGone(w)
  <2> DEFINE report == request_finished_run(<<w, session[w]>>, wrun[w], wec[w])
  <2>1. /\ UNCHANGED <<runQueue, threads, cpc, crun, inbox>>
        /\ backlog' = backlog \union {report}
        /\ \A v \in Workers : wrun'[v] \in {wrun[v], 0}
    BY <1>4 DEF WorkerReport, clientVars, Inv, TypeOK
  <2>2. report.run = wrun[w]
    BY DEF request_finished_run
  <2> HIDE DEF report
  <2>3. Reported' \subseteq Reported \union {wrun[w]}
    BY <2>1, <2>2 DEF Reported
  <2>4. \A v \in Workers : HeldByWorker(v)' \subseteq HeldByWorker(v)
    BY <2>1 DEF HeldByWorker
  <2>5. wrun[w] \in HeldByWorker(w) \union {0}
    BY DEF HeldByWorker
  <2>6. Queued' = Queued /\ BeingQueued' = BeingQueued
    BY <2>1, SameParts
  <2> QED BY <2>3, <2>4, <2>5, <2>6 DEF Held
<1> QED
  BY <1>1, <1>2, <1>3, <1>4 DEF WorkerNext, WorkerStep, SeeEOF, SeeSignal, WorkerCrash

\* A run that is held after a step was held before, or its row is new.
LEMMA NothingTakenUp ==
    ASSUME Inv, [Next]_vars
    PROVE  Held' \intersect DOMAIN db \subseteq Held
<1>1. DOMAIN db = 1 .. Len(db) /\ Len(db) \in Nat
  BY LenProperties DEF Inv, TypeOK
<1>2. 0 \notin DOMAIN db /\ Len(db) + 1 \notin DOMAIN db
  BY <1>1
<1>3. CASE ServerNext
  BY <1>3, ServerTakesNothing, AssignTakesHead DEF ServerNext
<1>4. CASE \E c \in Clients : ClientNext(c)
  BY <1>2, <1>4, ClientTakesNew
<1>5. CASE \E w \in Workers : WorkerNext(w)
  BY <1>2, <1>5, WorkerTakesOwn
<1>6. CASE UNCHANGED vars
  <2>1. UNCHANGED <<runQueue, backlog, threads, cpc, crun, inbox, wrun>>
    BY <1>6 DEF vars, serverVars, clientVars, workerVars
  <2> QED BY <2>1, SameParts, FewerHeld
<1> QED BY <1>3, <1>4, <1>5, <1>6 DEF Next

\* A row is written by the report of its run, which is held until then.
LEMMA UnheldRowStays ==
    ASSUME Inv, [Next]_vars, NEW id \in DOMAIN db \ Held
    PROVE  id \in DOMAIN db' /\ db'[id] = db[id]
<1>1. db \in Seq(Row) /\ DOMAIN db = 1 .. Len(db) /\ Len(db) \in Nat
  BY LenProperties DEF Inv, TypeOK
<1>2. CASE db' = Append(db, [status |-> CREATED, exit_code |-> -1])
  BY <1>2, AppendedRow DEF Inv
<1>3. ASSUME NEW m \in threads, HandleFinishedRun(m), storage_run_finished(m.run, m.exit_code)
      PROVE  id \in DOMAIN db' /\ db'[id] = db[id]
  <2>1. m.run \in Reported
    BY <1>3 DEF HandleFinishedRun, Reported
  <2>2. id # m.run
    BY <2>1 DEF Held
  <2> QED BY <1>3, <2>2 DEF storage_run_finished
<1> QED BY <1>2, <1>3, WhoWrites

\* A recorded run that nobody holds is never held again, and its row stays as
\* it is: neither a restart (server_create reads back no run, whatever
\* storage_get_run_queue is for) nor a late report brings one back.
THEOREM LostStaysLost ==
    Spec => [][\A id \in DOMAIN db \ Held : id \in DOMAIN db' \ Held' /\ db'[id] = db[id]]_vars
<1> DEFINE Stays == \A id \in DOMAIN db \ Held : id \in DOMAIN db' \ Held' /\ db'[id] = db[id]
<1>1. Inv /\ [Next]_vars => Stays
  BY NothingTakenUp, UnheldRowStays
<1>2. Inv /\ [Next]_vars => [Stays]_vars
  BY <1>1
<1> QED BY <1>2, Invariance, PTL DEF Spec
=============================================================================
