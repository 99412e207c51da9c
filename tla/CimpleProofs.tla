----------------------------- MODULE CimpleProofs -----------------------------
(***************************************************************************)
(* Proofs about Cimple: its typing, and the custody of runs, from which it *)
(* follows that no run is attempted twice and no row is finished with a    *)
(* result of another run, for any workers, clients, exit codes and bounds, *)
(* as far as ids tell runs apart: see `unkept' in Cimple.                  *)
(***************************************************************************)
EXTENDS CimpleProperties, SequenceTheorems, FiniteSetTheorems, TLAPS

-----------------------------------------------------------------------------
(* Sequences *)

\* An update of a row leaves a database, whether the row exists or not.
LEMMA UpdateAnywhere ==
    ASSUME NEW S, NEW s \in Seq(S), NEW k, NEW e \in S
    PROVE  [s EXCEPT ![k] = e] \in Seq(S)
<1>1. CASE k \in 1 .. Len(s)
  BY <1>1, ExceptSeq
<1>2. CASE k \notin 1 .. Len(s)
  <2>1. DOMAIN s = 1 .. Len(s)
    BY LenProperties
  <2>2. [s EXCEPT ![k] = e] = s
    BY <1>2, <2>1, LenProperties
  <2> QED BY <2>2
<1> QED BY <1>1, <1>2

\* What the run queue is after a failed send: what it was before.
LEMMA RequeueHead ==
    ASSUME NEW S, NEW s \in Seq(S), s # << >>
    PROVE  <<Head(s)>> \o Tail(s) = s
BY HeadTailProperties, ConcatProperties, LenProperties, EmptySeq

-----------------------------------------------------------------------------
(* Typing *)

LEMMA InitTyping == Init => TypeOK
BY DEF Init, TypeOK, Conn, Row, Request

LEMMA BudgetTyping == TypeOK /\ (Calm \/ Disrupt) => disruptions' \in Nat
BY DEF TypeOK, Calm, Disrupt

LEMMA InsertsTyping ==
    ASSUME TypeOK, storage_run_create
    PROVE  db' \in Seq(Row) /\ unkept' \subseteq Nat /\ disruptions' \in Nat
<1>1. [status |-> CREATED, exit_code |-> -1] \in Row
  BY DEF Row
<1>2. Append(db, [status |-> CREATED, exit_code |-> -1]) \in Seq(Row) /\ Len(db) + 1 \in Nat
  BY <1>1, AppendProperties, LenProperties DEF TypeOK
<1>3. disruptions' \in Nat
  BY BudgetTyping DEF storage_run_create, Inserts
<1>4. db' \in Seq(Row) /\ unkept' \subseteq Nat
  BY <1>2 DEF TypeOK, storage_run_create, Inserts
<1> QED BY <1>3, <1>4

LEMMA AcceptTyping ==
    ASSUME TypeOK, tcp_server_accept
    PROVE  /\ backlog' \subseteq Request
           /\ threads' \subseteq Request
           /\ cpc' \in [Clients -> {"idle", "sent", "accepted", "inserted", "queued", "ok", "failed"}]
BY DEF TypeOK, tcp_server_accept

\* The query of storage_get_run_queue finds no row: labels are compared with
\* digits.
LEMMA NothingRecovered == TypeOK => storage_get_run_queue = << >>
<1> SUFFICES ASSUME TypeOK PROVE storage_get_run_queue = << >>
  OBVIOUS
<1> DEFINE found == {id \in DOMAIN db : StatusLabel[db[id].status] = AsText[CREATED]}
<1>1. \A id \in DOMAIN db : db[id].status \in {CREATED, FINISHED}
  <2>1. db \in Seq(Row)
    BY DEF TypeOK
  <2>2. \A id \in DOMAIN db : db[id] \in Row
    BY <2>1, ElementOfSeq, LenProperties
  <2> QED BY <2>2 DEF Row
<1>2. found = {}
  BY <1>1 DEF StatusLabel, AsText, CREATED, FINISHED
<1>3. Cardinality(found) = 0
  BY <1>2, FS_EmptySet
<1>4. 1 .. Cardinality(found) = {}
  BY <1>3
<1>5. [1 .. Cardinality(found) -> found] = {<< >>}
  <2> HIDE DEF found
  <2>1. << >> \in [1 .. Cardinality(found) -> found]
    <3>1. << >> \in Seq(found) /\ Len(<< >>) = 0
      BY EmptySeq
    <3>2. << >> \in [1 .. 0 -> found]
      BY <3>1, LenProperties
    <3> QED BY <1>3, <3>2
  <2>2. \A f \in [1 .. Cardinality(found) -> found] : f = << >>
    <3> SUFFICES ASSUME NEW f \in [1 .. 0 -> found] PROVE f = << >>
      BY <1>3
    <3>1. f \in Seq(found)
      BY SeqDef
    <3>2. DOMAIN f = 1 .. Len(f) /\ Len(f) \in Nat
      BY <3>1, LenProperties
    <3>3. Len(f) = 0
      BY <3>2
    <3> QED BY <3>1, <3>3, EmptySeq
  <2> QED BY <2>1, <2>2
<1>6. storage_get_run_queue =
        CHOOSE queue \in [1 .. Cardinality(found) -> found] :
            \A i, j \in 1 .. Cardinality(found) : i < j => queue[i] < queue[j]
  BY DEF storage_get_run_queue
<1> HIDE DEF found
<1> QED BY <1>4, <1>5, <1>6

LEMMA ServerTyping ==
    ASSUME TypeOK, ServerStart \/ Accept \/ ServerStop \/ ListenFail
    PROVE  TypeOK'
<1>1. CASE ServerStart
  <2>1. runQueue' \in Seq(Nat)
    BY <1>1, NothingRecovered, EmptySeq DEF ServerStart
  <2>2. /\ srv' = "up" /\ epoch' = epoch + 1
        /\ UNCHANGED <<db, workerQueue, backlog, threads, disruptions>>
        /\ UNCHANGED <<cpc, crun, wpc, session, inbox, wrun, wec, wsig>>
        /\ UNCHANGED <<attempts, outcomes, unkept>>
    BY <1>1 DEF ServerStart, clientVars, workerVars, history
  <2>3. srv' \in {"down", "up", "stopping", "deaf"} /\ epoch' \in Nat
    BY <2>2 DEF TypeOK
  <2> QED BY <2>1, <2>2, <2>3 DEF TypeOK
<1>2. CASE Accept
  BY <1>2, AcceptTyping DEF TypeOK, Accept, workerVars, history
<1>3. CASE ServerStop
  <2>1. disruptions' \in Nat
    BY <1>3, BudgetTyping DEF ServerStop
  <2>2. /\ backlog' \subseteq Request
        /\ threads' \subseteq Request
        /\ cpc' \in [Clients -> {"idle", "sent", "accepted", "inserted", "queued", "ok", "failed"}]
    BY <1>3, AcceptTyping DEF TypeOK, ServerStop
  <2> QED BY <1>3, <2>1, <2>2 DEF TypeOK, ServerStop, workerVars, history
<1>4. CASE ListenFail
  <2>1. disruptions' \in Nat
    BY <1>4, BudgetTyping DEF ListenFail
  <2>2. /\ backlog' \subseteq Request
        /\ cpc' \in [Clients -> {"idle", "sent", "accepted", "inserted", "queued", "ok", "failed"}]
    BY <1>4 DEF TypeOK, ListenFail
  <2> QED BY <1>4, <2>1, <2>2 DEF TypeOK, ListenFail, workerVars, history
<1> QED BY <1>1, <1>2, <1>3, <1>4

LEMMA GoneTyping == ASSUME TypeOK, ServerExit \/ ServerCrash PROVE TypeOK'
<1>1. disruptions' \in Nat
  BY BudgetTyping DEF ServerExit, ServerCrash
<1>2. ProcessGone
  BY DEF ServerExit, ServerCrash
<1>3. cpc' \in [Clients -> {"idle", "sent", "accepted", "inserted", "queued", "ok", "failed"}]
  BY <1>2 DEF TypeOK, ProcessGone
<1> QED BY <1>1, <1>2, <1>3 DEF TypeOK, ProcessGone, workerVars, history

LEMMA HandlerTyping ==
    ASSUME TypeOK, NEW m \in threads, HandleNewWorker(m) \/ HandleFinishedRun(m)
    PROVE  TypeOK'
<1>1. disruptions' \in Nat /\ threads' \subseteq Request
  BY BudgetTyping DEF TypeOK, HandleNewWorker, HandleFinishedRun
<1>2. CASE HandleNewWorker(m)
  <2>1. m.conn \in Conn
    BY DEF TypeOK, Request
  <2>2. Append(workerQueue, m.conn) \in Seq(Conn)
    BY <2>1, AppendProperties DEF TypeOK
  <2>3. workerQueue' \in Seq(Conn)
    BY <1>2, <2>2 DEF TypeOK, HandleNewWorker
  <2> QED BY <1>1, <1>2, <2>3 DEF TypeOK, HandleNewWorker, clientVars, workerVars, history
<1>3. CASE HandleFinishedRun(m)
  <2>1. [status |-> FINISHED, exit_code |-> m.exit_code] \in Row
    BY DEF TypeOK, Request, Row
  <2>2. db' = [db EXCEPT ![m.run] = [status |-> FINISHED, exit_code |-> m.exit_code]] \/ db' = db
    BY <1>3 DEF HandleFinishedRun, storage_run_finished
  <2>3. db \in Seq(Row)
    BY DEF TypeOK
  <2>4. [db EXCEPT ![m.run] = [status |-> FINISHED, exit_code |-> m.exit_code]] \in Seq(Row)
    BY <2>1, <2>3, UpdateAnywhere
  <2>5. db' \in Seq(Row)
    BY <2>2, <2>3, <2>4
  <2> QED BY <1>1, <1>3, <2>5 DEF TypeOK, HandleFinishedRun, clientVars, workerVars, history
<1> QED BY <1>2, <1>3

LEMMA AssignTyping == ASSUME TypeOK, server_assign_run PROVE TypeOK'
<1>1. disruptions' \in Nat
  BY BudgetTyping DEF server_assign_run, AssignHeads
<1>2. workerQueue' \in Seq(Conn)
  BY HeadTailProperties DEF TypeOK, server_assign_run, AssignHeads
<1>3. Head(runQueue) \in Nat /\ Tail(runQueue) \in Seq(Nat)
  BY HeadTailProperties DEF TypeOK, server_assign_run, AssignHeads
<1>4. runQueue' \in Seq(Nat)
  BY <1>3, RequeueHead DEF TypeOK, server_assign_run, AssignHeads
<1>5. inbox' \in [Workers -> Nat]
  BY <1>3 DEF TypeOK, server_assign_run, AssignHeads
<1> QED
  BY <1>1, <1>2, <1>4, <1>5 DEF TypeOK, server_assign_run, AssignHeads, clientVars, history

LEMMA ClientTyping == ASSUME TypeOK, NEW c \in Clients, ClientNext(c) PROVE TypeOK'
<1>1. disruptions' \in Nat
  BY BudgetTyping, InsertsTyping
  DEF ClientNext, ClientSend, InsertRun, EnqueueRun, RespondRun, Unreachable, Calm
<1>2. cpc' \in [Clients -> {"idle", "sent", "accepted", "inserted", "queued", "ok", "failed"}]
  BY DEF TypeOK, ClientNext, ClientSend, InsertRun, EnqueueRun, RespondRun
<1>3. CASE InsertRun(c)
  <2>1. db' \in Seq(Row) /\ unkept' \subseteq Nat
    BY <1>3, InsertsTyping DEF TypeOK, InsertRun
  <2>2. Len(db) + 1 \in Nat
    BY LenProperties DEF TypeOK
  <2>3. crun' \in [Clients -> Nat]
    BY <1>3, <2>2 DEF TypeOK, InsertRun
  <2> QED BY <1>1, <1>2, <1>3, <2>1, <2>3 DEF TypeOK, InsertRun, serverVars, workerVars, history
<1>4. CASE EnqueueRun(c)
  BY <1>1, <1>2, <1>4, AppendProperties DEF TypeOK, EnqueueRun, workerVars, history
<1>5. CASE RespondRun(c) \/ ClientSend(c)
  BY <1>1, <1>2, <1>5 DEF TypeOK, RespondRun, ClientSend, serverVars, workerVars, history
<1> QED BY <1>3, <1>4, <1>5 DEF ClientNext

LEMMA WorkerGoneTyping ==
    ASSUME TypeOK, NEW w \in Workers, WorkerGone(w), Calm \/ Disrupt
    PROVE TypeOK'
<1>1. disruptions' \in Nat
  BY BudgetTyping
<1>2. /\ wpc' \in [Workers -> {"down", "start", "waiting", "running", "report"}]
      /\ inbox' \in [Workers -> Nat]
      /\ wrun' \in [Workers -> Nat]
      /\ wec' \in [Workers -> Int]
      /\ wsig' \in [Workers -> BOOLEAN]
  BY DEF TypeOK, WorkerGone
<1> QED BY <1>1, <1>2 DEF TypeOK, WorkerGone, serverVars, clientVars, history

\* Every way in which the process of a worker ends.
WorkerEnds(w) == WorkerGone(w) /\ (Calm \/ Disrupt)

LEMMA WorkerTyping == ASSUME TypeOK, NEW w \in Workers, WorkerNext(w) PROVE TypeOK'
<1>1. CASE WorkerEnds(w)
  BY <1>1, WorkerGoneTyping DEF WorkerEnds
<1>2. CASE WorkerStart(w)
  BY <1>2 DEF TypeOK, WorkerStart, serverVars, clientVars, history
<1>3. CASE WorkerRegister(w) /\ ~WorkerEnds(w)
  <2>1. request_new_worker(<<w, session[w] + 1>>) \in Request
    BY DEF TypeOK, Request, Conn, request_new_worker
  <2>2. /\ wpc' = [wpc EXCEPT ![w] = "waiting"]
        /\ session' = [session EXCEPT ![w] = session[w] + 1]
        /\ backlog' = backlog \union {request_new_worker(<<w, session[w] + 1>>)}
        /\ UNCHANGED <<db, srv, epoch, runQueue, workerQueue, threads, clientVars,
                       inbox, wrun, wec, wsig, history, disruptions>>
    BY <1>3 DEF WorkerRegister, WorkerEnds, Unreachable
  <2> QED BY <2>1, <2>2, SMTT(30) DEF TypeOK, clientVars, history
<1>4. CASE TakeRun(w)
  <2>1. [run |-> inbox[w], conn |-> <<w, session[w]>>] \in [run : Nat, conn : Conn]
    BY DEF TypeOK, Conn
  <2> QED BY <1>4, <2>1 DEF TypeOK, TakeRun, serverVars, clientVars
<1>5. CASE WorkerRun(w) /\ ~WorkerEnds(w)
  <2>1. PICK ec \in ExitCodes :
            /\ wpc' = [wpc EXCEPT ![w] = "report"]
            /\ wec' = [wec EXCEPT ![w] = ec]
            /\ outcomes' = outcomes \union {<<wrun[w], ec>>}
            /\ Calm \/ Disrupt
            /\ UNCHANGED <<db, serverVars, clientVars, session, inbox, wrun, wsig, attempts, unkept>>
    BY <1>5 DEF WorkerRun, WorkerEnds
  <2>2. ec \in Int /\ disruptions' \in Nat
    BY <2>1, ExitCodesAssumption, BudgetTyping
  <2>3. /\ wpc' \in [Workers -> {"down", "start", "waiting", "running", "report"}]
        /\ wec' \in [Workers -> Int]
        /\ outcomes' \subseteq Nat \X Int
    BY <2>1, <2>2 DEF TypeOK
  <2>4. UNCHANGED <<db, serverVars, clientVars, session, inbox, wrun, wsig, attempts, unkept>>
    BY <2>1
  <2> QED BY <2>2, <2>3, <2>4 DEF TypeOK, serverVars, clientVars
<1>6. CASE WorkerReport(w) /\ ~WorkerEnds(w)
  <2>1. request_finished_run(<<w, session[w]>>, wrun[w], wec[w]) \in Request
    BY DEF TypeOK, Request, Conn, request_finished_run
  <2>2. /\ backlog' = backlog \union {request_finished_run(<<w, session[w]>>, wrun[w], wec[w])}
        /\ wpc' = [wpc EXCEPT ![w] = "start"]
        /\ wrun' = [wrun EXCEPT ![w] = 0]
        /\ wec' = [wec EXCEPT ![w] = 0]
        /\ UNCHANGED <<db, srv, epoch, runQueue, workerQueue, threads, clientVars,
                       session, inbox, wsig, history, disruptions>>
    BY <1>6 DEF WorkerReport, WorkerEnds, Unreachable
  <2>3. /\ backlog' \subseteq Request
        /\ wpc' \in [Workers -> {"down", "start", "waiting", "running", "report"}]
        /\ wrun' \in [Workers -> Nat]
        /\ wec' \in [Workers -> Int]
    BY <2>1, <2>2 DEF TypeOK
  <2> QED BY <2>2, <2>3 DEF TypeOK, clientVars, history
<1>7. CASE WorkerSignal(w)
  <2>1. disruptions' \in Nat
    BY <1>7, BudgetTyping DEF WorkerSignal
  <2> QED BY <1>7, <2>1 DEF TypeOK, WorkerSignal, serverVars, clientVars, history
<1> QED
  BY <1>1, <1>2, <1>3, <1>4, <1>5, <1>6, <1>7
  DEF WorkerNext, WorkerStep, SeeEOF, SeeSignal, WorkerCrash, WorkerEnds

LEMMA TypingStep == TypeOK /\ [Next]_vars => TypeOK'
<1> SUFFICES ASSUME TypeOK, [Next]_vars PROVE TypeOK'
  OBVIOUS
<1>1. CASE ServerNext
  BY <1>1, ServerTyping, GoneTyping, AssignTyping, HandlerTyping DEF ServerNext
<1>2. CASE \E c \in Clients : ClientNext(c)
  BY <1>2, ClientTyping
<1>3. CASE \E w \in Workers : WorkerNext(w)
  BY <1>3, WorkerTyping
<1>4. CASE UNCHANGED vars
  BY <1>4 DEF TypeOK, vars, serverVars, clientVars, workerVars, history
<1> QED BY <1>1, <1>2, <1>3, <1>4 DEF Next

\* Every variable keeps its type through every step of server, clients and
\* workers, failures included.
THEOREM Typing == Spec => []TypeOK
BY InitTyping, TypingStep, PTL DEF Spec

-----------------------------------------------------------------------------
(* Custody *)

\* AtMostOnce alone is not inductive: it takes that a run which is still
\* queued, delivered or being queued was not begun, and is so in one place.
\* Results takes that a report on its way is about a real outcome, and all of it
\* is true only of ids that were never given out for a row that is gone: what
\* names such an id names two runs.
Results ==
    \A id \in DOMAIN db \ unkept :
        db[id].status = FINISHED => <<id, db[id].exit_code>> \in outcomes

Inv == TypeOK /\ Custody /\ AtMostOnce /\ Results

\* What is known of ids: the next row's is nobody's, or is marked.
LEMMA KnownIds ==
    ASSUME Inv
    PROVE  /\ Len(db) \in Nat
           /\ DOMAIN db = 1 .. Len(db)
           /\ DOMAIN db \subseteq Known
           /\ unkept \subseteq Known
           /\ 0 \notin Known
           /\ Known \subseteq 1 .. Len(db) + 1
           /\ Len(db) + 1 \notin unkept => Len(db) + 1 \notin Known
<1>1. Len(db) \in Nat /\ DOMAIN db = 1 .. Len(db)
  BY LenProperties DEF Inv, TypeOK
<1>2. unkept \subseteq 1 .. Len(db) + 1
  BY DEF Inv, Custody, IdsExist
<1>3. 0 \notin Known
  BY <1>1, <1>2 DEF Known
<1>4. Known \subseteq 1 .. Len(db) + 1
  <2>1. 1 .. Len(db) \subseteq 1 .. Len(db) + 1
    BY <1>1
  <2> QED BY <1>2, <2>1 DEF Known
<1>5. Len(db) + 1 \notin unkept => Len(db) + 1 \notin Known
  BY <1>1 DEF Known
<1>6. DOMAIN db \subseteq Known /\ unkept \subseteq Known
  BY <1>1 DEF Known
<1> QED BY <1>1, <1>3, <1>4, <1>5, <1>6

\* Ids stay known while no row is added and no id marked.
LEMMA KnownStays == UNCHANGED <<db, unkept>> => Known' = Known /\ Len(db') = Len(db)
BY DEF Known

\* The outcome a finished row holds is its run's only one.
LEMMA Truthful == Inv => FinishedTruthful
<1> SUFFICES ASSUME Inv, NEW id \in DOMAIN db \ unkept, db[id].status = FINISHED
             PROVE  {o \in outcomes : o[1] = id} = {<<id, db[id].exit_code>>}
  BY DEF FinishedTruthful
<1> DEFINE result == <<id, db[id].exit_code>>
<1>1. result \in outcomes /\ result[1] = id
  BY DEF Inv, Results
<1>2. \A o \in outcomes : o[1] = id => o = result
  <2> HIDE DEF result
  <2> QED BY <1>1 DEF Inv, Custody, OutcomeCustody
<1> HIDE DEF result
<1>3. {o \in outcomes : o[1] = id} = {result}
  BY <1>1, <1>2
<1> QED BY <1>3 DEF result

\* A step after which nobody holds a run who did not hold it before.  Most
\* steps, and all that lose something, are of this kind.
NothingGained ==
    /\ UNCHANGED <<db, attempts, outcomes, crun, unkept>>
    /\ runQueue' = runQueue \/ runQueue' = << >>
    /\ \A w \in Workers :
        /\ inbox'[w] = inbox[w] \/ inbox'[w] = 0
        /\ wrun'[w] = wrun[w] \/ wrun'[w] = 0
        /\ wpc'[w] \in {"running", "report"} =>
            /\ wpc'[w] = wpc[w]
            /\ wrun'[w] = wrun[w]
            /\ wec'[w] = wec[w]
            /\ session'[w] = session[w]
    /\ \A c \in Clients : cpc'[c] = "inserted" => cpc[c] = "inserted"
    /\ \A m \in backlog' \union threads' :
        m \in backlog \union threads \/ (m.method = "new-worker" /\ m.run = 0)

LEMMA NothingGainedCustody ==
    ASSUME Inv, TypeOK', NothingGained
    PROVE  Inv'
<1>1. DOMAIN << >> = {}
  BY EmptySeq, LenProperties
<1>2. Inserted' \subseteq Inserted /\ Attempted' = Attempted /\ crun' = crun
  BY DEF NothingGained, Inserted, Attempted
<1>3. Known' = Known /\ Len(db') = Len(db)
  BY KnownStays DEF NothingGained
<1>4. IdsExist'
  BY <1>1, <1>3 DEF Inv, Custody, IdsExist, NothingGained
<1>5. QueueCustody'
  <2>1. CASE runQueue' = << >>
    BY <1>1, <2>1 DEF QueueCustody
  <2>2. CASE runQueue' = runQueue
    <3>1. \A k \in DOMAIN runQueue : runQueue[k] # 0
      BY KnownIds DEF Inv, Custody, IdsExist
    <3> QED BY <1>2, <2>2, <3>1 DEF Inv, Custody, QueueCustody, NothingGained
  <2> QED BY <2>1, <2>2 DEF NothingGained
<1>6. InboxCustody'
  BY <1>2 DEF Inv, Custody, InboxCustody, NothingGained
<1>7. ClientCustody'
  BY <1>2 DEF Inv, Custody, ClientCustody, NothingGained
<1>8. WorkerCustody'
  BY DEF Inv, Custody, WorkerCustody, NothingGained
<1>9. OutcomeCustody'
  BY <1>2 DEF Inv, Custody, OutcomeCustody, NothingGained
<1>10. AtMostOnce' /\ Results'
  BY DEF Inv, AtMostOnce, Results, NothingGained
<1> QED BY <1>4, <1>5, <1>6, <1>7, <1>8, <1>9, <1>10 DEF Inv, Custody

\* Starting, accepting, stopping, failing and exiting: the server's process
\* takes over nothing.  At its start it recovers nothing either.
LEMMA ServerGainsNothing ==
    ASSUME TypeOK, ServerStart \/ Accept \/ ServerStop \/ ListenFail \/ ServerExit \/ ServerCrash
    PROVE  NothingGained
<1>1. CASE ServerStart
  BY <1>1, NothingRecovered DEF NothingGained, ServerStart, clientVars, workerVars, history
<1>2. CASE Accept \/ ServerStop
  BY <1>2 DEF NothingGained, Accept, ServerStop, tcp_server_accept, TypeOK, workerVars, history
<1>3. CASE ListenFail
  BY <1>3 DEF NothingGained, ListenFail, TypeOK, workerVars, history
<1>4. CASE ServerExit \/ ServerCrash
  <2>1. ProcessGone
    BY <1>4 DEF ServerExit, ServerCrash
  <2> QED BY <2>1 DEF NothingGained, ProcessGone, TypeOK, workerVars, history
<1> QED BY <1>1, <1>2, <1>3, <1>4

LEMMA WorkerGainsNothing ==
    ASSUME TypeOK, NEW w \in Workers,
           WorkerGone(w) \/ WorkerStart(w) \/ WorkerSignal(w) \/ (WorkerRegister(w) /\ ~WorkerEnds(w))
    PROVE  NothingGained
<1>1. CASE WorkerGone(w)
  BY <1>1 DEF NothingGained, WorkerGone, TypeOK, serverVars, clientVars, history
<1>2. CASE WorkerStart(w)
  BY <1>2 DEF NothingGained, WorkerStart, TypeOK, serverVars, clientVars, history
<1>3. CASE WorkerSignal(w)
  BY <1>3 DEF NothingGained, WorkerSignal, TypeOK, serverVars, clientVars, history
<1>4. CASE WorkerRegister(w) /\ ~WorkerEnds(w)
  <2>1. /\ wpc' = [wpc EXCEPT ![w] = "waiting"]
        /\ session' = [session EXCEPT ![w] = session[w] + 1]
        /\ backlog' = backlog \union {request_new_worker(<<w, session[w] + 1>>)}
        /\ UNCHANGED <<db, runQueue, threads, clientVars, inbox, wrun, wec, history>>
    BY <1>4 DEF WorkerRegister, WorkerEnds, Unreachable
  <2> QED BY <2>1 DEF NothingGained, TypeOK, clientVars, history, request_new_worker
<1> QED BY <1>1, <1>2, <1>3, <1>4

LEMMA OthersGainNothing ==
    ASSUME TypeOK,
           \/ \E m \in threads : HandleNewWorker(m)
           \/ \E c \in Clients : RespondRun(c) \/ ClientSend(c)
    PROVE  NothingGained
<1>1. CASE \E m \in threads : HandleNewWorker(m)
  BY <1>1 DEF NothingGained, HandleNewWorker, clientVars, workerVars, history
<1>2. CASE \E c \in Clients : RespondRun(c) \/ ClientSend(c)
  BY <1>2 DEF NothingGained, RespondRun, ClientSend, TypeOK, serverVars, workerVars, history
<1> QED BY <1>1, <1>2

LEMMA InitCustody == Init => Inv
<1> SUFFICES ASSUME Init PROVE Inv
  OBVIOUS
<1>1. DOMAIN << >> = {} /\ Len(<< >>) = 0
  BY EmptySeq, LenProperties
<1>2. AtMostOnce /\ Results
  BY <1>1 DEF Init, AtMostOnce, Results
<1>3. IdsExist
  BY <1>1 DEF Init, IdsExist
<1>4. QueueCustody /\ InboxCustody /\ ClientCustody /\ WorkerCustody /\ OutcomeCustody
  BY <1>1 DEF Init, QueueCustody, InboxCustody, ClientCustody, WorkerCustody, OutcomeCustody, Inserted
<1> QED BY <1>2, <1>3, <1>4, InitTyping DEF Inv, Custody

-----------------------------------------------------------------------------
(* The steps by which a run changes hands *)

\* A finished run's row gets the result the message carries.
LEMMA FinishCustody ==
    ASSUME Inv, TypeOK', NEW m \in threads, HandleFinishedRun(m)
    PROVE  Inv'
<1>1. CASE UNCHANGED db
  <2>1. NothingGained
    BY <1>1 DEF NothingGained, HandleFinishedRun, clientVars, workerVars, history
  <2> QED BY <2>1, NothingGainedCustody
<1>2. CASE storage_run_finished(m.run, m.exit_code)
  <2>1. <<m.run, m.exit_code>> \in outcomes
    BY DEF Inv, Custody, OutcomeCustody, HandleFinishedRun
  <2>2. db \in Seq(Row) /\ db' \in Seq(Row)
    BY DEF Inv, TypeOK
  <2>3. db' = [db EXCEPT ![m.run] = [status |-> FINISHED, exit_code |-> m.exit_code]]
    BY <1>2 DEF storage_run_finished
  <2>4. DOMAIN db' = DOMAIN db /\ Len(db') = Len(db)
    <3>1. DOMAIN db' = DOMAIN db
      BY <2>3
    <3> QED BY <2>2, <3>1, LenProperties
  <2>5. UNCHANGED <<runQueue, crun, cpc, inbox, wrun, wpc, wec, session, attempts, outcomes, backlog,
                    unkept>>
    BY DEF HandleFinishedRun, clientVars, workerVars, history
  <2>6. threads' \subseteq threads
    BY DEF HandleFinishedRun
  <2>7. Results'
    <3> SUFFICES ASSUME NEW id \in DOMAIN db \ unkept, db'[id].status = FINISHED
                 PROVE  <<id, db'[id].exit_code>> \in outcomes
      BY <2>4, <2>5 DEF Results
    <3>1. CASE id = m.run
      BY <2>1, <2>3, <3>1
    <3>2. CASE id # m.run
      BY <2>3, <3>2 DEF Inv, Results
    <3> QED BY <3>1, <3>2
  <2>8. AtMostOnce'
    BY <2>5 DEF Inv, AtMostOnce
  <2>9. IdsExist'
    <3>1. Known' = Known
      BY <2>4, <2>5 DEF Known
    <3> QED BY <2>4, <2>5, <2>6, <3>1 DEF Inv, Custody, IdsExist
  <2>10. QueueCustody' /\ InboxCustody' /\ ClientCustody'
    BY <2>5 DEF Inv, Custody, QueueCustody, InboxCustody, ClientCustody, Inserted, Attempted
  <2>11. WorkerCustody' /\ OutcomeCustody'
    BY <2>5, <2>6 DEF Inv, Custody, WorkerCustody, OutcomeCustody, Attempted
  <2> QED BY <2>7, <2>8, <2>9, <2>10, <2>11 DEF Inv, Custody
<1> QED BY <1>1, <1>2 DEF HandleFinishedRun

\* The id given out is one that nothing names yet, or one that is exempt: it
\* was given out before, or its own row is the one that is lost.
LEMMA InsertCustody ==
    ASSUME Inv, TypeOK', NEW c \in Clients, InsertRun(c)
    PROVE  Inv'
<1>1. CASE cpc' = [cpc EXCEPT ![c] = "failed"] /\ UNCHANGED <<db, crun, unkept>>
  <2>1. UNCHANGED <<serverVars, workerVars, attempts, outcomes>>
    BY DEF InsertRun
  <2>2. NothingGained
    BY <1>1, <2>1 DEF NothingGained, Inv, TypeOK, serverVars, workerVars
  <2> QED BY <2>2, NothingGainedCustody
<1>2. CASE /\ storage_run_create
           /\ cpc' = [cpc EXCEPT ![c] = "inserted"]
           /\ crun' = [crun EXCEPT ![c] = Len(db) + 1]
  <2> DEFINE new == Len(db) + 1
             row == [status |-> CREATED, exit_code |-> -1]
  <2>1. /\ cpc' = [cpc EXCEPT ![c] = "inserted"]
        /\ crun' = [crun EXCEPT ![c] = new]
        /\ UNCHANGED <<serverVars, workerVars, attempts, outcomes>>
        /\ \/ db' = Append(db, row) /\ UNCHANGED unkept
           \/ UNCHANGED db /\ unkept' = unkept \union {new}
    BY <1>2 DEF InsertRun, storage_run_create, Inserts
  <2>2. db \in Seq(Row) /\ row \in Row
    BY DEF Inv, TypeOK, Row
  <2>3. /\ Len(db) \in Nat
        /\ DOMAIN db = 1 .. Len(db)
        /\ Known \subseteq 1 .. new
        /\ new # 0 /\ 0 \notin Known
        /\ new \notin unkept => new \notin Known
    BY KnownIds
  <2>4. UNCHANGED <<runQueue, inbox, wrun, wpc, wec, session, attempts, outcomes, backlog, threads>>
    BY <2>1 DEF serverVars, workerVars
  <2>5. Inserted' = Inserted \union {c} /\ Attempted' = Attempted
    BY <2>1, <2>4 DEF Inserted, Attempted, Inv, TypeOK
  <2>6. crun'[c] = new /\ \A d \in Clients \ {c} : crun'[d] = crun[d]
    BY <2>1 DEF Inv, TypeOK
  <2>7. /\ Len(db') \in {Len(db), new}
        /\ unkept \subseteq unkept'
        /\ unkept' \subseteq unkept \union {new}
        /\ Known' = Known \union {new}
        /\ new \in unkept' \/ new \notin Known
    <3>1. CASE db' = Append(db, row) /\ UNCHANGED unkept
      <4>1. Len(db') = new
        BY <2>2, <3>1, AppendProperties
      <4>2. 1 .. new = (1 .. Len(db)) \union {new}
        BY <2>3
      <4>3. Known' = Known \union {new}
        BY <3>1, <4>1, <4>2 DEF Known
      <4> QED BY <2>3, <3>1, <4>1, <4>3
    <3>2. CASE UNCHANGED db /\ unkept' = unkept \union {new}
      <4>1. Len(db') = Len(db)
        BY <3>2
      <4>2. Known' = Known \union {new}
        BY <3>2, <4>1 DEF Known
      <4> QED BY <3>2, <4>1, <4>2
    <3> QED BY <2>1, <3>1, <3>2
  <2>8. /\ \A k \in DOMAIN runQueue : runQueue[k] \in Known
        /\ \A d \in Clients : crun[d] \in Known \union {0}
        /\ \A w \in Workers : inbox[w] \in Known \union {0} /\ wrun[w] \in Known \union {0}
        /\ \A m \in backlog \union threads : m.run \in Known \union {0}
        /\ \A a \in attempts : a.run \in Known
        /\ unkept \subseteq 1 .. new
    BY DEF Inv, Custody, IdsExist
  <2>9. \A id : id \in Known /\ id \notin unkept' => id # new /\ id \notin unkept
    BY <2>7
  <2>10. new # 0 /\ 0 \notin Known
    BY <2>3
  <2>11. IdsExist'
    <3>1. unkept' \subseteq 1 .. Len(db') + 1
      <4>1. new \in 1 .. Len(db') + 1 /\ 1 .. new \subseteq 1 .. Len(db') + 1
        BY <2>3, <2>7
      <4> QED BY <2>7, <2>8, <4>1
    <3> HIDE DEF new
    <3>2. \A d \in Clients : crun'[d] \in Known' \union {0}
      BY <2>6, <2>7, <2>8
    <3> QED BY <2>4, <2>7, <2>8, <3>1, <3>2 DEF IdsExist
  <2> HIDE DEF new, row
  <2>12. QueueCustody'
    <3> SUFFICES ASSUME NEW k \in DOMAIN runQueue, runQueue[k] \notin unkept'
                 PROVE  /\ \A l \in DOMAIN runQueue : runQueue[k] = runQueue[l] => k = l
                        /\ runQueue[k] \notin Attempted
                        /\ \A w \in Workers : inbox[w] # runQueue[k]
                        /\ \A d \in Inserted' : crun'[d] # runQueue[k]
      BY <2>4, <2>5 DEF QueueCustody
    <3>1. runQueue[k] # new /\ runQueue[k] \notin unkept
      BY <2>8, <2>9
    <3>2. \A d \in Inserted' : crun'[d] # runQueue[k]
      BY <2>5, <2>6, <3>1 DEF Inv, Custody, QueueCustody, Inserted
    <3> QED BY <3>1, <3>2 DEF Inv, Custody, QueueCustody
  <2>13. InboxCustody'
    <3> SUFFICES ASSUME NEW w \in Workers, inbox[w] \notin unkept' \union {0}
                 PROVE  /\ inbox[w] \notin Attempted
                        /\ \A v \in Workers : inbox[v] = inbox[w] => v = w
                        /\ \A d \in Inserted' : crun'[d] # inbox[w]
      BY <2>4, <2>5 DEF InboxCustody
    <3>1. inbox[w] # new /\ inbox[w] \notin unkept \union {0}
      BY <2>8, <2>9
    <3>2. \A d \in Inserted' : crun'[d] # inbox[w]
      BY <2>5, <2>6, <3>1 DEF Inv, Custody, InboxCustody, Inserted
    <3> QED BY <3>1, <3>2 DEF Inv, Custody, InboxCustody
  <2>14. ClientCustody'
    <3>1. new \notin unkept' => new \notin Attempted /\ \A d \in Clients : crun[d] # new
      <4>1. new \notin unkept' => new \notin Known \union {0}
        BY <2>7, <2>10
      <4> QED BY <2>8, <4>1 DEF Attempted
    <3> SUFFICES ASSUME NEW d \in Inserted'
                 PROVE  /\ crun'[d] # 0
                        /\ crun'[d] \notin unkept' =>
                            /\ crun'[d] \notin Attempted
                            /\ \A e \in Inserted' : crun'[e] = crun'[d] => e = d
      BY <2>5 DEF ClientCustody
    <3>2. CASE d = c
      BY <2>5, <2>6, <2>10, <3>1, <3>2 DEF Inserted
    <3>3. CASE d # c
      <4>1. d \in Inserted /\ d \in Clients /\ crun'[d] = crun[d]
        BY <2>5, <2>6, <3>3 DEF Inserted
      <4>2. crun[d] # 0
        BY <4>1 DEF Inv, Custody, ClientCustody
      <4>3. ASSUME crun[d] \notin unkept'
            PROVE  /\ crun[d] \notin Attempted
                   /\ \A e \in Inserted' : crun'[e] = crun[d] => e = d
        <5>1. crun[d] # new /\ crun[d] \notin unkept
          BY <2>8, <2>9, <4>1, <4>2, <4>3
        <5>2. \A e \in Inserted' : e = c \/ (e \in Inserted /\ crun'[e] = crun[e])
          BY <2>5, <2>6 DEF Inserted
        <5> QED BY <2>6, <4>1, <5>1, <5>2 DEF Inv, Custody, ClientCustody
      <4> QED BY <4>1, <4>2, <4>3
    <3> QED BY <3>2, <3>3
  <2>15. WorkerCustody' /\ OutcomeCustody' /\ AtMostOnce'
    BY <2>4, <2>5, <2>7 DEF Inv, Custody, WorkerCustody, OutcomeCustody, AtMostOnce
  <2>16. Results'
    <3>1. \A id \in DOMAIN db' \ unkept' : db'[id].status = FINISHED =>
            id \in DOMAIN db \ unkept /\ db'[id] = db[id]
      <4>1. CASE db' = Append(db, row) /\ UNCHANGED unkept
        <5>1. \A id \in DOMAIN db' : (id \in DOMAIN db /\ db'[id] = db[id]) \/ db'[id] = row
          BY <2>2, <4>1, AppendProperties, LenProperties
        <5>2. row.status # FINISHED
          BY DEF row, CREATED, FINISHED
        <5> QED BY <4>1, <5>1, <5>2
      <4>2. CASE UNCHANGED db /\ unkept' = unkept \union {new}
        BY <4>2
      <4> QED BY <2>1, <4>1, <4>2
    <3> QED BY <2>4, <3>1 DEF Inv, Results
  <2> QED BY <2>11, <2>12, <2>13, <2>14, <2>15, <2>16 DEF Inv, Custody
<1> QED BY <1>1, <1>2 DEF InsertRun

\* The thread that inserted a run hands it to the queue.
LEMMA EnqueueCustody ==
    ASSUME Inv, TypeOK', NEW c \in Clients, EnqueueRun(c)
    PROVE  Inv'
<1>1. /\ c \in Inserted
      /\ Inserted' = Inserted \ {c}
      /\ runQueue' = Append(runQueue, crun[c])
    BY DEF EnqueueRun, Inserted, Inv, TypeOK
<1>2. UNCHANGED <<db, crun, inbox, wrun, wpc, wec, session, attempts, outcomes, backlog, threads,
                  unkept>>
  BY DEF EnqueueRun, workerVars, history
<1>3. runQueue \in Seq(Nat) /\ crun[c] \in Nat
  BY DEF Inv, TypeOK
<1> DEFINE n == Len(runQueue)
<1>4. /\ n \in Nat
      /\ DOMAIN runQueue = 1 .. n
      /\ DOMAIN runQueue' = 1 .. n + 1
      /\ \A k \in DOMAIN runQueue : runQueue'[k] = runQueue[k]
      /\ runQueue'[n + 1] = crun[c]
  BY <1>1, <1>3, AppendProperties, LenProperties
<1>5. \A k \in DOMAIN runQueue' : k \in DOMAIN runQueue \/ k = n + 1
  BY <1>4
<1>6. crun[c] \in Known
  BY <1>1 DEF Inv, Custody, IdsExist, ClientCustody
<1>7. crun[c] \notin unkept =>
        /\ \A k \in DOMAIN runQueue : runQueue[k] # crun[c]
        /\ crun[c] \notin Attempted
        /\ \A d \in Inserted : crun[d] = crun[c] => d = c
        /\ \A w \in Workers : inbox[w] # crun[c]
  <2> SUFFICES ASSUME crun[c] \notin unkept
               PROVE  /\ \A k \in DOMAIN runQueue : runQueue[k] # crun[c]
                      /\ crun[c] \notin Attempted
                      /\ \A d \in Inserted : crun[d] = crun[c] => d = c
                      /\ \A w \in Workers : inbox[w] # crun[c]
    OBVIOUS
  <2>1. \A k \in DOMAIN runQueue : runQueue[k] # crun[c]
    BY <1>1 DEF Inv, Custody, QueueCustody
  <2>2. /\ crun[c] \notin Attempted
        /\ \A d \in Inserted : crun[d] = crun[c] => d = c
    BY <1>1 DEF Inv, Custody, ClientCustody
  <2>3. crun[c] # 0
    BY <1>6, KnownIds
  <2>4. \A w \in Workers : inbox[w] # crun[c]
    BY <1>1, <2>3 DEF Inv, Custody, InboxCustody
  <2> QED BY <2>1, <2>2, <2>4
<1>8. Attempted' = Attempted
  BY <1>2 DEF Attempted
<1>9. IdsExist'
  <2>1. Known' = Known
    BY <1>2, KnownStays
  <2>2. \A k \in DOMAIN runQueue' : runQueue'[k] \in Known
    BY <1>4, <1>5, <1>6 DEF Inv, Custody, IdsExist
  <2> QED BY <1>2, <2>1, <2>2 DEF Inv, Custody, IdsExist
<1>10. QueueCustody'
  <2> SUFFICES ASSUME NEW k \in DOMAIN runQueue', runQueue'[k] \notin unkept
               PROVE  /\ \A l \in DOMAIN runQueue' : runQueue'[k] = runQueue'[l] => k = l
                      /\ runQueue'[k] \notin Attempted
                      /\ \A w \in Workers : inbox[w] # runQueue'[k]
                      /\ \A d \in Inserted' : crun[d] # runQueue'[k]
    BY <1>2, <1>8 DEF QueueCustody
  <2>1. CASE k \in DOMAIN runQueue
    <3>1. runQueue'[k] = runQueue[k]
      BY <1>4, <2>1
    <3>2. \A l \in DOMAIN runQueue' : runQueue'[k] = runQueue'[l] => k = l
      <4> SUFFICES ASSUME NEW l \in DOMAIN runQueue', runQueue'[k] = runQueue'[l] PROVE k = l
        OBVIOUS
      <4>1. CASE l \in DOMAIN runQueue
        BY <1>4, <2>1, <3>1, <4>1 DEF Inv, Custody, QueueCustody
      <4>2. CASE l = n + 1
        BY <1>4, <1>7, <2>1, <3>1, <4>2
      <4> QED BY <1>5, <4>1, <4>2
    <3>3. /\ runQueue[k] \notin Attempted
          /\ \A w \in Workers : inbox[w] # runQueue[k]
          /\ \A d \in Inserted : crun[d] # runQueue[k]
      BY <2>1, <3>1 DEF Inv, Custody, QueueCustody
    <3> QED BY <1>1, <3>1, <3>2, <3>3
  <2>2. CASE k = n + 1
    <3>1. \A l \in DOMAIN runQueue' : runQueue'[k] = runQueue'[l] => k = l
      BY <1>4, <1>5, <1>7, <2>2
    <3> QED BY <1>1, <1>4, <1>7, <2>2, <3>1
  <2> QED BY <1>5, <2>1, <2>2
<1>11. InboxCustody' /\ ClientCustody'
  BY <1>1, <1>2, <1>8 DEF Inv, Custody, InboxCustody, ClientCustody
<1>12. WorkerCustody' /\ OutcomeCustody' /\ AtMostOnce' /\ Results'
  BY <1>2, <1>8 DEF Inv, Custody, WorkerCustody, OutcomeCustody, AtMostOnce, Results
<1> QED BY <1>9, <1>10, <1>11, <1>12 DEF Inv, Custody

\* The head of the queue goes into one worker's socket, stays, or is lost.
LEMMA AssignCustody ==
    ASSUME Inv, TypeOK', server_assign_run
    PROVE  Inv'
<1> DEFINE run == Head(runQueue)
           w == Head(workerQueue)[1]
<1>1. runQueue \in Seq(Nat) /\ runQueue # << >>
  BY DEF Inv, TypeOK, server_assign_run, AssignHeads
<1>2. w \in Workers
  <2>1. Head(workerQueue) \in Conn
    BY HeadTailProperties DEF Inv, TypeOK, server_assign_run, AssignHeads
  <2> QED BY <2>1 DEF Conn
<1>3. <<run>> \o Tail(runQueue) = runQueue
  BY <1>1, RequeueHead
<1>4. UNCHANGED <<db, crun, cpc, wrun, wpc, wec, session, attempts, outcomes, backlog, threads,
                  unkept>>
  BY DEF server_assign_run, AssignHeads, clientVars, history
<1>5. \/ runQueue' = runQueue /\ inbox' = inbox
      \/ runQueue' = Tail(runQueue) /\ inbox' = inbox
      \/ runQueue' = Tail(runQueue) /\ inbox' = [inbox EXCEPT ![w] = run]
  BY <1>3 DEF server_assign_run, AssignHeads
<1>6. CASE runQueue' = runQueue /\ inbox' = inbox
  <2>1. NothingGained
    BY <1>4, <1>6 DEF NothingGained
  <2> QED BY <2>1, NothingGainedCustody
<1>7. CASE runQueue' = Tail(runQueue) /\ (inbox' = inbox \/ inbox' = [inbox EXCEPT ![w] = run])
  <2> DEFINE n == Len(runQueue)
  <2>1. /\ n \in Nat \ {0}
        /\ DOMAIN runQueue = 1 .. n
        /\ run = runQueue[1]
        /\ DOMAIN runQueue' = 1 .. n - 1
        /\ \A k \in DOMAIN runQueue' : runQueue'[k] = runQueue[k + 1]
    BY <1>1, <1>7, HeadTailProperties, LenProperties, EmptySeq
  <2>2. \A k \in DOMAIN runQueue' : k + 1 \in DOMAIN runQueue /\ k + 1 # 1
    BY <2>1
  <2>3. 1 \in DOMAIN runQueue
    BY <2>1
  <2>4. run \notin unkept =>
          /\ run \notin Attempted
          /\ \A v \in Workers : inbox[v] # run
          /\ \A c \in Inserted : crun[c] # run
          /\ \A k \in DOMAIN runQueue' : runQueue'[k] # run
    BY <2>1, <2>2, <2>3 DEF Inv, Custody, QueueCustody
  <2>5. \A v \in Workers : inbox'[v] = inbox[v] \/ (v = w /\ inbox'[v] = run)
    BY <1>7 DEF Inv, TypeOK
  <2>6. Inserted' = Inserted /\ Attempted' = Attempted
    BY <1>4 DEF Inserted, Attempted
  <2>7. IdsExist'
    <3>1. run \in Known /\ Known' = Known /\ Len(db') = Len(db)
      BY <1>4, <2>1, <2>3, KnownStays DEF Inv, Custody, IdsExist
    <3>2. \A v \in Workers : inbox'[v] \in Known \union {0}
      BY <2>5, <3>1 DEF Inv, Custody, IdsExist
    <3>3. \A k \in DOMAIN runQueue' : runQueue'[k] \in Known
      BY <2>1, <2>2 DEF Inv, Custody, IdsExist
    <3> QED BY <1>4, <3>1, <3>2, <3>3 DEF Inv, Custody, IdsExist
  <2>8. QueueCustody'
    <3> SUFFICES ASSUME NEW k \in DOMAIN runQueue', runQueue'[k] \notin unkept
                 PROVE  /\ \A l \in DOMAIN runQueue' : runQueue'[k] = runQueue'[l] => k = l
                        /\ runQueue'[k] \notin Attempted
                        /\ \A v \in Workers : inbox'[v] # runQueue'[k]
                        /\ \A c \in Inserted : crun[c] # runQueue'[k]
      BY <1>4, <2>6 DEF QueueCustody
    <3>1. k + 1 \in DOMAIN runQueue /\ runQueue'[k] = runQueue[k + 1]
      BY <2>1, <2>2
    <3>2. /\ runQueue[k + 1] \notin Attempted
          /\ \A v \in Workers : inbox[v] # runQueue[k + 1]
          /\ \A c \in Inserted : crun[c] # runQueue[k + 1]
      BY <3>1 DEF Inv, Custody, QueueCustody
    <3>3. runQueue[k + 1] # run
      BY <2>4, <3>1
    <3>4. \A l \in DOMAIN runQueue' : runQueue'[k] = runQueue'[l] => k = l
      <4> SUFFICES ASSUME NEW l \in DOMAIN runQueue', runQueue'[k] = runQueue'[l] PROVE k = l
        OBVIOUS
      <4>1. l + 1 \in DOMAIN runQueue /\ runQueue'[l] = runQueue[l + 1]
        BY <2>1, <2>2
      <4>2. k + 1 = l + 1
        BY <3>1, <4>1 DEF Inv, Custody, QueueCustody
      <4> QED BY <2>1, <4>2
    <3> QED BY <2>5, <3>1, <3>2, <3>3, <3>4
  <2>9. InboxCustody'
    BY <1>4, <2>4, <2>5, <2>6 DEF Inv, Custody, InboxCustody
  <2>10. ClientCustody' /\ WorkerCustody' /\ OutcomeCustody' /\ AtMostOnce' /\ Results'
    BY <1>4, <2>6
    DEF Inv, Custody, ClientCustody, WorkerCustody, OutcomeCustody, AtMostOnce, Results
  <2> QED BY <2>7, <2>8, <2>9, <2>10 DEF Inv, Custody
<1> QED BY <1>5, <1>6, <1>7

\* A worker begins the run in its socket: the run has one attempt from now on.
LEMMA TakeCustody ==
    ASSUME Inv, TypeOK', NEW w \in Workers, TakeRun(w)
    PROVE  Inv'
<1> DEFINE run == inbox[w]
           attempt == [run |-> inbox[w], conn |-> <<w, session[w]>>]
<1>1. /\ run # 0
      /\ wpc' = [wpc EXCEPT ![w] = "running"]
      /\ wrun' = [wrun EXCEPT ![w] = run]
      /\ inbox' = [inbox EXCEPT ![w] = 0]
      /\ attempts' = attempts \union {attempt}
      /\ UNCHANGED <<db, runQueue, crun, cpc, session, wec, outcomes, backlog, threads, unkept>>
  BY DEF TakeRun, serverVars, clientVars
<1>2. run \notin unkept =>
        /\ run \notin Attempted
        /\ \A v \in Workers : inbox[v] = run => v = w
        /\ \A c \in Inserted : crun[c] # run
        /\ \A k \in DOMAIN runQueue : runQueue[k] # run
  BY <1>1 DEF Inv, Custody, InboxCustody, QueueCustody
<1>3. Inserted' = Inserted /\ Attempted' = Attempted \union {run}
  <2>1. Inserted' = Inserted
    BY <1>1 DEF Inserted
  <2>2. attempt.run = run
    OBVIOUS
  <2>3. Attempted' = Attempted \union {run}
    <3> HIDE DEF attempt
    <3> QED BY <1>1, <2>2 DEF Attempted
  <2> QED BY <2>1, <2>3
<1>4. /\ inbox'[w] = 0 /\ wrun'[w] = run /\ wpc'[w] = "running"
      /\ \A v \in Workers \ {w} :
            inbox'[v] = inbox[v] /\ wrun'[v] = wrun[v] /\ wpc'[v] = wpc[v]
  BY <1>1 DEF Inv, TypeOK
<1>5. run \in Known /\ Known' = Known /\ Len(db') = Len(db)
  BY <1>1, KnownStays DEF Inv, Custody, IdsExist
<1>6. IdsExist'
  <2>1. \A v \in Workers : inbox'[v] \in Known \union {0} /\ wrun'[v] \in Known \union {0}
    BY <1>4, <1>5 DEF Inv, Custody, IdsExist
  <2>2. \A a \in attempts' : a.run \in Known
    BY <1>1, <1>5 DEF Inv, Custody, IdsExist
  <2> QED BY <1>1, <1>5, <2>1, <2>2 DEF Inv, Custody, IdsExist
<1>7. QueueCustody'
  <2>1. \A k \in DOMAIN runQueue : runQueue[k] # 0
    BY KnownIds DEF Inv, Custody, IdsExist
  <2> SUFFICES ASSUME NEW k \in DOMAIN runQueue, runQueue[k] \notin unkept
               PROVE  /\ \A l \in DOMAIN runQueue : runQueue[k] = runQueue[l] => k = l
                      /\ runQueue[k] \notin Attempted'
                      /\ \A v \in Workers : inbox'[v] # runQueue[k]
                      /\ \A c \in Inserted : crun[c] # runQueue[k]
    BY <1>1, <1>3 DEF QueueCustody
  <2> QED BY <1>2, <1>3, <1>4, <2>1 DEF Inv, Custody, QueueCustody
<1>8. InboxCustody'
  BY <1>1, <1>2, <1>3, <1>4 DEF Inv, Custody, InboxCustody
<1>9. ClientCustody'
  BY <1>1, <1>2, <1>3 DEF Inv, Custody, ClientCustody
<1>10. run \notin unkept => \A o \in outcomes : o[1] # run
  BY <1>2 DEF Inv, Custody, OutcomeCustody
<1>11. WorkerCustody'
  <2> SUFFICES ASSUME NEW v \in Workers
               PROVE  /\ wpc'[v] = "running" =>
                            /\ [run |-> wrun'[v], conn |-> <<v, session[v]>>] \in attempts'
                            /\ wrun'[v] \notin unkept => \A o \in outcomes : o[1] # wrun'[v]
                      /\ wpc'[v] = "report" => <<wrun'[v], wec[v]>> \in outcomes
    BY <1>1 DEF WorkerCustody
  <2>1. CASE v = w
    BY <1>1, <1>4, <1>10, <2>1
  <2>2. CASE v # w
    BY <1>1, <1>4, <2>2 DEF Inv, Custody, WorkerCustody
  <2> QED BY <2>1, <2>2
<1>12. OutcomeCustody' /\ Results'
  BY <1>1, <1>3 DEF Inv, Custody, OutcomeCustody, Results
<1>13. AtMostOnce'
  <2>1. run \notin unkept => \A a \in attempts : a.run # run
    BY <1>2 DEF Attempted
  <2>2. attempt.run = run
    OBVIOUS
  <2> HIDE DEF attempt, run
  <2> QED BY <1>1, <2>1, <2>2 DEF Inv, AtMostOnce
<1> QED BY <1>6, <1>7, <1>8, <1>9, <1>11, <1>12, <1>13 DEF Inv, Custody

\* A CI run is over: nobody else executes it, so the outcome is its only one.
LEMMA RunCustody ==
    ASSUME Inv, TypeOK', NEW w \in Workers, WorkerRun(w), ~WorkerEnds(w)
    PROVE  Inv'
<1>1. wpc[w] = "running"
  BY DEF WorkerRun
<1>2. PICK ec \in ExitCodes :
        /\ wpc' = [wpc EXCEPT ![w] = "report"]
        /\ wec' = [wec EXCEPT ![w] = ec]
        /\ outcomes' = outcomes \union {<<wrun[w], ec>>}
        /\ UNCHANGED <<db, serverVars, clientVars, session, inbox, wrun, wsig, attempts, unkept>>
  BY DEF WorkerRun, WorkerEnds
<1>3. UNCHANGED <<db, runQueue, crun, cpc, session, inbox, wrun, attempts, backlog, threads, unkept>>
  BY <1>2 DEF serverVars, clientVars
<1>4. Inserted' = Inserted /\ Attempted' = Attempted
  BY <1>3 DEF Inserted, Attempted
<1>5. /\ wpc'[w] = "report" /\ wec'[w] = ec
      /\ \A v \in Workers \ {w} : wpc'[v] = wpc[v] /\ wec'[v] = wec[v]
  BY <1>2 DEF Inv, TypeOK
<1>6. /\ [run |-> wrun[w], conn |-> <<w, session[w]>>] \in attempts
      /\ wrun[w] \notin unkept => \A o \in outcomes : o[1] # wrun[w]
  BY <1>1 DEF Inv, Custody, WorkerCustody
<1>7. \A v \in Workers \ {w} : wpc[v] = "running" /\ wrun[v] \notin unkept => wrun[v] # wrun[w]
  <2> SUFFICES ASSUME NEW v \in Workers \ {w}, wpc[v] = "running", wrun[v] \notin unkept,
                      wrun[v] = wrun[w]
               PROVE  FALSE
    OBVIOUS
  <2>1. [run |-> wrun[v], conn |-> <<v, session[v]>>] \in attempts
    BY DEF Inv, Custody, WorkerCustody
  <2>2. [run |-> wrun[v], conn |-> <<v, session[v]>>] = [run |-> wrun[w], conn |-> <<w, session[w]>>]
    BY <1>6, <2>1 DEF Inv, AtMostOnce
  <2>3. <<v, session[v]>> = <<w, session[w]>>
    BY <2>2
  <2> QED BY <2>3
<1>8. IdsExist' /\ QueueCustody' /\ InboxCustody' /\ ClientCustody' /\ AtMostOnce'
  BY <1>3, <1>4, KnownStays
  DEF Inv, Custody, IdsExist, QueueCustody, InboxCustody, ClientCustody, AtMostOnce
<1>9. WorkerCustody'
  <2> SUFFICES ASSUME NEW v \in Workers
               PROVE  /\ wpc'[v] = "running" =>
                            /\ [run |-> wrun[v], conn |-> <<v, session[v]>>] \in attempts
                            /\ wrun[v] \notin unkept => \A o \in outcomes' : o[1] # wrun[v]
                      /\ wpc'[v] = "report" => <<wrun[v], wec'[v]>> \in outcomes'
    BY <1>3 DEF WorkerCustody
  <2>1. CASE v = w
    BY <1>2, <1>5, <2>1
  <2>2. CASE v # w
    BY <1>2, <1>5, <1>7, <2>2 DEF Inv, Custody, WorkerCustody
  <2> QED BY <2>1, <2>2
<1>10. OutcomeCustody'
  <2>1. wrun[w] \in Attempted
    BY <1>6 DEF Attempted
  <2>2. \A o \in outcomes' : o[1] \in Attempted
    BY <1>2, <2>1 DEF Inv, Custody, OutcomeCustody
  <2>3. \A o, p \in outcomes' : o[1] = p[1] => o = p \/ o[1] \in unkept
    BY <1>2, <1>6 DEF Inv, Custody, OutcomeCustody
  <2>4. \A m \in backlog \union threads :
          m.method = "finished-run" => <<m.run, m.exit_code>> \in outcomes'
    BY <1>2 DEF Inv, Custody, OutcomeCustody
  <2> QED BY <1>3, <1>4, <2>2, <2>3, <2>4 DEF OutcomeCustody
<1>11. Results'
  BY <1>2, <1>3 DEF Inv, Results
<1> QED BY <1>8, <1>9, <1>10, <1>11 DEF Inv, Custody

\* A report carries the run and the exit code of the outcome it is about.
LEMMA ReportCustody ==
    ASSUME Inv, TypeOK', NEW w \in Workers, WorkerReport(w), ~WorkerEnds(w)
    PROVE  Inv'
<1> DEFINE report == request_finished_run(<<w, session[w]>>, wrun[w], wec[w])
<1>1. /\ wpc[w] = "report"
      /\ backlog' = backlog \union {report}
      /\ wpc' = [wpc EXCEPT ![w] = "start"]
      /\ wrun' = [wrun EXCEPT ![w] = 0]
      /\ wec' = [wec EXCEPT ![w] = 0]
      /\ UNCHANGED <<db, srv, epoch, runQueue, workerQueue, threads, clientVars,
                     session, inbox, wsig, history, disruptions>>
  BY DEF WorkerReport, WorkerEnds, Unreachable
<1>2. UNCHANGED <<db, runQueue, crun, cpc, session, inbox, attempts, outcomes, threads, unkept>>
  BY <1>1 DEF clientVars, history
<1>3. Inserted' = Inserted /\ Attempted' = Attempted
  BY <1>2 DEF Inserted, Attempted
<1>4. /\ wpc'[w] = "start" /\ wrun'[w] = 0
      /\ \A v \in Workers \ {w} :
            wpc'[v] = wpc[v] /\ wrun'[v] = wrun[v] /\ wec'[v] = wec[v]
  BY <1>1 DEF Inv, TypeOK
<1>5. <<wrun[w], wec[w]>> \in outcomes /\ wrun[w] \in Known \union {0}
  BY <1>1 DEF Inv, Custody, WorkerCustody, IdsExist
<1>6. report.run = wrun[w] /\ report.exit_code = wec[w]
  BY DEF request_finished_run
<1> HIDE DEF report
<1>7. IdsExist'
  <2>1. \A m \in backlog' \union threads' : m.run \in Known \union {0}
    BY <1>1, <1>5, <1>6 DEF Inv, Custody, IdsExist
  <2>2. \A v \in Workers : inbox'[v] \in Known \union {0} /\ wrun'[v] \in Known \union {0}
    BY <1>2, <1>4 DEF Inv, Custody, IdsExist
  <2>3. Known' = Known /\ Len(db') = Len(db)
    BY <1>2, KnownStays
  <2> QED BY <1>2, <2>1, <2>2, <2>3 DEF Inv, Custody, IdsExist
<1>8. QueueCustody' /\ InboxCustody' /\ ClientCustody' /\ AtMostOnce' /\ Results'
  BY <1>2, <1>3
  DEF Inv, Custody, QueueCustody, InboxCustody, ClientCustody, AtMostOnce, Results
<1>9. WorkerCustody'
  BY <1>2, <1>4 DEF Inv, Custody, WorkerCustody
<1>10. OutcomeCustody'
  <2>1. \A m \in backlog' \union threads' :
          m.method = "finished-run" => <<m.run, m.exit_code>> \in outcomes
    BY <1>1, <1>5, <1>6 DEF Inv, Custody, OutcomeCustody
  <2> QED BY <1>2, <1>3, <2>1 DEF Inv, Custody, OutcomeCustody
<1> QED BY <1>7, <1>8, <1>9, <1>10 DEF Inv, Custody

-----------------------------------------------------------------------------
(* The invariant, and what it implies *)

LEMMA ServerCustody == ASSUME Inv, TypeOK', ServerNext PROVE Inv'
<1>1. TypeOK
  BY DEF Inv
<1>2. CASE ServerStart \/ Accept \/ ServerStop \/ ListenFail \/ ServerExit \/ ServerCrash
  BY <1>1, <1>2, ServerGainsNothing, NothingGainedCustody
<1>3. CASE server_assign_run
  BY <1>3, AssignCustody
<1>4. CASE \E m \in threads : HandleNewWorker(m)
  BY <1>1, <1>4, OthersGainNothing, NothingGainedCustody
<1>5. CASE \E m \in threads : HandleFinishedRun(m)
  BY <1>5, FinishCustody
<1> QED BY <1>2, <1>3, <1>4, <1>5 DEF ServerNext

LEMMA ClientsCustody == ASSUME Inv, TypeOK', NEW c \in Clients, ClientNext(c) PROVE Inv'
<1>1. TypeOK
  BY DEF Inv
<1>2. CASE ClientSend(c) \/ RespondRun(c)
  BY <1>1, <1>2, OthersGainNothing, NothingGainedCustody
<1>3. CASE InsertRun(c)
  BY <1>3, InsertCustody
<1>4. CASE EnqueueRun(c)
  BY <1>4, EnqueueCustody
<1> QED BY <1>2, <1>3, <1>4 DEF ClientNext

LEMMA WorkersCustody == ASSUME Inv, TypeOK', NEW w \in Workers, WorkerNext(w) PROVE Inv'
<1>1. TypeOK
  BY DEF Inv
<1>2. CASE WorkerGone(w) \/ WorkerStart(w) \/ WorkerSignal(w) \/ (WorkerRegister(w) /\ ~WorkerEnds(w))
  BY <1>1, <1>2, WorkerGainsNothing, NothingGainedCustody
<1>3. CASE TakeRun(w)
  BY <1>3, TakeCustody
<1>4. CASE WorkerRun(w) /\ ~WorkerEnds(w)
  BY <1>4, RunCustody
<1>5. CASE WorkerReport(w) /\ ~WorkerEnds(w)
  BY <1>5, ReportCustody
<1> QED
  BY <1>2, <1>3, <1>4, <1>5
  DEF WorkerNext, WorkerStep, SeeEOF, SeeSignal, WorkerCrash, WorkerEnds

LEMMA InvStep == Inv /\ [Next]_vars => Inv'
<1> SUFFICES ASSUME Inv, [Next]_vars PROVE Inv'
  OBVIOUS
<1>1. TypeOK'
  BY TypingStep DEF Inv
<1>2. CASE ServerNext
  BY <1>1, <1>2, ServerCustody
<1>3. CASE \E c \in Clients : ClientNext(c)
  BY <1>1, <1>3, ClientsCustody
<1>4. CASE \E w \in Workers : WorkerNext(w)
  BY <1>1, <1>4, WorkersCustody
<1>5. CASE UNCHANGED vars
  BY <1>1, <1>5, NothingGainedCustody
  DEF NothingGained, vars, serverVars, clientVars, workerVars, history
<1> QED BY <1>2, <1>3, <1>4, <1>5 DEF Next

THEOREM Invariance == Spec => []Inv
BY InitCustody, InvStep, PTL DEF Spec

\* A run is in the custody of one party at a time: the run queue, one worker's
\* socket, the thread that inserted it, or the one worker that began it.  So is
\* every run but those whose id a failed commit gave out for a row that is gone
\* (sqlite.c:113): whatever is said of one of these may be said of two runs.
THEOREM CustodyHolds == Spec => []Custody
<1>1. Inv => Custody
  BY DEF Inv
<1> QED BY <1>1, Invariance, PTL

\* No run is begun twice, whatever crashes, restarts or fails: neither a
\* re-queued run nor a restarted server hands out what was handed out before.
\* Only an id that was given out for a row that a failed commit rolled back may
\* be begun twice, for that run and for the next one to get the id.
THEOREM NoRunTwice == Spec => []AtMostOnce
<1>1. Inv => AtMostOnce
  BY DEF Inv
<1> QED BY <1>1, Invariance, PTL

\* A row marked finished holds the one exit code its own run ended with, unless
\* its id was first given out for a row that was rolled back.
THEOREM ResultsTrue == Spec => []FinishedTruthful
BY Truthful, Invariance, PTL

-----------------------------------------------------------------------------
(* Rows *)

\* Only a client's thread and a "finished-run" write the database.
LEMMA WhoWrites ==
    ASSUME [Next]_vars
    PROVE  \/ UNCHANGED db
           \/ \E c \in Clients :
                InsertRun(c) /\ db' = Append(db, [status |-> CREATED, exit_code |-> -1])
           \/ \E m \in threads : HandleFinishedRun(m) /\ storage_run_finished(m.run, m.exit_code)
<1>1. CASE ServerNext
  BY <1>1
  DEF ServerNext, ServerStart, Accept, ServerStop, ListenFail, ServerExit, ServerCrash, ProcessGone,
      server_assign_run, AssignHeads, HandleNewWorker, HandleFinishedRun
<1>2. CASE \E c \in Clients : ClientNext(c)
  BY <1>2
  DEF ClientNext, ClientSend, InsertRun, EnqueueRun, RespondRun, storage_run_create, Inserts
<1>3. CASE \E w \in Workers : WorkerNext(w)
  BY <1>3
  DEF WorkerNext, WorkerStep, WorkerStart, WorkerRegister, TakeRun, SeeEOF, SeeSignal, WorkerRun,
      WorkerReport, WorkerSignal, WorkerCrash, WorkerGone
<1>4. CASE UNCHANGED vars
  BY <1>4 DEF vars
<1> QED BY <1>1, <1>2, <1>3, <1>4 DEF Next

LEMMA RowsStay ==
    ASSUME Inv, [Next]_vars, NEW id \in DOMAIN db \ unkept, db[id].status = FINISHED
    PROVE  db'[id] = db[id]
<1>1. db \in Seq(Row) /\ DOMAIN db = 1 .. Len(db) /\ Len(db) \in Nat
  BY LenProperties DEF Inv, TypeOK
<1>2. CASE UNCHANGED db
  BY <1>2
<1>3. CASE \E c \in Clients : InsertRun(c) /\ db' = Append(db, [status |-> CREATED, exit_code |-> -1])
  <2>1. [status |-> CREATED, exit_code |-> -1] \in Row
    BY DEF Row
  <2> QED BY <1>1, <1>3, <2>1, AppendProperties
<1>4. CASE \E m \in threads : HandleFinishedRun(m) /\ storage_run_finished(m.run, m.exit_code)
  <2>1. PICK m \in threads : HandleFinishedRun(m) /\ storage_run_finished(m.run, m.exit_code)
    BY <1>4
  <2>2. db' = [db EXCEPT ![m.run] = [status |-> FINISHED, exit_code |-> m.exit_code]]
    BY <2>1 DEF storage_run_finished
  <2>3. CASE id # m.run
    BY <2>2, <2>3
  <2>4. CASE id = m.run
    <3>1. <<id, m.exit_code>> \in outcomes
      BY <2>1, <2>4 DEF Inv, Custody, OutcomeCustody, HandleFinishedRun
    <3>2. <<id, db[id].exit_code>> \in outcomes
      BY DEF Inv, Results
    <3>3. <<id, m.exit_code>> = <<id, db[id].exit_code>>
      BY <3>1, <3>2 DEF Inv, Custody, OutcomeCustody
    <3>4. db[id] \in Row
      BY <1>1, ElementOfSeq
    <3>5. db[id] = [status |-> FINISHED, exit_code |-> m.exit_code]
      BY <3>3, <3>4 DEF Row
    <3> QED BY <2>2, <2>4, <3>5
  <2> QED BY <2>3, <2>4
<1> QED BY <1>2, <1>3, <1>4, WhoWrites

\* A finished row is never changed: the UPDATE does not look at what it
\* overwrites, but a second report of a run would have to repeat the first.
\* That takes that the row's id was never given out for another run, as a
\* failed commit lets it be; such a row is exempt.
THEOREM FinishedStays == Spec => FinishedIsFinal
<1> DEFINE Kept == \A id \in DOMAIN db \ unkept : db[id].status = FINISHED => db'[id] = db[id]
<1>1. Inv /\ [Next]_vars => Kept
  BY RowsStay
<1>2. Inv /\ [Next]_vars => [Kept]_vars
  BY <1>1
<1>3. Spec => [][Kept]_vars
  BY <1>2, Invariance, PTL DEF Spec
<1> QED BY <1>3 DEF FinishedIsFinal
=============================================================================
