--------------------------- MODULE CimpleRefinement ---------------------------
(***************************************************************************)
(* Cimple implements RunLedger: its initial states are initial states of   *)
(* the ledger, and each of its steps is a step of the ledger or leaves the *)
(* ledger as it is.                                                        *)
(***************************************************************************)
EXTENDS CimpleProofs

\* What the ledger needs beyond Inv: a client's run is its own, and exit codes
\* come from scripts.
Owned ==
    /\ \A c \in Clients : cpc[c] \in {"inserted", "queued", "ok"} => crun[c] # 0
    /\ \A c, d \in Clients :
        crun[c] \notin unkept \union {0} /\ crun[c] = crun[d] => c = d
    /\ \A o \in outcomes : o[2] \in ExitCodes

LedgerInv == Inv /\ Owned

LedgerRow == [finished : BOOLEAN, exit_code : Int]

rowsBar ==
    [id \in DOMAIN db |->
        [finished |-> db[id].status = FINISHED, exit_code |-> db[id].exit_code]]
ackedBar == [c \in Clients |-> IF cpc[c] = "ok" THEN crun[c] ELSE 0]

\* A step that the ledger does not see.
Invisible ==
    /\ UNCHANGED <<db, attempts, outcomes, unkept>>
    /\ ackedBar' = ackedBar

-----------------------------------------------------------------------------
(* Ownership *)

LEMMA InitOwned == Init => Owned
BY DEF Init, Owned

\* No step gives a client a run, or makes it answer for one, but its own.
OwnershipKept ==
    /\ UNCHANGED <<crun, outcomes, unkept>>
    /\ \A c \in Clients :
        cpc'[c] \in {"inserted", "queued", "ok"} => cpc[c] \in {"inserted", "queued", "ok"}

LEMMA KeptOwned == ASSUME Owned, OwnershipKept PROVE Owned'
BY DEF Owned, OwnershipKept

LEMMA ServerOwned == ASSUME TypeOK, ServerNext PROVE OwnershipKept
<1>1. CASE ServerStart \/ Accept \/ ServerStop \/ ListenFail
  BY <1>1
  DEF OwnershipKept, ServerStart, Accept, ServerStop, ListenFail, tcp_server_accept,
      TypeOK, clientVars, history
<1>2. CASE ServerExit \/ ServerCrash
  BY <1>2 DEF OwnershipKept, ServerExit, ServerCrash, ProcessGone, TypeOK, history
<1>3. CASE server_assign_run \/ \E m \in threads : HandleNewWorker(m) \/ HandleFinishedRun(m)
  BY <1>3
  DEF OwnershipKept, server_assign_run, AssignHeads, HandleNewWorker, HandleFinishedRun,
      clientVars, history
<1> QED BY <1>1, <1>2, <1>3 DEF ServerNext

LEMMA ClientOwned ==
    ASSUME Inv, Owned, NEW c \in Clients, ClientNext(c)
    PROVE  Owned'
<1>1. CASE OwnershipKept
  BY <1>1, KeptOwned
<1>2. CASE ClientSend(c) \/ EnqueueRun(c) \/ RespondRun(c)
  <2>1. OwnershipKept
    BY <1>2 DEF OwnershipKept, ClientSend, EnqueueRun, RespondRun, Inv, TypeOK, history
  <2> QED BY <2>1, KeptOwned
<1>3. CASE InsertRun(c) /\ ~OwnershipKept
  <2>1. /\ cpc' = [cpc EXCEPT ![c] = "inserted"]
        /\ crun' = [crun EXCEPT ![c] = Len(db) + 1]
        /\ UNCHANGED outcomes
        /\ unkept' = unkept \/ unkept' = unkept \union {Len(db) + 1}
    BY <1>3 DEF InsertRun, storage_run_create, Inserts, OwnershipKept, Inv, TypeOK
  <2>2. PICK new : new = Len(db) + 1
    OBVIOUS
  <2>3. /\ new # 0
        /\ new \notin unkept => \A d \in Clients : crun[d] # new
    <3>1. new \notin unkept => new \notin Known \union {0}
      BY <2>2, KnownIds
    <3>2. new # 0
      BY <2>2, KnownIds
    <3> QED BY <3>1, <3>2 DEF Inv, Custody, IdsExist
  <2>4. crun'[c] = new /\ \A d \in Clients \ {c} : crun'[d] = crun[d] /\ cpc'[d] = cpc[d]
    BY <2>1, <2>2 DEF Inv, TypeOK
  <2>5. \A d, e \in Clients : crun'[d] \notin unkept' \union {0} /\ crun'[d] = crun'[e] => d = e
    <3> SUFFICES ASSUME NEW d \in Clients, NEW e \in Clients, d # e,
                        crun'[d] = crun'[e], crun'[d] \notin unkept', crun'[d] # 0
                 PROVE  FALSE
      OBVIOUS
    <3>1. crun'[d] \notin unkept
      BY <2>1
    <3>2. CASE d = c
      BY <2>3, <2>4, <3>1, <3>2
    <3>3. CASE e = c
      BY <2>3, <2>4, <3>1, <3>3
    <3>4. CASE d # c /\ e # c
      BY <2>4, <3>1, <3>4 DEF Owned
    <3> QED BY <3>2, <3>3, <3>4
  <2> QED BY <2>1, <2>3, <2>4, <2>5 DEF Owned
<1> QED BY <1>2, <1>3, <1>1 DEF ClientNext

LEMMA WorkerOwned ==
    ASSUME Owned, NEW w \in Workers, WorkerNext(w)
    PROVE  Owned'
<1>1. CASE UNCHANGED <<clientVars, outcomes, unkept>>
  BY <1>1 DEF Owned, clientVars
<1>2. CASE ~UNCHANGED <<clientVars, outcomes, unkept>>
  <2>1. PICK ec \in ExitCodes :
            UNCHANGED <<clientVars, unkept>> /\ outcomes' = outcomes \union {<<wrun[w], ec>>}
    BY <1>2
    DEF WorkerNext, WorkerStep, WorkerStart, WorkerRegister, TakeRun, SeeEOF, SeeSignal, WorkerRun,
        WorkerReport, WorkerSignal, WorkerCrash, WorkerGone, history
  <2> QED BY <2>1 DEF Owned, clientVars
<1> QED BY <1>1, <1>2

LEMMA LedgerInvStep == LedgerInv /\ [Next]_vars => LedgerInv'
<1> SUFFICES ASSUME LedgerInv, [Next]_vars PROVE LedgerInv'
  OBVIOUS
<1>1. Inv'
  BY InvStep DEF LedgerInv
<1>2. Owned'
  <2>1. CASE ServerNext
    BY <2>1, ServerOwned, KeptOwned DEF LedgerInv, Inv
  <2>2. CASE \E c \in Clients : ClientNext(c)
    BY <2>2, ClientOwned DEF LedgerInv
  <2>3. CASE \E w \in Workers : WorkerNext(w)
    BY <2>3, WorkerOwned DEF LedgerInv
  <2>4. CASE UNCHANGED vars
    BY <2>4 DEF LedgerInv, Owned, vars, clientVars, history
  <2> QED BY <2>1, <2>2, <2>3, <2>4 DEF Next
<1> QED BY <1>1, <1>2 DEF LedgerInv

-----------------------------------------------------------------------------
(* The steps *)

LEMMA InitLedger == Init => Ledger!Init
<1> SUFFICES ASSUME Init PROVE Ledger!Init
  OBVIOUS
<1>1. DOMAIN << >> = {}
  BY EmptySeq, LenProperties
<1>2. rowsBar = << >>
  BY <1>1 DEF Init, rowsBar
<1>3. ackedBar = [c \in Clients |-> 0]
  BY DEF Init, ackedBar
<1>4. Attempted = {} /\ outcomes = {} /\ unkept = {}
  BY DEF Init, Attempted
<1> QED BY <1>2, <1>3, <1>4 DEF Ledger!Init, rowsBar, ackedBar

LEMMA InvisibleStutters == ASSUME Invisible PROVE UNCHANGED Ledger!vars
<1>1. rowsBar' = rowsBar /\ Attempted' = Attempted
  BY DEF Invisible, rowsBar, Attempted
<1> QED BY <1>1 DEF Invisible, Ledger!vars, rowsBar, ackedBar

\* The domain of the rows is that of the table.
LEMMA RowsShape ==
    ASSUME TypeOK
    PROVE  /\ Len(db) \in Nat
           /\ DOMAIN rowsBar = 1 .. Len(db)
           /\ DOMAIN db = 1 .. Len(db)
           /\ rowsBar \in Seq(LedgerRow)
           /\ Len(rowsBar) = Len(db)
<1>1. db \in Seq(Row) /\ Len(db) \in Nat /\ DOMAIN db = 1 .. Len(db)
  BY LenProperties DEF TypeOK
<1>2. \A id \in 1 .. Len(db) : db[id] \in Row
  BY <1>1, ElementOfSeq
<1>3. \A id \in 1 .. Len(db) : db[id].exit_code \in Int
  BY <1>2 DEF Row
<1>4. rowsBar \in [1 .. Len(db) -> LedgerRow]
  BY <1>1, <1>3 DEF rowsBar, LedgerRow
<1>5. rowsBar \in Seq(LedgerRow)
  BY <1>1, <1>4, SeqDef
<1> QED BY <1>1, <1>4, <1>5, LenProperties

\* InsertRun: a run is recorded.
LEMMA CreateStep ==
    ASSUME LedgerInv, NEW c \in Clients, InsertRun(c), UNCHANGED unkept,
           db' = Append(db, [status |-> CREATED, exit_code |-> -1])
    PROVE  Ledger!Create
<1>1. TypeOK
  BY DEF LedgerInv, Inv
<1> DEFINE row == [status |-> CREATED, exit_code |-> -1]
           n == Len(db)
<1>2. row \in Row /\ db \in Seq(Row)
  BY <1>1 DEF Row, TypeOK
<1>3. /\ n \in Nat
      /\ DOMAIN db' = 1 .. n + 1
      /\ \A id \in 1 .. n : db'[id] = db[id]
      /\ db'[n + 1] = row
  BY <1>1, <1>2, AppendProperties, LenProperties
<1>4. Append(rowsBar, Ledger!Unfinished) = rowsBar'
  <2>1. Ledger!Unfinished = [finished |-> FALSE, exit_code |-> -1]
    BY DEF Ledger!Unfinished
  <2>2. Ledger!Unfinished \in LedgerRow
    BY <2>1 DEF LedgerRow
  <2> DEFINE longer == Append(rowsBar, Ledger!Unfinished)
  <2>3. /\ longer \in Seq(LedgerRow)
        /\ Len(longer) = n + 1
        /\ \A id \in 1 .. n : longer[id] = rowsBar[id]
        /\ longer[n + 1] = Ledger!Unfinished
    BY <1>1, <2>2, RowsShape, AppendProperties
  <2>4. longer = [id \in 1 .. n + 1 |-> longer[id]]
    BY <2>3, LenProperties
  <2>5. rowsBar' = [id \in 1 .. n + 1 |-> rowsBar'[id]]
    BY <1>3 DEF rowsBar
  <2>6. ASSUME NEW id \in 1 .. n + 1 PROVE longer[id] = rowsBar'[id]
    <3>1. CASE id \in 1 .. n
      BY <1>1, <1>3, <2>3, <3>1, RowsShape DEF rowsBar
    <3>2. CASE id = n + 1
      <4>1. rowsBar'[id] = [finished |-> db'[id].status = FINISHED, exit_code |-> db'[id].exit_code]
        BY <1>3 DEF rowsBar
      <4>2. db'[id].exit_code = -1 /\ (db'[id].status = FINISHED) = FALSE
        BY <1>3, <3>2 DEF CREATED, FINISHED
      <4>3. rowsBar'[id] = Ledger!Unfinished
        BY <2>1, <4>1, <4>2
      <4> QED BY <2>3, <3>2, <4>3
    <3>3. id \in 1 .. n \/ id = n + 1
      BY <1>3
    <3> HIDE DEF longer
    <3> QED BY <3>1, <3>2, <3>3
  <2> HIDE DEF longer
  <2>7. longer = rowsBar'
    BY <2>4, <2>5, <2>6
  <2> QED BY <2>7 DEF longer
<1>5. ackedBar' = ackedBar
  BY <1>1 DEF ackedBar, InsertRun, TypeOK
<1>6. Attempted' = Attempted /\ outcomes' = outcomes
  BY DEF InsertRun, Attempted
<1> QED BY <1>4, <1>5, <1>6 DEF Ledger!Create, rowsBar, ackedBar

\* InsertRun again: an id is given out, and there is no row.
LEMMA MisplaceStep ==
    ASSUME LedgerInv, NEW c \in Clients, InsertRun(c), UNCHANGED db,
           unkept' = unkept \union {Len(db) + 1}
    PROVE  Ledger!Misplace
<1>1. TypeOK
  BY DEF LedgerInv, Inv
<1>2. Len(rowsBar) = Len(db)
  BY <1>1, RowsShape
<1>3. ackedBar' = ackedBar
  BY <1>1 DEF ackedBar, InsertRun, TypeOK
<1>4. rowsBar' = rowsBar /\ Attempted' = Attempted /\ outcomes' = outcomes
  BY DEF InsertRun, Attempted, rowsBar
<1> QED BY <1>2, <1>3, <1>4 DEF Ledger!Misplace, rowsBar, ackedBar

\* RespondRun: a client is told.
LEMMA AcknowledgeStep ==
    ASSUME LedgerInv, NEW c \in Clients, RespondRun(c)
    PROVE  Ledger!Next \/ Invisible
<1>1. TypeOK /\ Owned /\ IdsExist
  BY DEF LedgerInv, Inv, Custody
<1>2. cpc[c] = "queued" /\ UNCHANGED <<db, crun, attempts, outcomes, unkept>>
  BY DEF RespondRun, history
<1>3. CASE cpc' = [cpc EXCEPT ![c] = "failed"]
  <2>1. ackedBar' = ackedBar
    BY <1>1, <1>2, <1>3 DEF ackedBar, TypeOK
  <2> QED BY <1>2, <2>1 DEF Invisible
<1>4. CASE cpc' = [cpc EXCEPT ![c] = "ok"]
  <2>1. PICK r : r = crun[c]
    OBVIOUS
  <2>2. r # 0 /\ r \in DOMAIN rowsBar \union unkept
    BY <1>1, <1>2, <2>1, RowsShape DEF Owned, IdsExist, Known
  <2>3. ackedBar[c] = 0 /\ (r \notin unkept => \A d \in Clients : ackedBar[d] # r)
    BY <2>2, <1>1, <1>2, <2>1 DEF ackedBar, Owned
  <2>4. ackedBar' = [ackedBar EXCEPT ![c] = r]
    BY <1>1, <1>2, <1>4, <2>1 DEF ackedBar, TypeOK
  <2>5. rowsBar' = rowsBar /\ Attempted' = Attempted
    BY <1>2 DEF rowsBar, Attempted
  <2>6. Ledger!Acknowledge(c, r)
    BY <1>2, <2>3, <2>4, <2>5 DEF Ledger!Acknowledge, rowsBar, ackedBar
  <2> QED BY <2>2, <2>6 DEF Ledger!Next, rowsBar
<1> QED BY <1>3, <1>4 DEF RespondRun

\* TakeRun: a worker begins a run nobody has begun or finished, or one that
\* cannot be told from a run that is gone.
LEMMA AttemptStep ==
    ASSUME LedgerInv, NEW w \in Workers, TakeRun(w)
    PROVE  Ledger!Next
<1>1. TypeOK /\ IdsExist /\ InboxCustody /\ OutcomeCustody /\ Results
  BY DEF LedgerInv, Inv, Custody
<1>2. inbox[w] # 0
  BY DEF TakeRun
<1>3. PICK r : r = inbox[w]
  OBVIOUS
<1>4. r \in DOMAIN db \union unkept
  BY <1>1, <1>2, <1>3, RowsShape DEF IdsExist, Known
<1>5. r \notin unkept => r \notin Attempted
  BY <1>1, <1>2, <1>3 DEF InboxCustody
<1>6. r \notin unkept => db[r].status # FINISHED
  <2> SUFFICES ASSUME r \notin unkept, db[r].status = FINISHED PROVE FALSE
    OBVIOUS
  <2>1. <<r, db[r].exit_code>> \in outcomes
    BY <1>1, <1>4 DEF Results
  <2> QED BY <1>1, <1>5, <2>1 DEF OutcomeCustody
<1>7. Attempted' = Attempted \union {r}
  <2> DEFINE attempt == [run |-> inbox[w], conn |-> <<w, session[w]>>]
  <2>1. attempts' = attempts \union {attempt} /\ attempt.run = r
    BY <1>3 DEF TakeRun
  <2> HIDE DEF attempt
  <2> QED BY <2>1 DEF Attempted
<1>8. rowsBar' = rowsBar /\ ackedBar' = ackedBar /\ outcomes' = outcomes /\ unkept' = unkept
  BY DEF TakeRun, rowsBar, ackedBar, clientVars
<1>9. r \notin unkept => ~rowsBar[r].finished
  BY <1>4, <1>6 DEF rowsBar
<1>10. Ledger!Attempt(r)
  BY <1>5, <1>7, <1>8, <1>9 DEF Ledger!Attempt, rowsBar, ackedBar
<1>11. r \in DOMAIN rowsBar \union unkept
  BY <1>4 DEF rowsBar
<1> QED BY <1>10, <1>11 DEF Ledger!Next, rowsBar

\* WorkerRun: the attempt of a run produces an exit code.
LEMMA ProduceStep ==
    ASSUME LedgerInv, NEW w \in Workers, WorkerRun(w), ~WorkerEnds(w)
    PROVE  Ledger!Next
<1>1. TypeOK /\ IdsExist /\ WorkerCustody
  BY DEF LedgerInv, Inv, Custody
<1>2. PICK r : r = wrun[w]
  OBVIOUS
<1>3. PICK ec \in ExitCodes :
        /\ outcomes' = outcomes \union {<<wrun[w], ec>>}
        /\ UNCHANGED <<db, clientVars, attempts, unkept>>
  BY DEF WorkerRun, WorkerEnds
<1>4. r \in Attempted /\ (r \notin unkept => \A o \in outcomes : o[1] # r)
  <2>1. /\ [run |-> r, conn |-> <<w, session[w]>>] \in attempts
        /\ r \notin unkept => \A o \in outcomes : o[1] # r
    BY <1>1, <1>2 DEF WorkerRun, WorkerCustody
  <2> QED BY <2>1 DEF Attempted
<1>5. r \in DOMAIN rowsBar \union unkept
  BY <1>1, <1>4, RowsShape DEF IdsExist, Attempted, Known
<1>6. rowsBar' = rowsBar /\ ackedBar' = ackedBar /\ Attempted' = Attempted
  BY <1>3 DEF rowsBar, ackedBar, Attempted, clientVars
<1>7. Ledger!Produce(r, ec)
  BY <1>2, <1>3, <1>4, <1>6 DEF Ledger!Produce, rowsBar, ackedBar
<1> QED BY <1>5, <1>7 DEF Ledger!Next, rowsBar

\* HandleFinishedRun: a row that is not finished gets its result; one that is
\* would get the same again, unless its id is another run's too; and without a
\* row nothing happens.
LEMMA FinishStep ==
    ASSUME LedgerInv, [Next]_vars, NEW m \in threads, HandleFinishedRun(m),
           storage_run_finished(m.run, m.exit_code)
    PROVE  Ledger!Next \/ Invisible
<1>1. TypeOK /\ IdsExist /\ OutcomeCustody /\ Owned
  BY DEF LedgerInv, Inv, Custody
<1>2. PICK r, ec : r = m.run /\ ec = m.exit_code
  OBVIOUS
<1>3. <<r, ec>> \in outcomes
  BY <1>1, <1>2 DEF OutcomeCustody, HandleFinishedRun
<1>4. ec \in ExitCodes
  BY <1>1, <1>3 DEF Owned
<1>5. db' = [db EXCEPT ![r] = [status |-> FINISHED, exit_code |-> ec]]
  BY <1>2 DEF storage_run_finished
<1>6. ackedBar' = ackedBar /\ UNCHANGED <<attempts, outcomes, unkept>> /\ Attempted' = Attempted
  BY DEF HandleFinishedRun, ackedBar, Attempted, clientVars, history
<1>7. CASE r \notin DOMAIN db
  <2>1. db' = db
    BY <1>1, <1>7, <1>5 DEF TypeOK
  <2> QED BY <1>6, <2>1 DEF Invisible
<1>8. CASE r \in DOMAIN db \ unkept /\ db[r].status = FINISHED
  <2>1. db'[r] = db[r]
    BY <1>8, RowsStay DEF LedgerInv
  <2>2. db' = db
    <3>1. \A id \in DOMAIN db : db'[id] = db[id]
      BY <1>5, <2>1
    <3>2. db \in Seq(Row) /\ DOMAIN db' = DOMAIN db
      BY <1>1, <1>5 DEF TypeOK
    <3>3. db = [id \in DOMAIN db |-> db[id]]
      BY <3>2, LenProperties
    <3>4. db' = [id \in DOMAIN db |-> db'[id]]
      BY <1>5, <3>2
    <3> QED BY <3>1, <3>3, <3>4
  <2> QED BY <1>6, <2>2 DEF Invisible
<1>9. CASE r \in DOMAIN db /\ (r \in unkept \/ db[r].status # FINISHED)
  <2>1. r \in DOMAIN rowsBar /\ (r \in unkept \/ ~rowsBar[r].finished)
    BY <1>9 DEF rowsBar
  <2>2. rowsBar' = [rowsBar EXCEPT ![r] = Ledger!Finished(ec)]
    <3>1. DOMAIN db' = DOMAIN db
      BY <1>5
    <3>2. rowsBar' = [id \in DOMAIN db |->
                        [finished |-> db'[id].status = FINISHED, exit_code |-> db'[id].exit_code]]
      BY <3>1 DEF rowsBar
    <3>3. Ledger!Finished(ec) = [finished |-> TRUE, exit_code |-> ec]
      BY DEF Ledger!Finished
    <3>4. db'[r] = [status |-> FINISHED, exit_code |-> ec]
      BY <1>5, <1>9
    <3>5. (db'[r].status = FINISHED) = TRUE /\ db'[r].exit_code = ec
      BY <3>4
    <3>6. rowsBar'[r] = Ledger!Finished(ec)
      BY <1>9, <3>2, <3>3, <3>5
    <3>7. \A id \in DOMAIN db \ {r} : rowsBar'[id] = rowsBar[id]
      BY <1>5, <3>2 DEF rowsBar
    <3> QED BY <1>9, <3>2, <3>6, <3>7 DEF rowsBar
  <2>3. Ledger!Finish(r, ec)
    BY <1>3, <1>6, <2>1, <2>2 DEF Ledger!Finish, rowsBar, ackedBar
  <2> QED BY <1>4, <2>1, <2>3 DEF Ledger!Next, rowsBar
<1> QED BY <1>7, <1>8, <1>9

-----------------------------------------------------------------------------
(* The refinement *)

\* Everything else happens behind the ledger's back.
LEMMA OtherServerSteps ==
    ASSUME TypeOK, ServerNext, UNCHANGED db
    PROVE  Invisible
<1>1. UNCHANGED <<attempts, outcomes, crun, unkept>>
  BY
  DEF ServerNext, ServerStart, Accept, ServerStop, ListenFail, ServerExit, ServerCrash, ProcessGone,
      server_assign_run, AssignHeads, HandleNewWorker, HandleFinishedRun, clientVars, history
<1>2. \A c \in Clients : cpc'[c] = "ok" <=> cpc[c] = "ok"
  <2>1. CASE ServerExit \/ ServerCrash
    BY <2>1 DEF ServerExit, ServerCrash, ProcessGone, TypeOK
  <2>2. CASE Accept \/ ServerStop \/ ListenFail
    BY <2>2 DEF Accept, ServerStop, ListenFail, tcp_server_accept, TypeOK
  <2>3. CASE ServerStart \/ server_assign_run \/ \E m \in threads : HandleNewWorker(m) \/ HandleFinishedRun(m)
    BY <2>3
    DEF ServerStart, server_assign_run, AssignHeads, HandleNewWorker, HandleFinishedRun, clientVars
  <2> QED BY <2>1, <2>2, <2>3 DEF ServerNext
<1>3. ackedBar' = ackedBar
  BY <1>1, <1>2 DEF ackedBar
<1> QED BY <1>1, <1>3 DEF Invisible

LEMMA OtherClientSteps ==
    ASSUME TypeOK, NEW c \in Clients, ClientNext(c), UNCHANGED <<db, unkept>>, ~RespondRun(c)
    PROVE  Invisible
<1>1. CASE ClientSend(c) \/ EnqueueRun(c)
  BY <1>1 DEF Invisible, ackedBar, ClientSend, EnqueueRun, TypeOK, history
<1>2. CASE InsertRun(c)
  <2>1. cpc[c] # "ok" /\ cpc' \in {[cpc EXCEPT ![c] = "failed"], [cpc EXCEPT ![c] = "inserted"]}
    BY <1>2 DEF InsertRun
  <2>2. UNCHANGED <<attempts, outcomes>> /\ \A d \in Clients \ {c} : crun'[d] = crun[d]
    BY <1>2 DEF InsertRun, TypeOK
  <2>3. ackedBar' = ackedBar
    BY <2>1, <2>2 DEF ackedBar, TypeOK
  <2> QED BY <2>2, <2>3 DEF Invisible
<1> QED BY <1>1, <1>2 DEF ClientNext

LEMMA OtherWorkerSteps ==
    ASSUME NEW w \in Workers, WorkerNext(w),
           ~TakeRun(w), ~WorkerRun(w) \/ WorkerEnds(w)
    PROVE  Invisible
<1>1. UNCHANGED <<db, clientVars, attempts, outcomes, unkept>>
  BY
  DEF WorkerNext, WorkerStep, WorkerStart, WorkerRegister, SeeEOF, SeeSignal, WorkerEnds,
      WorkerReport, WorkerSignal, WorkerCrash, WorkerGone, history
<1> QED BY <1>1 DEF Invisible, ackedBar, clientVars

LEMMA LedgerStep ==
    ASSUME LedgerInv, [Next]_vars
    PROVE  Ledger!Next \/ Invisible
<1>1. TypeOK
  BY DEF LedgerInv, Inv
<1>2. CASE ServerNext
  <2>1. CASE UNCHANGED db
    BY <1>1, <1>2, <2>1, OtherServerSteps
  <2>2. CASE \E m \in threads : HandleFinishedRun(m) /\ storage_run_finished(m.run, m.exit_code)
    BY <2>2, FinishStep
  <2> QED
    BY <1>2, <2>1, <2>2
    DEF ServerNext, ServerStart, Accept, ServerStop, ListenFail, ServerExit, ServerCrash, ProcessGone,
        server_assign_run, AssignHeads, HandleNewWorker, HandleFinishedRun
<1>3. CASE \E c \in Clients : ClientNext(c)
  <2>1. PICK c \in Clients : ClientNext(c)
    BY <1>3
  <2>2. CASE RespondRun(c)
    BY <2>2, AcknowledgeStep
  <2>3. CASE InsertRun(c) /\ storage_run_create
    BY <2>3, CreateStep, MisplaceStep DEF Ledger!Next, storage_run_create, Inserts
  <2>4. CASE UNCHANGED <<db, unkept>> /\ ~RespondRun(c)
    BY <1>1, <2>1, <2>4, OtherClientSteps
  <2> QED
    BY <2>1, <2>2, <2>3, <2>4
    DEF ClientNext, ClientSend, InsertRun, EnqueueRun, history
<1>4. CASE \E w \in Workers : WorkerNext(w)
  BY <1>4, AttemptStep, ProduceStep, OtherWorkerSteps
<1>5. CASE UNCHANGED vars
  BY <1>5 DEF Invisible, ackedBar, vars, clientVars, history
<1> QED BY <1>2, <1>3, <1>4, <1>5 DEF Next

\* Cimple, with all its failures and restarts, implements the ledger of runs:
\* a run is recorded, begun at most once, finished at most once with what that
\* attempt produced, and no two clients are answered for the same one - except
\* under an id that was given out for a row that a failed commit rolled back.
\* The ledger says what is left then: what is written next to such an id was
\* produced under it.
THEOREM Refinement == Spec => ImplementsLedger
<1>1. Init => LedgerInv
  BY InitCustody, InitOwned DEF LedgerInv
<1>2. LedgerInv /\ [Next]_vars => [Ledger!Next]_(Ledger!vars)
  BY LedgerStep, InvisibleStutters
<1> QED BY <1>1, <1>2, InitLedger, LedgerInvStep, PTL DEF Spec, ImplementsLedger, Ledger!Spec
===============================================================================
