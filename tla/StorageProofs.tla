----------------------------- MODULE StorageProofs -----------------------------
(***************************************************************************)
(* Proofs about Storage for any number of threads, repositories and rows:  *)
(* every run refers to a repository that exists, whatever fails; nothing   *)
(* is left uncommitted; only a whole schema is served; and, where nothing  *)
(* failed, rows are those asked for.                                       *)
(***************************************************************************)
EXTENDS Storage, TLAPS

\* A database whose runs all refer to repositories of its own.
Referential(db) == \A i \in DOMAIN db.runs : db.runs[i].repo \in DOMAIN db.repos

\* Between its lock and its unlock a thread has the statement to itself: what
\* it steps are the arguments that it bound, those of its own call.
OwnsStatement(t) ==
    LET at == thread[t].at
        args == thread[t].args
    IN  /\ thread[t].pc \in {"bind", "step", "reset", "unlock"} => holder[at] = t
        /\ thread[t].pc = "step" => bound[at] = args
        /\ thread[t].pc # "idle" /\ at # "run_finished" => args.url \in Urls /\ args.rev \in Revs
        /\ thread[t].pc # "idle" /\ at = "run_finished" => args.ec \in ExitCodes

\* What a rollback returns to is as good as what it gives up.
Inv ==
    /\ TypeOK
    /\ Referential(cur)
    /\ Referential(disk)
    /\ \A t \in Threads : OwnsStatement(t)

\* Rows are added, and a row is finished, without loss of a reference.
LEMMA AppendRepo ==
    ASSUME NEW db \in Database, Referential(db), NEW u \in Urls
    PROVE  LET new == [db EXCEPT !.repos = Append(@, u)]
           IN  new \in Database /\ Referential(new)
<1> DEFINE new == [db EXCEPT !.repos = Append(@, u)]
<1>1. db.repos \in Seq(Urls) /\ db.runs \in Seq(Run)
  BY DEF Database
<1>2. new.repos = Append(db.repos, u) /\ new.runs = db.runs
  BY DEF Database
<1>3. new.repos \in Seq(Urls) /\ DOMAIN new.repos = 1 .. Len(db.repos) + 1
  BY <1>1, <1>2
<1>4. DOMAIN db.repos \subseteq DOMAIN new.repos
  BY <1>1, <1>3
<1>5. new \in Database
  BY <1>3 DEF Database
<1>6. Referential(new)
  BY <1>2, <1>4 DEF Referential
<1> QED
  BY <1>5, <1>6

LEMMA AppendRun ==
    ASSUME NEW db \in Database, Referential(db),
           NEW repo \in DOMAIN db.repos, NEW r \in Revs
    PROVE  LET new == [db EXCEPT !.runs = Append(@, [repo |-> repo, rev |-> r, ec |-> None])]
           IN  new \in Database /\ Referential(new)
<1> DEFINE row == [repo |-> repo, rev |-> r, ec |-> None]
           new == [db EXCEPT !.runs = Append(@, row)]
<1>1. db.repos \in Seq(Urls) /\ db.runs \in Seq(Run)
  BY DEF Database
<1>2. row \in Run
  BY <1>1 DEF Run
<1>3. new.repos = db.repos /\ new.runs = Append(db.runs, row)
  BY DEF Database
<1>4. new.runs \in Seq(Run)
  BY <1>1, <1>2, <1>3
<1>5. new \in Database
  BY <1>4 DEF Database
<1>6. ASSUME NEW i \in DOMAIN new.runs
      PROVE  new.runs[i].repo \in DOMAIN new.repos
  <2>1. i \in 1 .. Len(db.runs) + 1
    BY <1>1, <1>2, <1>3
  <2>2. CASE i = Len(db.runs) + 1
    BY <1>1, <1>2, <1>3, <2>2
  <2>3. CASE i # Len(db.runs) + 1
    BY <1>1, <1>2, <1>3, <2>1, <2>3 DEF Referential
  <2> QED
    BY <2>2, <2>3
<1> QED
  BY <1>5, <1>6 DEF Referential

LEMMA FinishRun ==
    ASSUME NEW db \in Database, Referential(db), NEW id \in DOMAIN db.runs,
           NEW ec \in ExitCodes
    PROVE  LET new == [db EXCEPT !.runs[id].ec = ec]
           IN  new \in Database /\ Referential(new)
<1> DEFINE row == [db.runs[id] EXCEPT !.ec = ec]
           new == [db EXCEPT !.runs[id].ec = ec]
<1>1. db.runs \in Seq(Run) /\ db.runs[id] \in Run
  BY DEF Database
<1>2. row \in Run /\ row.repo = db.runs[id].repo
  BY <1>1 DEF Run
<1>3. new.repos = db.repos /\ new.runs = [db.runs EXCEPT ![id] = row]
  BY DEF Database
<1>4. new.runs \in Seq(Run)
  BY <1>1, <1>2, <1>3
<1>5. new \in Database
  BY <1>4 DEF Database
<1>6. Referential(new)
  BY <1>1, <1>2, <1>3 DEF Referential
<1> QED
  BY <1>5, <1>6

-----------------------------------------------------------------------------
(* The state of a thread *)

ThreadState == [pc : {"idle", "lock", "bind", "step", "reset", "unlock"}, at : Prepared, args : Arguments]

\* Idle threads and cleared bindings have the types of all others.
LEMMA IdleTyped == NoArguments \in Arguments /\ Idle \in ThreadState
  BY DEF NoArguments, Idle, Arguments, ThreadState, Prepared

LEMMA GotoTyped ==
    ASSUME thread \in [Threads -> ThreadState], NEW t \in Threads,
           NEW pc \in {"idle", "lock", "bind", "step", "reset", "unlock"}
    PROVE  /\ Goto(t, pc) => thread' \in [Threads -> ThreadState]
           /\ \A ret \in Int : GotoWith(t, pc, ret) => thread' \in [Threads -> ThreadState]
<1>1. thread[t] \in ThreadState
  OBVIOUS
<1>2. [thread[t] EXCEPT !.pc = pc] \in ThreadState
  BY <1>1 DEF ThreadState
<1>3. ASSUME NEW ret \in Int
      PROVE  [thread[t] EXCEPT !.pc = pc, !.args.ret = ret] \in ThreadState
  BY <1>1 DEF ThreadState, Arguments
<1>4. Goto(t, pc) => thread' = [thread EXCEPT ![t] = [thread[t] EXCEPT !.pc = pc]]
  BY DEF Goto
<1>5. ASSUME NEW ret \in Int, GotoWith(t, pc, ret)
      PROVE  thread' = [thread EXCEPT ![t] = [thread[t] EXCEPT !.pc = pc, !.args.ret = ret]]
  BY <1>5 DEF GotoWith
<1> QED
  BY <1>2, <1>3, <1>4, <1>5

\* What a thread does to its own statement does not concern the others.
LEMMA OthersKeep ==
    ASSUME Inv, NEW t \in Threads, NEW s \in Prepared,
           holder[s] \in {t, None},
           \A u \in Threads \ {t} : thread'[u] = thread[u],
           \A r \in Prepared \ {s} : holder'[r] = holder[r] /\ bound'[r] = bound[r],
           OwnsStatement(t)'
    PROVE  \A u \in Threads : OwnsStatement(u)'
<1> SUFFICES ASSUME NEW u \in Threads \ {t} PROVE OwnsStatement(u)'
  OBVIOUS
<1>1. OwnsStatement(u) /\ thread[u].at \in Prepared /\ thread'[u] = thread[u]
  BY DEF Inv, TypeOK
<1>2. CASE thread[u].at = s
  <2>1. holder[s] # u
    BY NoneAssumption
  <2>2. thread[u].pc \notin {"bind", "step", "reset", "unlock"}
    BY <1>1, <1>2, <2>1 DEF OwnsStatement
  <2> QED
    BY <1>1, <2>2 DEF OwnsStatement
<1>3. CASE thread[u].at # s
  <2>1. holder'[thread[u].at] = holder[thread[u].at] /\ bound'[thread[u].at] = bound[thread[u].at]
    BY <1>1, <1>3
  <2> QED
    BY <1>1, <2>1 DEF OwnsStatement
<1> QED
  BY <1>2, <1>3

\* A thread that bound or stepped goes on with the statement its own.
LEMMA ResetOwns ==
    ASSUME Inv, NEW t \in Threads, NEW ret \in Int,
           thread[t].pc \in {"bind", "step"},
           GotoWith(t, "reset", ret), UNCHANGED <<holder, bound>>
    PROVE  \A u \in Threads : OwnsStatement(u)'
<1>1. thread[t] \in ThreadState /\ thread \in [Threads -> ThreadState] /\ OwnsStatement(t)
  BY DEF Inv, TypeOK, ThreadState
<1>2. \A u \in Threads \ {t} : thread'[u] = thread[u]
  BY <1>1 DEF GotoWith
<1>3. /\ thread'[t].pc = "reset"
      /\ thread'[t].at = thread[t].at
      /\ thread'[t].args.url = thread[t].args.url
      /\ thread'[t].args.rev = thread[t].args.rev
      /\ thread'[t].args.ec = thread[t].args.ec
  BY <1>1 DEF GotoWith, ThreadState, Arguments
<1>4. holder[thread[t].at] = t /\ thread[t].at \in Prepared
  BY <1>1 DEF OwnsStatement, ThreadState
<1>5. OwnsStatement(t)'
  BY <1>1, <1>3, <1>4 DEF OwnsStatement
<1> QED
  BY <1>2, <1>4, <1>5, OthersKeep

\* What Inv says of the databases, and what is left of it.
Databases == cur \in Database /\ disk \in Database /\ Referential(cur) /\ Referential(disk)

\* A writing statement that is done leaves databases with all references.
LEMMA DoneKeeps ==
    ASSUME Inv, NEW t \in Threads, NEW db \in Database, Referential(db), NEW ret \in Int,
           Done(t, db, ret), thread[t].pc = "step", UNCHANGED <<holder, bound>>
    PROVE  /\ Databases'
           /\ \A u \in Threads : OwnsStatement(u)'
           /\ thread' \in [Threads -> ThreadState]
           /\ active' = active
           /\ failures' \in 0 .. MaxFailures
<1>1. Databases /\ thread \in [Threads -> ThreadState] /\ failures \in 0 .. MaxFailures
  BY DEF Inv, TypeOK, Databases, ThreadState
<1>2. cur' \in {db, cur, disk} /\ disk' \in {db, disk} /\ active' = active
  BY DEF Done
<1>3. Databases'
  BY <1>1, <1>2 DEF Databases, Referential
<1>4. GotoWith(t, "reset", ret) \/ GotoWith(t, "reset", -1)
  BY DEF Done
<1>5. thread' \in [Threads -> ThreadState]
  BY <1>1, <1>4, GotoTyped
<1>6. failures' \in 0 .. MaxFailures
  BY <1>1, NumbersAssumption DEF Done, Fine, Fail
<1>7. \A u \in Threads : OwnsStatement(u)'
  BY <1>4, ResetOwns
<1> QED
  BY <1>2, <1>3, <1>5, <1>6, <1>7

-----------------------------------------------------------------------------
(* The invariant *)

LEMMA InvInit == Init => Inv
<1> SUFFICES ASSUME Init PROVE Inv
  OBVIOUS
<1>1. cur \in Database /\ disk \in Database
  BY DEF Init, Database
<1>2. Referential(cur) /\ Referential(disk)
  BY DEF Init, Referential
<1>3. TypeOK
  BY <1>1, IdleTyped, NumbersAssumption DEF Init, TypeOK, ThreadState
<1>4. ASSUME NEW t \in Threads PROVE OwnsStatement(t)
  BY DEF Init, Idle, OwnsStatement
<1> QED
  BY <1>1, <1>2, <1>3, <1>4 DEF Inv

\* The server starts, upgrades the schema and ends.
LEMMA StartKeeps ==
    ASSUME Inv, ServerStart \/ UpgradeStatement \/ ServerCrash
    PROVE  Inv'
<1> USE DEF Inv
<1>1. CASE ServerStart
  <2>1. starts' \in 0 .. MaxStarts
    BY <1>1, NumbersAssumption DEF ServerStart, TypeOK
  <2>2. next' \in 1 .. Statements + 1
    BY <1>1, NumbersAssumption DEF ServerStart
  <2>3. TypeOK'
    BY <1>1, <2>1, <2>2 DEF ServerStart, TypeOK
  <2> QED
    BY <1>1, <2>3 DEF ServerStart, Referential, OwnsStatement
<1>2. CASE UpgradeStatement
  <2>1. Len(script) = Statements + 1
    BY NumbersAssumption DEF script
  <2>2. next' \in 1 .. Statements + 1
    BY <1>2, <2>1, NumbersAssumption DEF UpgradeStatement, TypeOK
  <2>3. failures' \in 0 .. MaxFailures
    BY <1>2, NumbersAssumption DEF UpgradeStatement, TypeOK, Fine, Fail
  <2>4. disk' \in Database /\ disk'.runs = disk.runs /\ disk'.repos = disk.repos
    <3>1. \/ disk' = disk
          \/ disk' = [disk EXCEPT !.version = 1]
          \/ disk' = [disk EXCEPT !.objects = @ \union {next}]
      BY <1>2, Zenon DEF UpgradeStatement
    <3>2. disk \in Database /\ next \in 1 .. Statements + 1
      BY DEF TypeOK
    <3> QED
      BY <3>1, <3>2 DEF Database
  <2>5. cur' = disk' /\ server' \in {"down", "upgrading", "serving"}
    BY <1>2 DEF UpgradeStatement
  <2>6. TypeOK'
    BY <1>2, <2>2, <2>3, <2>4, <2>5 DEF UpgradeStatement, TypeOK
  <2> QED
    BY <1>2, <2>4, <2>5, <2>6 DEF UpgradeStatement, Referential, OwnsStatement
<1>3. CASE ServerCrash
  <2>1. next' \in 1 .. Statements + 1
    BY <1>3, NumbersAssumption DEF ServerCrash
  <2>2. /\ holder' \in [Prepared -> Threads \union {None}]
        /\ bound' \in [Prepared -> Arguments]
        /\ thread' \in [Threads -> ThreadState]
    BY <1>3, IdleTyped DEF ServerCrash
  <2>3. TypeOK'
    BY <1>3, <2>1, <2>2 DEF ServerCrash, TypeOK, ThreadState
  <2>4. ASSUME NEW t \in Threads PROVE OwnsStatement(t)'
    BY <1>3 DEF ServerCrash, Idle, OwnsStatement
  <2> QED
    BY <1>3, <2>3, <2>4 DEF ServerCrash, Referential
<1> QED
  BY <1>1, <1>2, <1>3

\* A step that leaves the start of the server alone keeps Inv if it keeps
\* these.
LEMMA ThreadKeeps ==
    ASSUME Inv, UNCHANGED upgradeVars, Databases',
           holder' \in [Prepared -> Threads \union {None}],
           bound' \in [Prepared -> Arguments],
           active' \in SUBSET {"run_insert"},
           thread' \in [Threads -> ThreadState],
           returned' \subseteq [url : Urls, rev : Revs, id : Nat],
           reported' \subseteq [id : Nat, ec : ExitCodes],
           failures' \in 0 .. MaxFailures,
           \A u \in Threads : OwnsStatement(u)'
    PROVE  Inv'
  BY DEF Inv, TypeOK, Databases, upgradeVars, ThreadState

\* A client thread calls, waits for a mutex, binds arguments.
LEMMA CallKeeps ==
    ASSUME Inv, NEW t \in Threads, Call(t) \/ Lock(t) \/ Bind(t)
    PROVE  Inv'
<1> USE DEF Inv
<1>1. Databases /\ thread \in [Threads -> ThreadState] /\ thread[t] \in ThreadState
  BY DEF TypeOK, Databases, ThreadState
<1>2. CASE Call(t)
  <2>1. ASSUME NEW u \in Urls, NEW r \in Revs
        PROVE  [pc |-> "lock", at |-> "repo_insert",
                args |-> [url |-> u, rev |-> r, ret |-> 0, id |-> 0, ec |-> None]] \in ThreadState
    BY DEF ThreadState, Prepared, Arguments
  <2>2. ASSUME NEW run \in returned, NEW ec \in ExitCodes
        PROVE  [pc |-> "lock", at |-> "run_finished",
                args |-> [url |-> None, rev |-> None, ret |-> 0, id |-> run.id, ec |-> ec]] \in ThreadState
    <3>1. run.id \in Nat
      BY DEF TypeOK
    <3> QED
      BY <3>1 DEF ThreadState, Prepared, Arguments
  <2>3. thread' \in [Threads -> ThreadState]
    BY <1>1, <1>2, <2>1, <2>2 DEF Call
  <2>4. TypeOK'
    BY <1>2, <2>3 DEF Call, TypeOK, upgradeVars, ThreadState
  <2>5. /\ thread[t].pc = "idle"
        /\ \A u \in Threads \ {t} : thread'[u] = thread[u]
        /\ UNCHANGED <<holder, bound>>
    BY <1>1, <1>2 DEF Call
  <2>6. /\ thread'[t].pc = "lock"
        /\ \/ thread'[t].at = "run_finished" /\ thread'[t].args.ec \in ExitCodes
           \/ thread'[t].at = "repo_insert" /\ thread'[t].args.url \in Urls /\ thread'[t].args.rev \in Revs
    <3>1. ASSUME NEW u \in Urls, NEW r \in Revs,
                 thread' = [thread EXCEPT ![t] = [pc |-> "lock", at |-> "repo_insert",
                            args |-> [url |-> u, rev |-> r, ret |-> 0, id |-> 0, ec |-> None]]]
          PROVE  /\ thread'[t].pc = "lock" /\ thread'[t].at = "repo_insert"
                 /\ thread'[t].args.url \in Urls /\ thread'[t].args.rev \in Revs
      BY <1>1, <3>1
    <3>2. ASSUME NEW run \in returned, NEW ec \in ExitCodes,
                 thread' = [thread EXCEPT ![t] = [pc |-> "lock", at |-> "run_finished",
                            args |-> [url |-> None, rev |-> None, ret |-> 0, id |-> run.id, ec |-> ec]]]
          PROVE  thread'[t].pc = "lock" /\ thread'[t].at = "run_finished" /\ thread'[t].args.ec \in ExitCodes
      BY <1>1, <3>2
    <3> QED
      BY <1>2, <3>1, <3>2 DEF Call
  <2>7. OwnsStatement(t)'
    BY <2>6 DEF OwnsStatement
  <2>8. ASSUME NEW u \in Threads \ {t} PROVE OwnsStatement(u)'
    BY <2>5 DEF OwnsStatement
  <2> QED
    BY <1>2, <2>4, <2>7, <2>8 DEF Call, Referential
<1>3. CASE Lock(t)
  <2>1. thread' \in [Threads -> ThreadState]
    BY <1>1, <1>3, GotoTyped DEF Lock
  <2>2. holder' \in [Prepared -> Threads \union {None}]
    BY <1>3 DEF Lock, TypeOK
  <2>3. TypeOK'
    BY <1>3, <2>1, <2>2 DEF Lock, TypeOK, upgradeVars, ThreadState
  <2>4. OwnsStatement(t)'
    BY <1>1, <1>3, <2>2 DEF Lock, Goto, OwnsStatement, ThreadState, TypeOK
  <2>5. \A u \in Threads : OwnsStatement(u)'
    <3> DEFINE at == thread[t].at
    <3>1. holder[at] \in {t, None} /\ at \in Prepared
      BY <1>1, <1>3 DEF Lock, ThreadState
    <3>2. \A u \in Threads \ {t} : thread'[u] = thread[u]
      BY <1>1, <1>3 DEF Lock, Goto
    <3>3. \A r \in Prepared \ {at} : holder'[r] = holder[r] /\ bound'[r] = bound[r]
      BY <1>3 DEF Lock, TypeOK
    <3> QED
      BY <2>4, <3>1, <3>2, <3>3, OthersKeep
  <2> QED
    BY <1>3, <2>3, <2>5 DEF Lock, Referential
<1>4. CASE Bind(t)
  <2>1. thread' \in [Threads -> ThreadState]
    BY <1>1, <1>4, GotoTyped DEF Bind
  <2>2. thread[t].args \in Arguments
    BY <1>1 DEF ThreadState
  <2>3. bound' \in [Prepared -> Arguments]
    BY <1>4, <2>2 DEF Bind, TypeOK
  <2>4. failures' \in 0 .. MaxFailures
    BY <1>4, NumbersAssumption DEF Bind, TypeOK, Fine, Fail
  <2>5. TypeOK'
    BY <1>4, <2>1, <2>3, <2>4 DEF Bind, TypeOK, upgradeVars, ThreadState
  <2>6. holder[thread[t].at] = t /\ thread[t].pc = "bind" /\ thread[t].at \in Prepared
    BY <1>1, <1>4 DEF Bind, OwnsStatement, ThreadState
  <2>7. ASSUME bound' = [bound EXCEPT ![thread[t].at] = thread[t].args], Goto(t, "step")
        PROVE  \A u \in Threads : OwnsStatement(u)'
    <3>1. OwnsStatement(t)'
      BY <1>1, <1>4, <2>6, <2>7 DEF Bind, Goto, OwnsStatement, ThreadState, TypeOK
    <3>2. \A u \in Threads \ {t} : thread'[u] = thread[u]
      BY <1>1, <2>7 DEF Goto
    <3>3. \A r \in Prepared \ {thread[t].at} : holder'[r] = holder[r] /\ bound'[r] = bound[r]
      BY <1>4, <2>7 DEF Bind, TypeOK
    <3> QED
      BY <2>6, <3>1, <3>2, <3>3, OthersKeep
  <2>8. ASSUME GotoWith(t, "reset", -1), UNCHANGED bound
        PROVE  \A u \in Threads : OwnsStatement(u)'
    BY <1>4, <2>6, <2>8, ResetOwns DEF Bind
  <2>9. \A u \in Threads : OwnsStatement(u)'
    BY <1>4, <2>7, <2>8 DEF Bind
  <2> QED
    BY <1>4, <2>5, <2>9 DEF Bind, Referential
<1> QED
  BY <1>2, <1>3, <1>4

\* The statements about repositories, and the end of a run.
LEMMA StepKeeps ==
    ASSUME Inv, NEW t \in Threads, StepRepoInsert(t) \/ StepRepoFind(t) \/ StepRunFinished(t)
    PROVE  Inv'
<1> USE DEF Inv
<1>1. /\ Databases
      /\ thread \in [Threads -> ThreadState]
      /\ bound \in [Prepared -> Arguments]
      /\ failures \in 0 .. MaxFailures
  BY DEF TypeOK, Databases, ThreadState
<1>2. ASSUME NEW db \in Database, Referential(db), Done(t, db, 0), thread[t].pc = "step",
             UNCHANGED <<upgradeVars, holder, bound, returned, reported>>
      PROVE  Inv'
  <2>1. /\ Databases'
        /\ \A u \in Threads : OwnsStatement(u)'
        /\ thread' \in [Threads -> ThreadState]
        /\ active' = active
        /\ failures' \in 0 .. MaxFailures
    BY <1>2, DoneKeeps
  <2>2. /\ holder' \in [Prepared -> Threads \union {None}]
        /\ bound' \in [Prepared -> Arguments]
        /\ active' \in SUBSET {"run_insert"}
        /\ returned' \subseteq [url : Urls, rev : Revs, id : Nat]
        /\ reported' \subseteq [id : Nat, ec : ExitCodes]
    BY <1>2, <2>1 DEF TypeOK
  <2> QED
    BY <1>2, <2>1, <2>2, ThreadKeeps
<1>3. CASE StepRepoInsert(t)
  <2> DEFINE url == bound["repo_insert"].url
             db == IF IdsOf(url) = {} THEN [cur EXCEPT !.repos = Append(@, url)] ELSE cur
  <2>1. /\ Done(t, db, 0)
        /\ UNCHANGED <<upgradeVars, holder, bound, returned, reported>>
        /\ thread[t].pc = "step"
    BY <1>3 DEF StepRepoInsert, Stepping
  <2>2. url \in Urls
    BY <1>3 DEF StepRepoInsert, Stepping, OwnsStatement
  <2>3. db \in Database /\ Referential(db)
    BY <1>1, <2>2, AppendRepo DEF Databases
  <2> HIDE DEF db
  <2> QED
    BY <1>2, <2>1, <2>3
<1>4. CASE StepRepoFind(t)
  <2>1. /\ cur' \in {cur, disk}
        /\ UNCHANGED <<upgradeVars, disk, holder, bound, active, returned, reported>>
        /\ thread[t].pc = "step"
    BY <1>4 DEF StepRepoFind, Stepping
  <2>2. Databases'
    BY <1>1, <2>1 DEF Databases, Referential
  <2>3. \E ret \in Int : GotoWith(t, "reset", ret)
    BY <1>1, <1>4 DEF StepRepoFind, IdsOf, Databases, Database
  <2>4. thread' \in [Threads -> ThreadState]
    BY <1>1, <2>3, GotoTyped
  <2>5. failures' \in 0 .. MaxFailures
    BY <1>1, <1>4, NumbersAssumption DEF StepRepoFind, Fine, Fail
  <2>6. \A u \in Threads : OwnsStatement(u)'
    BY <2>1, <2>3, ResetOwns
  <2>7. /\ holder' \in [Prepared -> Threads \union {None}]
        /\ bound' \in [Prepared -> Arguments]
        /\ active' \in SUBSET {"run_insert"}
        /\ returned' \subseteq [url : Urls, rev : Revs, id : Nat]
        /\ reported' \subseteq [id : Nat, ec : ExitCodes]
    BY <2>1 DEF TypeOK
  <2> QED
    BY <2>1, <2>2, <2>4, <2>5, <2>6, <2>7, ThreadKeeps
<1>5. CASE StepRunFinished(t)
  <2> DEFINE id == bound["run_finished"].id
             ec == bound["run_finished"].ec
             db == IF id \in DOMAIN cur.runs THEN [cur EXCEPT !.runs[id].ec = ec] ELSE cur
  <2>1. /\ Done(t, db, 0)
        /\ UNCHANGED <<upgradeVars, holder, bound, returned, reported>>
        /\ thread[t].pc = "step"
    BY <1>5 DEF StepRunFinished, Stepping
  <2>3. ec \in ExitCodes
    BY <1>5 DEF StepRunFinished, Stepping, OwnsStatement
  <2>2. db \in Database /\ Referential(db)
    BY <1>1, <2>3, FinishRun DEF Databases
  <2> HIDE DEF db
  <2> QED
    BY <1>2, <2>1, <2>2
<1> QED
  BY <1>3, <1>4, <1>5

\* The insertion of a run: foreign keys refuse a repository that is not there.
LEMMA InsertKeeps ==
    ASSUME Inv, NEW t \in Threads, StepRunInsert(t)
    PROVE  Inv'
<1> USE DEF Inv
<1> DEFINE args == bound["run_insert"]
           row == [repo |-> args.ret, rev |-> args.rev, ec |-> None]
<1>1. /\ Databases
      /\ thread \in [Threads -> ThreadState]
      /\ bound \in [Prepared -> Arguments]
      /\ failures \in 0 .. MaxFailures
      /\ args.rev \in Revs
      /\ thread[t].pc = "step"
  BY DEF TypeOK, Databases, ThreadState, StepRunInsert, Stepping, OwnsStatement
<1>2. UNCHANGED <<upgradeVars, disk, holder, bound, returned, reported>>
  BY DEF StepRunInsert
<1>3. \/ cur' = [cur EXCEPT !.runs = Append(@, row)] /\ args.ret \in DOMAIN cur.repos
      \/ cur' \in {cur, disk}
  BY DEF StepRunInsert, HasRepo
<1>4. Databases'
  <2>1. CASE cur' = [cur EXCEPT !.runs = Append(@, row)] /\ args.ret \in DOMAIN cur.repos
    <3>1. cur' \in Database /\ Referential(cur')
      BY <1>1, <2>1, AppendRun DEF Databases
    <3> QED
      BY <1>1, <1>2, <3>1 DEF Databases, Referential
  <2>2. CASE cur' \in {cur, disk}
    BY <1>1, <1>2, <2>2 DEF Databases, Referential
  <2> QED
    BY <1>3, <2>1, <2>2
<1>5. \E ret \in Int : GotoWith(t, "reset", ret)
  <2>1. cur'.runs \in Seq(Run)
    BY <1>4 DEF Databases, Database
  <2>2. Len(cur'.runs) \in Int
    BY <2>1
  <2> QED
    BY <2>2 DEF StepRunInsert
<1>6. thread' \in [Threads -> ThreadState]
  BY <1>1, <1>5, GotoTyped
<1>7. \A u \in Threads : OwnsStatement(u)'
  BY <1>1, <1>2, <1>5, ResetOwns
<1>8. failures' \in 0 .. MaxFailures
  BY <1>1, NumbersAssumption DEF StepRunInsert, Fine, Fail
<1>9. active' \in SUBSET {"run_insert"}
  BY DEF StepRunInsert, TypeOK
<1>10. /\ holder' \in [Prepared -> Threads \union {None}]
       /\ bound' \in [Prepared -> Arguments]
       /\ returned' \subseteq [url : Urls, rev : Revs, id : Nat]
       /\ reported' \subseteq [id : Nat, ec : ExitCodes]
  BY <1>2 DEF TypeOK
<1> QED
  BY <1>2, <1>4, <1>6, <1>7, <1>8, <1>9, <1>10, ThreadKeeps

\* The end of a statement, with or without a commit.
LEMMA ResetKeeps ==
    ASSUME Inv, NEW t \in Threads, Reset(t)
    PROVE  Inv'
<1> USE DEF Inv
<1> DEFINE at == thread[t].at
<1>1. /\ Databases
      /\ thread \in [Threads -> ThreadState]
      /\ thread[t] \in ThreadState
      /\ at \in Prepared
      /\ holder[at] = t
      /\ failures \in 0 .. MaxFailures
  BY DEF TypeOK, Databases, ThreadState, Reset, OwnsStatement
<1>2. cur' \in {cur, disk} /\ disk' \in {cur, disk}
  BY DEF Reset
<1>3. Databases'
  BY <1>1, <1>2 DEF Databases, Referential
<1>4. thread' \in [Threads -> ThreadState]
  BY <1>1, GotoTyped DEF Reset
<1>5. bound' \in [Prepared -> Arguments]
  BY <1>1, IdleTyped DEF Reset, TypeOK
<1>6. UNCHANGED <<upgradeVars, holder, returned, reported>>
  BY DEF Reset
<1>7. \A u \in Threads : OwnsStatement(u)'
  <2>1. OwnsStatement(t)'
    BY <1>1, <1>6 DEF Reset, Goto, OwnsStatement, ThreadState
  <2>2. \A u \in Threads \ {t} : thread'[u] = thread[u]
    BY <1>1 DEF Reset, Goto
  <2>3. \A r \in Prepared \ {at} : holder'[r] = holder[r] /\ bound'[r] = bound[r]
    BY <1>6 DEF Reset, TypeOK
  <2> QED
    BY <1>1, <2>1, <2>2, <2>3, OthersKeep
<1>8. failures' \in 0 .. MaxFailures
  BY <1>1, NumbersAssumption DEF Reset, Fine, Fail
<1>9. active' \in SUBSET {"run_insert"}
  BY DEF Reset, TypeOK
<1>10. /\ holder' \in [Prepared -> Threads \union {None}]
       /\ returned' \subseteq [url : Urls, rev : Revs, id : Nat]
       /\ reported' \subseteq [id : Nat, ec : ExitCodes]
  BY <1>6 DEF TypeOK
<1> QED
  BY <1>3, <1>4, <1>5, <1>6, <1>7, <1>8, <1>9, <1>10, ThreadKeeps

\* The mutex is given back, and the call goes on or is over.
LEMMA UnlockKeeps ==
    ASSUME Inv, NEW t \in Threads, Unlock(t)
    PROVE  Inv'
<1> USE DEF Inv
<1> DEFINE at == thread[t].at
           args == thread[t].args
           onward == [thread[t] EXCEPT !.pc = "lock", !.at = Following(at)]
<1>1. /\ Databases
      /\ thread \in [Threads -> ThreadState]
      /\ thread[t] \in ThreadState
      /\ at \in Prepared
      /\ args \in Arguments
      /\ thread[t].pc = "unlock"
      /\ holder[at] = t
      /\ at # "run_finished" => args.url \in Urls /\ args.rev \in Revs
      /\ at = "run_finished" => args.ec \in ExitCodes
  BY DEF TypeOK, Databases, ThreadState, Unlock, OwnsStatement
<1>2. onward \in ThreadState
  BY <1>1 DEF ThreadState, Following, Prepared
<1>3. \/ thread' = [thread EXCEPT ![t] = Idle]
      \/ thread' = [thread EXCEPT ![t] = onward] /\ at # "run_finished"
  BY DEF Unlock
<1>4. thread' \in [Threads -> ThreadState]
  BY <1>1, <1>2, <1>3, IdleTyped
<1>5. UNCHANGED <<upgradeVars, disk, cur, bound, active, failures>>
  BY DEF Unlock
<1>6. holder' = [holder EXCEPT ![at] = None] /\ holder' \in [Prepared -> Threads \union {None}]
  BY <1>1 DEF Unlock, TypeOK
<1>7. returned' \subseteq [url : Urls, rev : Revs, id : Nat]
  <2>1. CASE at = "run_insert" /\ args.ret >= 0
    <3>1. args.ret \in Nat
      BY <1>1, <2>1 DEF Arguments
    <3>2. returned' = returned \union {[url |-> args.url, rev |-> args.rev, id |-> args.ret]}
      BY <2>1 DEF Unlock
    <3> QED
      BY <1>1, <2>1, <3>1, <3>2 DEF TypeOK
  <2>2. CASE ~(at = "run_insert" /\ args.ret >= 0)
    BY <2>2 DEF Unlock, TypeOK
  <2> QED
    BY <2>1, <2>2
<1>8. reported' \subseteq [id : Nat, ec : ExitCodes]
  BY <1>1 DEF Unlock, TypeOK, Arguments
<1>9. \A u \in Threads : OwnsStatement(u)'
  <2>1. OwnsStatement(t)'
    <3>1. CASE thread' = [thread EXCEPT ![t] = Idle]
      BY <1>1, <3>1 DEF Idle, OwnsStatement
    <3>2. CASE thread' = [thread EXCEPT ![t] = onward] /\ at # "run_finished"
      <4>1. /\ thread'[t].pc = "lock"
            /\ thread'[t].args = args
            /\ thread'[t].at # "run_finished"
        BY <1>1, <3>2 DEF ThreadState, Following
      <4> QED
        BY <1>1, <3>2, <4>1 DEF OwnsStatement
    <3> QED
      BY <1>3, <3>1, <3>2
  <2>2. \A u \in Threads \ {t} : thread'[u] = thread[u]
    BY <1>1, <1>3
  <2>3. \A r \in Prepared \ {at} : holder'[r] = holder[r] /\ bound'[r] = bound[r]
    BY <1>5, <1>6 DEF TypeOK
  <2> QED
    BY <1>1, <2>1, <2>2, <2>3, OthersKeep
<1>10. Databases' /\ active' \in SUBSET {"run_insert"} /\ failures' \in 0 .. MaxFailures
       /\ bound' \in [Prepared -> Arguments]
  BY <1>1, <1>5 DEF Databases, TypeOK, Referential
<1> QED
  BY <1>4, <1>5, <1>6, <1>7, <1>8, <1>9, <1>10, ThreadKeeps

LEMMA InvStep == Inv /\ [Next]_vars => Inv'
<1> SUFFICES ASSUME Inv, [Next]_vars PROVE Inv'
  OBVIOUS
<1>1. CASE ServerStart \/ UpgradeStatement \/ ServerCrash
  BY <1>1, StartKeeps
<1>2. ASSUME NEW t \in Threads, Call(t) \/ ThreadStep(t)
      PROVE  Inv'
  BY <1>2, CallKeeps, StepKeeps, InsertKeeps, ResetKeeps, UnlockKeeps DEF ThreadStep
<1>3. CASE UNCHANGED vars
  BY <1>3 DEF vars, Inv, TypeOK, Referential, OwnsStatement
<1> QED
  BY <1>1, <1>2, <1>3 DEF Next

-----------------------------------------------------------------------------
(* The theorems *)

THEOREM Invariance == Spec => []Inv
  BY InvInit, InvStep, PTL DEF Spec

\* TypeOK: the database, the statements and the threads keep their types.  That
\* rows hold what was asked for rests on the mutexes of the statements.
THEOREM Typing == Spec => []TypeOK
<1>1. Inv => TypeOK
  BY DEF Inv
<1> QED
  BY <1>1, Invariance, PTL

\* RunsHaveRepos (v01.sql, cimple_runs): a run refers to a repository that is
\* there, although repositories found by one thread are rolled back by another.
THEOREM ReferencesHold == Spec => []RunsHaveRepos
<1>1. Inv => RunsHaveRepos
  BY DEF Inv, Referential, RunsHaveRepos
<1> QED
  BY <1>1, Invariance, PTL

-----------------------------------------------------------------------------
(* Nothing is left uncommitted *)

\* Only a run's insertion leaves something to commit, and the thread that
\* stepped it is about to reset it.
Writing(t) == thread[t].at = "run_insert" /\ thread[t].pc = "reset"

PendingInv ==
    /\ cur # disk => active # {}
    /\ active # {} => \E t \in Threads : Writing(t)

\* The steps of others leave the writing thread where it is.
LEMMA WritingKept ==
    ASSUME Inv, PendingInv, NEW t \in Threads, ~Writing(t),
           \A u \in Threads \ {t} : thread'[u] = thread[u],
           active' = active, cur' # disk' => active # {}
    PROVE  PendingInv'
<1>1. ASSUME NEW u \in Threads, Writing(u)
      PROVE  Writing(u)'
  BY <1>1 DEF Writing
<1> QED
  BY <1>1 DEF PendingInv

LEMMA PendingStep == Inv /\ PendingInv /\ [Next]_vars => PendingInv'
<1> SUFFICES ASSUME Inv, PendingInv, [Next]_vars PROVE PendingInv'
  OBVIOUS
<1> DEFINE Others(t) == \A u \in Threads \ {t} : thread'[u] = thread[u]
<1>1. /\ thread \in [Threads -> ThreadState]
      /\ active \in SUBSET {"run_insert"}
      /\ \A t \in Threads : OwnsStatement(t)
  BY DEF Inv, TypeOK, ThreadState
<1>2. CASE ServerStart
  BY <1>2 DEF ServerStart, PendingInv, Writing
<1>3. CASE UpgradeStatement
  BY <1>3 DEF UpgradeStatement, PendingInv, Writing
<1>4. CASE ServerCrash
  BY <1>4 DEF ServerCrash, PendingInv
<1>5. ASSUME NEW t \in Threads, Call(t) \/ Lock(t) \/ Bind(t) \/ Unlock(t)
      PROVE  PendingInv'
  <2>1. Others(t)
    BY <1>1, <1>5 DEF Call, Lock, Bind, Unlock, Goto, GotoWith
  <2>2. UNCHANGED <<cur, disk, active>> /\ ~Writing(t)
    BY <1>5 DEF Call, Lock, Bind, Unlock, Writing
  <2> QED
    BY <2>1, <2>2, WritingKept DEF PendingInv
<1>6. ASSUME NEW t \in Threads, NEW db, NEW ret, Done(t, db, ret), thread[t].pc = "step"
      PROVE  PendingInv'
  <2>1. Others(t) /\ ~Writing(t)
    BY <1>1, <1>6 DEF Done, GotoWith, Writing
  <2>2. active' = active /\ (cur' # disk' => active # {})
    BY <1>6 DEF Done, PendingInv
  <2> QED
    BY <2>1, <2>2, WritingKept
<1>7. ASSUME NEW t \in Threads, StepRepoInsert(t)
      PROVE  PendingInv'
  BY <1>6, <1>7 DEF StepRepoInsert, Stepping
<1>8. ASSUME NEW t \in Threads, StepRunFinished(t)
      PROVE  PendingInv'
  BY <1>6, <1>8 DEF StepRunFinished, Stepping
<1>9. ASSUME NEW t \in Threads, StepRepoFind(t)
      PROVE  PendingInv'
  <2>1. Others(t) /\ ~Writing(t)
    BY <1>1, <1>9 DEF StepRepoFind, Stepping, GotoWith, Writing
  <2>2. active' = active /\ (cur' # disk' => active # {})
    BY <1>9 DEF StepRepoFind, PendingInv
  <2> QED
    BY <2>1, <2>2, WritingKept
<1>10. ASSUME NEW t \in Threads, StepRunInsert(t)
       PROVE  PendingInv'
  <2>1. Others(t) /\ ~Writing(t)
    BY <1>1, <1>10 DEF StepRunInsert, Stepping, GotoWith, Writing
  <2>2. \E ret : GotoWith(t, "reset", ret)
    BY <1>10 DEF StepRunInsert
  <2>3. Writing(t)'
    BY <1>1, <1>10, <2>2 DEF StepRunInsert, Stepping, GotoWith, Writing, ThreadState
  <2>4. active' = active \union {"run_insert"} \/ (cur' \in {cur, disk} /\ active' = active)
    BY <1>10 DEF StepRunInsert
  <2>5. CASE active' = active \union {"run_insert"}
    BY <2>3, <2>5 DEF PendingInv
  <2>6. CASE cur' \in {cur, disk} /\ active' = active
    BY <1>10, <2>1, <2>6, WritingKept DEF StepRunInsert, PendingInv
  <2> QED
    BY <2>4, <2>5, <2>6
<1>11. ASSUME NEW t \in Threads, Reset(t)
       PROVE  PendingInv'
  <2>1. CASE Writing(t)
    <3>1. active' = {}
      BY <1>1, <1>11, <2>1 DEF Reset, Writing
    <3>2. cur' = disk'
      BY <1>1, <1>11, <2>1 DEF Reset, Writing, PendingInv
    <3> QED
      BY <3>1, <3>2 DEF PendingInv
  <2>2. CASE ~Writing(t)
    <3>1. thread[t].at # "run_insert" /\ Others(t)
      BY <1>1, <1>11, <2>2 DEF Reset, Goto, Writing
    <3>2. active' = active /\ active # {thread[t].at}
      BY <1>1, <1>11, <3>1 DEF Reset
    <3>3. UNCHANGED <<cur, disk>>
      BY <1>11, <3>2 DEF Reset
    <3> QED
      BY <2>2, <3>1, <3>2, <3>3, WritingKept DEF PendingInv
  <2> QED
    BY <2>1, <2>2
<1>12. CASE UNCHANGED vars
  BY <1>12 DEF vars, PendingInv, Writing
<1> QED
  BY <1>2, <1>3, <1>4, <1>5, <1>7, <1>8, <1>9, <1>10, <1>11, <1>12 DEF Next, ThreadStep

\* NothingPends (sqlite_reset): what is not committed belongs to a call that is
\* not over; no path through a statement leaves without its reset.
THEOREM CommitFollows == Spec => []NothingPends
<1>1. Init => PendingInv
  BY DEF Init, PendingInv
<1>2. PendingInv => NothingPends
  BY DEF PendingInv, Writing, NothingPends
<1> QED
  BY <1>1, <1>2, Invariance, PendingStep, PTL DEF Spec

-----------------------------------------------------------------------------
(* The mutexes of the statements *)

Inside(t) == thread[t].pc \in {"bind", "step", "reset", "unlock"}

\* prepared_stmt_lock: one thread at a time is between the lock and the unlock
\* of a statement, and binds it only when the last execution was ended, so that
\* the library has no reason of its own to refuse the arguments.
THEOREM StatementsAreExclusive ==
    Spec => []( /\ \A t, u \in Threads :
                    Inside(t) /\ Inside(u) /\ thread[t].at = thread[u].at => t = u
                /\ \A t \in Threads : thread[t].pc = "bind" => thread[t].at \notin active )
<1>1. Init => PendingInv
  BY DEF Init, PendingInv
<1>2. ASSUME Inv, PendingInv
      PROVE  /\ \A t, u \in Threads :
                 Inside(t) /\ Inside(u) /\ thread[t].at = thread[u].at => t = u
             /\ \A t \in Threads : thread[t].pc = "bind" => thread[t].at \notin active
  <2>1. ASSUME NEW t \in Threads, Inside(t)
        PROVE  holder[thread[t].at] = t
    BY <1>2, <2>1 DEF Inv, OwnsStatement, Inside
  <2>2. ASSUME NEW t \in Threads, thread[t].pc = "bind", thread[t].at \in active
        PROVE  FALSE
    <3>1. thread[t].at = "run_insert"
      BY <1>2, <2>2 DEF Inv, TypeOK
    <3>2. PICK u \in Threads : thread[u].at = "run_insert" /\ thread[u].pc = "reset"
      BY <1>2, <2>2 DEF PendingInv, Writing
    <3>3. t = u
      BY <2>1, <2>2, <3>1, <3>2 DEF Inside
    <3> QED
      BY <2>2, <3>2, <3>3
  <2> QED
    BY <2>1, <2>2
<1> QED
  BY <1>1, <1>2, Invariance, PendingStep, PTL DEF Spec

\* Who holds a mutex is between the lock and the unlock of its statement.
HeldInv == \A s \in Prepared : \A t \in Threads : holder[s] = t => thread[t].at = s /\ Inside(t)

\* The guards of a thread's steps, without failures: only a lock waits.
ThreadCanGo(t) == Inside(t) \/ (thread[t].pc = "lock" /\ holder[thread[t].at] = None)

\* A step of a thread that stays where it holds a mutex, or holds none.
LEMMA HeldKept ==
    ASSUME Inv, HeldInv, NEW t \in Threads, UNCHANGED holder,
           \A u \in Threads \ {t} : thread'[u] = thread[u],
           Inside(t) => thread'[t].at = thread[t].at /\ Inside(t)'
    PROVE  HeldInv'
<1> SUFFICES ASSUME NEW s \in Prepared, NEW u \in Threads, holder[s] = u
             PROVE  thread'[u].at = s /\ Inside(u)'
  BY DEF HeldInv
<1>1. thread[u].at = s /\ Inside(u)
  BY DEF HeldInv
<1> QED
  BY <1>1 DEF Inside

LEMMA HeldStep == Inv /\ HeldInv /\ [Next]_vars => HeldInv'
<1> SUFFICES ASSUME Inv, HeldInv, [Next]_vars PROVE HeldInv'
  OBVIOUS
<1>0. thread \in [Threads -> ThreadState] /\ holder \in [Prepared -> Threads \union {None}]
  BY DEF Inv, TypeOK, ThreadState
<1>1. CASE ServerStart \/ UpgradeStatement \/ UNCHANGED vars
  <2>1. UNCHANGED <<holder, thread>>
    BY <1>1 DEF ServerStart, UpgradeStatement, vars
  <2> QED
    BY <2>1 DEF HeldInv, Inside
<1>2. CASE ServerCrash
  BY <1>2, NoneAssumption DEF ServerCrash, HeldInv
<1>3. ASSUME NEW t \in Threads, Call(t)
      PROVE  HeldInv'
  <2>1. \A u \in Threads \ {t} : thread'[u] = thread[u]
    BY <1>0, <1>3 DEF Call
  <2>2. UNCHANGED holder /\ ~Inside(t)
    BY <1>3 DEF Call, Inside
  <2> QED
    BY <2>1, <2>2, HeldKept
<1>4. ASSUME NEW t \in Threads, Lock(t)
      PROVE  HeldInv'
  <2>1. thread'[t].at = thread[t].at /\ thread'[t].pc = "bind"
    BY <1>0, <1>4 DEF Lock, Goto, ThreadState
  <2>2. \A u \in Threads \ {t} : thread'[u] = thread[u]
    BY <1>0, <1>4 DEF Lock, Goto
  <2>3. holder' = [holder EXCEPT ![thread[t].at] = t] /\ ~Inside(t) /\ thread[t].at \in Prepared
    BY <1>0, <1>4 DEF Lock, Inside, ThreadState
  <2>4. ASSUME NEW s \in Prepared, NEW u \in Threads, holder'[s] = u
        PROVE  thread'[u].at = s /\ Inside(u)'
    <3>1. CASE s = thread[t].at
      BY <1>0, <2>1, <2>3, <2>4, <3>1 DEF Inside
    <3>2. CASE s # thread[t].at
      <4>1. thread[u].at = s /\ Inside(u)
        BY <1>0, <2>3, <2>4, <3>2 DEF HeldInv
      <4>2. thread'[u] = thread[u]
        BY <2>2, <2>3, <4>1
      <4> QED
        BY <4>1, <4>2 DEF Inside
    <3> QED
      BY <3>1, <3>2
  <2> QED
    BY <2>4 DEF HeldInv
<1>5. ASSUME NEW t \in Threads, NEW pc \in {"step", "reset", "unlock"}, NEW ret,
             Goto(t, pc) \/ GotoWith(t, pc, ret), UNCHANGED holder
      PROVE  HeldInv'
  <2>1. \A u \in Threads \ {t} : thread'[u] = thread[u]
    BY <1>0, <1>5 DEF Goto, GotoWith
  <2>2. thread'[t].at = thread[t].at /\ Inside(t)'
    BY <1>0, <1>5 DEF Goto, GotoWith, ThreadState, Inside
  <2> QED
    BY <1>5, <2>1, <2>2, HeldKept
<1>6. ASSUME NEW t \in Threads, Bind(t) \/ Reset(t)
      PROVE  HeldInv'
  BY <1>5, <1>6 DEF Bind, Reset
<1>7. ASSUME NEW t \in Threads,
             StepRepoInsert(t) \/ StepRepoFind(t) \/ StepRunInsert(t) \/ StepRunFinished(t)
      PROVE  HeldInv'
  BY <1>5, <1>7 DEF StepRepoInsert, StepRepoFind, StepRunInsert, StepRunFinished, Done
<1>8. ASSUME NEW t \in Threads, Unlock(t)
      PROVE  HeldInv'
  <2>1. \A u \in Threads \ {t} : thread'[u] = thread[u]
    BY <1>0, <1>8 DEF Unlock
  <2>2. holder' = [holder EXCEPT ![thread[t].at] = None]
    BY <1>8 DEF Unlock
  <2>3. ASSUME NEW s \in Prepared, NEW u \in Threads, holder'[s] = u
        PROVE  thread'[u].at = s /\ Inside(u)'
    <3>1. s # thread[t].at /\ holder[s] = u
      BY <1>0, <2>2, <2>3, NoneAssumption
    <3>2. thread[u].at = s /\ Inside(u)
      BY <3>1 DEF HeldInv
    <3>3. thread'[u] = thread[u]
      BY <2>1, <3>1, <3>2
    <3> QED
      BY <3>2, <3>3 DEF Inside
  <2> QED
    BY <2>3 DEF HeldInv
<1> QED
  BY <1>1, <1>2, <1>3, <1>4, <1>6, <1>7, <1>8 DEF Next, ThreadStep

\* CallReturns rests on this (prepared_stmt_lock): no call is ever stuck,
\* however many threads there are.  A thread in a call can go on, or waits for
\* a mutex held by another thread that is executing the same statement and that
\* waits for nothing until it has unlocked it.
THEOREM NeverStuck ==
    Spec => [](\A t \in Threads :
                thread[t].pc # "idle" =>
                    \/ ThreadCanGo(t)
                    \/ \E u \in Threads \ {t} :
                        /\ holder[thread[t].at] = u
                        /\ thread[u].at = thread[t].at
                        /\ ThreadCanGo(u))
<1>1. Init => HeldInv
  BY NoneAssumption DEF Init, HeldInv
<1>2. ASSUME Inv, HeldInv, NEW t \in Threads, thread[t].pc # "idle", ~ThreadCanGo(t)
      PROVE  \E u \in Threads \ {t} :
                /\ holder[thread[t].at] = u
                /\ thread[u].at = thread[t].at
                /\ ThreadCanGo(u)
  <2>1. thread[t].pc = "lock" /\ thread[t].at \in Prepared /\ holder[thread[t].at] # None
    BY <1>2 DEF Inv, TypeOK, ThreadCanGo, Inside
  <2>2. PICK u \in Threads : holder[thread[t].at] = u
    BY <1>2, <2>1 DEF Inv, TypeOK
  <2>3. thread[u].at = thread[t].at /\ Inside(u)
    BY <1>2, <2>1, <2>2 DEF HeldInv
  <2>4. u # t
    BY <2>1, <2>3 DEF Inside
  <2> QED
    BY <2>2, <2>3, <2>4 DEF ThreadCanGo
<1>3. Inv /\ HeldInv =>
          (\A t \in Threads :
                thread[t].pc # "idle" =>
                    \/ ThreadCanGo(t)
                    \/ \E u \in Threads \ {t} :
                        /\ holder[thread[t].at] = u
                        /\ thread[u].at = thread[t].at
                        /\ ThreadCanGo(u))
  BY <1>2
<1> QED
  BY <1>1, <1>3, Invariance, HeldStep, PTL DEF Spec

\* The steps a thread has before it, at most: five for each statement.
StepsLeft(t) ==
    LET statements == CASE thread[t].at = "repo_insert" -> 2 [] thread[t].at = "repo_find" -> 1 [] OTHER -> 0
        steps == CASE thread[t].pc = "lock" -> 5 [] thread[t].pc = "bind" -> 4 [] thread[t].pc = "step" -> 3
                   [] thread[t].pc = "reset" -> 2 [] thread[t].pc = "unlock" -> 1 [] OTHER -> 0
    IN  IF thread[t].pc = "idle" THEN 0 ELSE 5 * statements + steps

\* A thread that goes on, at its statement or to the next one, or is done.
LEMMA GoesOn ==
    ASSUME Inv, NEW t \in Threads, ThreadStep(t)
    PROVE  StepsLeft(t)' < StepsLeft(t)
<1>1. thread \in [Threads -> ThreadState] /\ thread[t] \in ThreadState
  BY DEF Inv, TypeOK, ThreadState
<1>2. ASSUME NEW pc \in {"bind", "step", "reset", "unlock"}, NEW ret,
             Goto(t, pc) \/ GotoWith(t, pc, ret)
      PROVE  thread'[t].pc = pc /\ thread'[t].at = thread[t].at
  BY <1>1, <1>2 DEF Goto, GotoWith, ThreadState
<1>3. thread[t].at \in Prepared
  BY <1>1 DEF ThreadState
<1>4. CASE Lock(t)
  BY <1>2, <1>3, <1>4 DEF Lock, StepsLeft, Prepared
<1>5. CASE Bind(t)
  <2>1. thread[t].pc = "bind" /\ thread'[t].pc \in {"step", "reset"} /\ thread'[t].at = thread[t].at
    BY <1>2, <1>5 DEF Bind
  <2> QED
    BY <1>3, <2>1 DEF StepsLeft, Prepared
<1>6. CASE StepRepoInsert(t) \/ StepRepoFind(t) \/ StepRunInsert(t) \/ StepRunFinished(t)
  <2>1. thread[t].pc = "step" /\ \E ret : GotoWith(t, "reset", ret)
    BY <1>6 DEF StepRepoInsert, StepRepoFind, StepRunInsert, StepRunFinished, Stepping, Done
  <2>2. thread'[t].pc = "reset" /\ thread'[t].at = thread[t].at
    BY <1>2, <2>1
  <2> QED
    BY <1>3, <2>1, <2>2 DEF StepsLeft, Prepared
<1>7. CASE Reset(t)
  BY <1>2, <1>3, <1>7 DEF Reset, StepsLeft, Prepared
<1>8. CASE Unlock(t)
  <2> DEFINE onward == [thread[t] EXCEPT !.pc = "lock", !.at = Following(thread[t].at)]
  <2>1. \/ thread'[t] = Idle
        \/ thread'[t] = onward /\ thread[t].at \notin {"run_insert", "run_finished"}
    BY <1>1, <1>8 DEF Unlock
  <2>2. CASE thread'[t] = Idle
    <3>0. thread'[t].pc = "idle"
      BY <2>2 DEF Idle
    <3>1. thread'[t].pc = "idle" /\ thread[t].pc = "unlock"
      BY <1>8, <3>0 DEF Unlock
    <3>2. StepsLeft(t)' = 0
      BY <3>1 DEF StepsLeft
    <3>3. StepsLeft(t) > 0
      BY <1>3, <3>1 DEF StepsLeft, Prepared
    <3> QED
      BY <3>2, <3>3
  <2>3. CASE thread'[t] = onward /\ thread[t].at \notin {"run_insert", "run_finished"}
    <3>1. thread'[t].pc = "lock" /\ thread'[t].at = Following(thread[t].at)
      BY <1>1, <2>3 DEF ThreadState
    <3> QED
      BY <1>3, <1>8, <2>3, <3>1 DEF Unlock, Following, StepsLeft, Prepared
  <2> QED
    BY <2>1, <2>2, <2>3
<1> QED
  BY <1>4, <1>5, <1>6, <1>7, <1>8 DEF ThreadStep

\* CallReturns rests on this and on NeverStuck (storage_sqlite_run_create): a
\* call has at most fifteen steps, each step of its thread leaves fewer,
\* whatever fails, and nothing that others do gives it more.
THEOREM CallsShorten ==
    Spec => [][\A t \in Threads :
                \/ Call(t)
                \/ StepsLeft(t)' < StepsLeft(t)
                \/ StepsLeft(t)' = StepsLeft(t) /\ ~ThreadStep(t)]_vars
<1>1. ASSUME Inv, Next, NEW t \in Threads, ~Call(t), ~ThreadStep(t)
      PROVE  StepsLeft(t)' < StepsLeft(t) \/ StepsLeft(t)' = StepsLeft(t)
  <2>1. thread \in [Threads -> ThreadState] /\ thread[t] \in ThreadState
    BY <1>1 DEF Inv, TypeOK, ThreadState
  <2>2. CASE ServerStart \/ UpgradeStatement
    BY <2>2 DEF ServerStart, UpgradeStatement, StepsLeft
  <2>3. CASE ServerCrash
    <3>1. StepsLeft(t)' = 0
      BY <2>3 DEF ServerCrash, Idle, StepsLeft
    <3>2. thread[t].pc # "idle" => StepsLeft(t) > 0
      BY <2>1 DEF StepsLeft, ThreadState, Prepared
    <3> QED
      BY <3>1, <3>2 DEF StepsLeft
  <2>4. ASSUME NEW u \in Threads \ {t}, Call(u) \/ ThreadStep(u)
        PROVE  StepsLeft(t)' = StepsLeft(t)
    <3>1. thread'[t] = thread[t]
      BY <2>1, <2>4
      DEF Call, ThreadStep, Lock, Bind, StepRepoInsert, StepRepoFind, StepRunInsert, StepRunFinished, Done,
          Reset, Unlock, Goto, GotoWith
    <3> QED
      BY <3>1 DEF StepsLeft
  <2> QED
    BY <1>1, <2>2, <2>3, <2>4 DEF Next
<1>2. ASSUME Inv, [Next]_vars
      PROVE  [\A t \in Threads :
                \/ Call(t)
                \/ StepsLeft(t)' < StepsLeft(t)
                \/ StepsLeft(t)' = StepsLeft(t) /\ ~ThreadStep(t)]_vars
  BY <1>1, <1>2, GoesOn
<1> QED
  BY <1>2, Invariance, PTL DEF Spec

-----------------------------------------------------------------------------
(* The schema *)

SameSchema(db, other) == db.objects = other.objects /\ db.version = other.version

\* While the script runs, what precedes its next statement exists.
SchemaInv ==
    /\ SameSchema(cur, disk)
    /\ disk.objects \subseteq Schema
    /\ disk.version = 1 => disk.objects = Schema
    /\ server = "serving" => disk.version = 1
    /\ server = "upgrading" => disk.version = 0 /\ 1 .. next - 1 \subseteq disk.objects

LEMMA ScriptIs ==
    /\ Schema = 1 .. Statements
    /\ Len(script) = Statements + 1
    /\ script[Statements + 1] = "version"
    /\ \A k \in 1 .. Statements : script[k] = "object"
  BY NumbersAssumption DEF Schema, script

\* The statements of the threads touch rows only.
LEMMA RowsOnly ==
    ASSUME Inv, SchemaInv, NEW t \in Threads, Call(t) \/ ThreadStep(t)
    PROVE  SchemaInv'
<1>1. cur \in Database /\ disk \in Database
  BY DEF Inv, TypeOK
<1>2. ASSUME NEW db, NEW ret, SameSchema(db, disk), Done(t, db, ret)
      PROVE  SameSchema(cur', disk) /\ SameSchema(disk', disk)
  BY <1>2 DEF Done, SchemaInv, SameSchema
<1>3. CASE StepRepoInsert(t)
  <2> DEFINE url == bound["repo_insert"].url
             db == IF IdsOf(url) = {} THEN [cur EXCEPT !.repos = Append(@, url)] ELSE cur
  <2>1. SameSchema(db, disk)
    BY <1>1 DEF SchemaInv, SameSchema, Database
  <2>2. Done(t, db, 0)
    BY <1>3 DEF StepRepoInsert
  <2>3. SameSchema(cur', disk) /\ SameSchema(disk', disk)
    BY <1>2, <2>1, <2>2
  <2> QED
    BY <1>3, <2>3 DEF StepRepoInsert, upgradeVars, SchemaInv, SameSchema
<1>4. CASE StepRunFinished(t)
  <2> DEFINE id == bound["run_finished"].id
             ec == bound["run_finished"].ec
             db == IF id \in DOMAIN cur.runs THEN [cur EXCEPT !.runs[id].ec = ec] ELSE cur
  <2>1. SameSchema(db, disk)
    BY <1>1 DEF SchemaInv, SameSchema, Database
  <2>2. Done(t, db, 0)
    BY <1>4 DEF StepRunFinished
  <2>3. SameSchema(cur', disk) /\ SameSchema(disk', disk)
    BY <1>2, <2>1, <2>2
  <2> QED
    BY <1>4, <2>3 DEF StepRunFinished, upgradeVars, SchemaInv, SameSchema
<1>5. CASE StepRunInsert(t)
  <2>1. SameSchema(cur', disk)
    BY <1>1, <1>5 DEF StepRunInsert, SchemaInv, SameSchema, Database
  <2> QED
    BY <1>5, <2>1 DEF StepRunInsert, upgradeVars, SchemaInv, SameSchema
<1>6. CASE StepRepoFind(t)
  BY <1>6 DEF StepRepoFind, upgradeVars, SchemaInv, SameSchema
<1>7. CASE Reset(t)
  BY <1>7 DEF Reset, upgradeVars, SchemaInv, SameSchema
<1>8. CASE Call(t) \/ Lock(t) \/ Bind(t) \/ Unlock(t)
  BY <1>8 DEF Call, Lock, Bind, Unlock, upgradeVars, SchemaInv, SameSchema
<1> QED
  BY <1>3, <1>4, <1>5, <1>6, <1>7, <1>8 DEF ThreadStep

LEMMA SchemaStep == Inv /\ SchemaInv /\ [Next]_vars => SchemaInv'
<1> SUFFICES ASSUME Inv, SchemaInv, [Next]_vars PROVE SchemaInv'
  OBVIOUS
<1>1. disk \in Database /\ next \in 1 .. Statements + 1
  BY DEF Inv, TypeOK
<1>2. CASE ServerStart
  BY <1>1, <1>2 DEF ServerStart, SchemaInv, SameSchema, Database
<1>3. CASE UpgradeStatement
  <2>1. cur' = disk' /\ server = "upgrading"
    BY <1>3 DEF UpgradeStatement
  <2>2. CASE server' = "down" /\ disk' = disk
    BY <2>1, <2>2 DEF SchemaInv, SameSchema
  <2>3. CASE /\ disk' = IF script[next] = "version" THEN [disk EXCEPT !.version = 1]
                                                    ELSE [disk EXCEPT !.objects = @ \union {next}]
             /\ server' = IF next = Len(script) THEN "serving" ELSE "upgrading"
             /\ next' = IF next = Len(script) THEN 1 ELSE next + 1
    <3>1. CASE next = Statements + 1
      <4>1. disk' = [disk EXCEPT !.version = 1] /\ server' = "serving"
        BY <2>3, <3>1, ScriptIs
      <4>2. disk.objects = Schema
        <5>1. 1 .. next - 1 = Schema
          BY <3>1, ScriptIs, NumbersAssumption
        <5> QED
          BY <2>1, <5>1 DEF SchemaInv
      <4> QED
        BY <1>1, <2>1, <4>1, <4>2 DEF SchemaInv, SameSchema, Database
    <3>2. CASE next \in 1 .. Statements
      <4>1. /\ disk' = [disk EXCEPT !.objects = @ \union {next}]
            /\ server' = "upgrading"
            /\ next' = next + 1
        BY <2>3, <3>2, ScriptIs, NumbersAssumption
      <4>2. disk'.objects = disk.objects \union {next} /\ disk'.version = disk.version
        BY <1>1, <4>1 DEF Database
      <4>3. 1 .. next' - 1 \subseteq disk'.objects
        BY <2>1, <3>2, <4>1, <4>2, NumbersAssumption DEF SchemaInv
      <4> QED
        BY <2>1, <3>2, <4>1, <4>2, <4>3, ScriptIs DEF SchemaInv, SameSchema
    <3> QED
      BY <1>1, <3>1, <3>2, NumbersAssumption
  <2> QED
    BY <1>3, <2>2, <2>3 DEF UpgradeStatement
<1>4. CASE ServerCrash
  BY <1>4 DEF ServerCrash, SchemaInv, SameSchema
<1>5. CASE UNCHANGED vars
  BY <1>5 DEF vars, SchemaInv, SameSchema
<1> QED
  BY <1>2, <1>3, <1>4, <1>5, RowsOnly DEF Next

\* ServesWholeSchema (storage_sqlite_setup): threads are served by a database
\* with the whole schema, wherever earlier upgrades were interrupted: the
\* version is set by the last statement, and a script that finds one of its
\* objects there fails.
THEOREM SchemaWhole == Spec => []ServesWholeSchema
<1>1. Init => SchemaInv
  BY DEF Init, SchemaInv, SameSchema
<1>2. SchemaInv => ServesWholeSchema
  BY DEF SchemaInv, ServesWholeSchema
<1> QED
  BY <1>1, <1>2, Invariance, SchemaStep, PTL DEF Spec

-----------------------------------------------------------------------------
(* Without failures *)

\* As long as no library call fails, the database only grows, and a run that
\* has finished stays so.
Later(old, new) ==
    /\ \A i \in DOMAIN old.repos : i \in DOMAIN new.repos /\ new.repos[i] = old.repos[i]
    /\ \A i \in DOMAIN old.runs :
        /\ i \in DOMAIN new.runs
        /\ new.runs[i].rev = old.runs[i].rev
        /\ new.runs[i].repo = old.runs[i].repo
        /\ old.runs[i].ec # None => new.runs[i].ec # None

Repo(db, url, id) == id \in DOMAIN db.repos /\ db.repos[id] = url
Asked(db, url, rev, id) ==
    id \in DOMAIN db.runs /\ db.runs[id].rev = rev /\ Repo(db, url, db.runs[id].repo)

\* What a thread that has come so far relies on.
Answered(t) ==
    LET pc == thread[t].pc
        at == thread[t].at
        args == thread[t].args
    IN  /\ args.ret >= 0
        /\ at = "repo_insert" /\ pc \in {"reset", "unlock"} => \E i \in DOMAIN cur.repos : Repo(cur, args.url, i)
        /\ at = "repo_find" /\ pc \in {"lock", "bind", "step"} => \E i \in DOMAIN cur.repos : Repo(cur, args.url, i)
        /\ at = "repo_find" /\ pc \in {"reset", "unlock"} => Repo(cur, args.url, args.ret)
        /\ at = "run_insert" /\ pc \in {"lock", "bind", "step"} => Repo(cur, args.url, args.ret)
        /\ at = "run_insert" /\ pc \in {"reset", "unlock"} => Asked(cur, args.url, args.rev, args.ret)
        /\ at = "run_finished" /\ pc # "idle" => args.id \in DOMAIN cur.runs

\* A server that is down or upgrades has no threads at work.
QuietInv == server # "serving" => \A t \in Threads : thread[t].pc = "idle"

AskedInv ==
    /\ QuietInv
    /\ failures = 0 =>
        /\ Later(disk, cur)
        /\ \A t \in Threads : Answered(t)
        /\ \A r \in returned : Asked(cur, r.url, r.rev, r.id)

LEMMA LaterFacts ==
    ASSUME NEW a, NEW b, NEW c, Later(a, b)
    PROVE  /\ Later(b, c) => Later(a, c)
           /\ \A url, id : Repo(a, url, id) => Repo(b, url, id)
           /\ \A url, rev, id : Asked(a, url, rev, id) => Asked(b, url, rev, id)
<1>1. Later(b, c) => Later(a, c)
  BY DEF Later
<1>2. \A url, id : Repo(a, url, id) => Repo(b, url, id)
  BY DEF Later, Repo
<1>3. \A url, rev, id : Asked(a, url, rev, id) => Asked(b, url, rev, id)
  BY DEF Later, Repo, Asked
<1> QED
  BY <1>1, <1>2, <1>3

LEMMA Same == \A db : Later(db, db)
  BY DEF Later

LEMMA Fields ==
    ASSUME thread \in [Threads -> ThreadState], NEW t \in Threads, NEW pc, NEW ret
    PROVE  /\ Goto(t, pc) =>
                /\ thread'[t].pc = pc /\ thread'[t].at = thread[t].at /\ thread'[t].args = thread[t].args
                /\ \A u \in Threads \ {t} : thread'[u] = thread[u]
           /\ GotoWith(t, pc, ret) =>
                /\ thread'[t].pc = pc /\ thread'[t].at = thread[t].at
                /\ thread'[t].args.ret = ret
                /\ thread'[t].args.url = thread[t].args.url
                /\ thread'[t].args.rev = thread[t].args.rev
                /\ thread'[t].args.id = thread[t].args.id
                /\ thread'[t].args.ec = thread[t].args.ec
                /\ \A u \in Threads \ {t} : thread'[u] = thread[u]
  BY DEF Goto, GotoWith, ThreadState, Arguments

\* A thread's step adds to the database, or leaves it.
LEMMA AskedKept ==
    ASSUME Inv, AskedInv, NEW t \in Threads, failures = 0,
           server = "serving", server' = server,
           \A u \in Threads \ {t} : thread'[u] = thread[u],
           Later(cur, cur'), disk' = disk \/ Later(disk', cur'),
           Answered(t)',
           \A r \in returned' : r \in returned \/ Asked(cur', r.url, r.rev, r.id)
    PROVE  AskedInv'
<1>1. Later(disk, cur)
  BY DEF AskedInv
<1>2. Later(disk', cur')
  BY <1>1, LaterFacts
<1>3. ASSUME NEW u \in Threads \ {t}
      PROVE  Answered(u)'
  <2>1. Answered(u) /\ thread'[u] = thread[u]
    BY DEF AskedInv
  <2>2. /\ \A i \in DOMAIN cur.repos : i \in DOMAIN cur'.repos
        /\ \A i \in DOMAIN cur.runs : i \in DOMAIN cur'.runs
        /\ \A url, id : Repo(cur, url, id) => Repo(cur', url, id)
        /\ \A url, rev, id : Asked(cur, url, rev, id) => Asked(cur', url, rev, id)
    BY LaterFacts DEF Later
  <2> QED
    BY <2>1, <2>2 DEF Answered
<1>4. \A r \in returned' : Asked(cur', r.url, r.rev, r.id)
  BY LaterFacts DEF AskedInv
<1> QED
  BY <1>2, <1>3, <1>4 DEF AskedInv, QuietInv

LEMMA NoFailure ==
    ASSUME Inv, failures' = 0
    PROVE  ~Fail /\ (Fine => failures = 0)
  BY DEF Inv, TypeOK, Fail, Fine

\* Starts, upgrades and crashes: what is committed is all that threads were
\* told of, or they are told no more.
LEMMA ServerAsked ==
    ASSUME Inv, PendingInv, AskedInv, ServerStart \/ UpgradeStatement \/ ServerCrash
    PROVE  AskedInv'
<1>1. QuietInv'
  BY DEF ServerStart, UpgradeStatement, ServerCrash, AskedInv, QuietInv, Idle
<1>2. SUFFICES ASSUME failures' = 0
               PROVE  /\ Later(disk', cur')
                      /\ \A t \in Threads : Answered(t)'
                      /\ \A r \in returned' : Asked(cur', r.url, r.rev, r.id)
  BY <1>1 DEF AskedInv
<1>3. failures = 0 /\ ~Fail
  BY <1>2, NoFailure DEF ServerStart, UpgradeStatement, ServerCrash, Fine
<1>4. /\ Later(disk, cur)
      /\ \A t \in Threads : Answered(t)
      /\ \A r \in returned : Asked(cur, r.url, r.rev, r.id)
  BY <1>3 DEF AskedInv
<1>5. CASE ServerStart
  BY <1>4, <1>5 DEF ServerStart, Answered
<1>6. CASE UpgradeStatement
  <2>1. cur = disk /\ \A t \in Threads : thread[t].pc = "idle"
    BY <1>6 DEF UpgradeStatement, PendingInv, Writing, AskedInv, QuietInv
  <2>2. /\ cur' = disk' /\ UNCHANGED <<thread, returned, reported>>
        /\ disk'.runs = disk.runs /\ disk'.repos = disk.repos
    BY <1>3, <1>6 DEF UpgradeStatement, Inv, TypeOK, Database
  <2>3. \A t \in Threads : Answered(t)'
    BY <1>4, <2>1, <2>2 DEF Answered
  <2> QED
    BY <1>4, <2>1, <2>2, <2>3, Same DEF Asked, Repo
<1>7. CASE ServerCrash
  <2>1. /\ cur' = disk /\ disk' = disk /\ thread' = [t \in Threads |-> Idle]
        /\ returned' = {r \in returned : r.id <= Len(disk.runs)}
    BY <1>7 DEF ServerCrash
  <2>2. /\ disk.runs \in Seq(Run) /\ cur.runs \in Seq(Run) /\ Referential(disk)
    BY DEF Inv, TypeOK, Database
  <2>3. ASSUME NEW r \in returned'
        PROVE  Asked(disk, r.url, r.rev, r.id)
    <3>1. r \in returned /\ r.id \in DOMAIN cur.runs /\ r.id <= Len(disk.runs)
      BY <1>4, <2>1 DEF Asked
    <3>2. r.id \in DOMAIN disk.runs
      BY <2>2, <3>1
    <3>3. disk.runs[r.id].repo \in DOMAIN disk.repos
      BY <2>2, <3>2 DEF Referential
    <3> QED
      BY <1>4, <3>1, <3>2, <3>3 DEF Asked, Repo, Later
  <2>5. \A t \in Threads : Answered(t)'
    BY <2>1 DEF Answered, Idle, NoArguments
  <2> QED
    BY <2>1, <2>3, <2>5, Same
<1> QED
  BY <1>5, <1>6, <1>7

LEMMA WaitingAsked ==
    ASSUME Inv, PendingInv, AskedInv, NEW t \in Threads, Call(t) \/ Lock(t) \/ Bind(t)
    PROVE  AskedInv'
<1>1. thread \in [Threads -> ThreadState] /\ OwnsStatement(t)
  BY DEF Inv, TypeOK, ThreadState
<1>2. /\ UNCHANGED <<server, cur, disk, active, returned, reported>>
      /\ \A u \in Threads \ {t} : thread'[u] = thread[u]
  BY <1>1, Fields DEF Call, Lock, Bind, upgradeVars
<1>3. server = "serving"
  BY DEF AskedInv, QuietInv, Call, Lock, Bind
<1>4. QuietInv'
  BY <1>2, <1>3 DEF QuietInv
<1>5. SUFFICES ASSUME failures' = 0
               PROVE  AskedInv'
  BY <1>4 DEF AskedInv
<1>6. failures = 0 /\ ~Fail
  BY <1>5, NoFailure DEF Call, Lock, Bind, Fine
<1>7. Answered(t)
  BY <1>6 DEF AskedInv
<1>8. Answered(t)'
  <2>1. CASE Call(t)
    <3>1. CASE \E u \in Urls, r \in Revs :
                thread' = [thread EXCEPT ![t] = [pc |-> "lock", at |-> "repo_insert",
                            args |-> [url |-> u, rev |-> r, ret |-> 0, id |-> 0, ec |-> None]]]
      BY <1>1, <3>1 DEF Answered
    <3>2. ASSUME NEW run \in returned, NEW ec \in ExitCodes,
                 thread' = [thread EXCEPT ![t] = [pc |-> "lock", at |-> "run_finished",
                            args |-> [url |-> None, rev |-> None, ret |-> 0, id |-> run.id, ec |-> ec]]]
          PROVE  Answered(t)'
      <4>1. run.id \in DOMAIN cur.runs
        BY <1>6 DEF AskedInv, Asked
      <4>2. /\ thread'[t].pc = "lock" /\ thread'[t].at = "run_finished"
            /\ thread'[t].args.ret = 0 /\ thread'[t].args.id = run.id
        BY <1>1, <3>2
      <4> QED
        BY <1>2, <4>1, <4>2 DEF Answered
    <3> QED
      BY <2>1, <3>1, <3>2 DEF Call
  <2>2. CASE Lock(t)
    <3>1. thread'[t].pc = "bind" /\ thread'[t].at = thread[t].at /\ thread'[t].args = thread[t].args
          /\ thread[t].pc = "lock"
      BY <1>1, <2>2, Fields DEF Lock
    <3> QED
      BY <1>2, <1>7, <3>1 DEF Answered
  <2>3. CASE Bind(t)
    <3>1. thread[t].at \notin active
      <4> SUFFICES ASSUME thread[t].at \in active PROVE FALSE
        OBVIOUS
      <4>1. thread[t].at = "run_insert"
        BY DEF Inv, TypeOK
      <4>2. PICK u \in Threads : Writing(u)
        BY DEF PendingInv
      <4>3. holder["run_insert"] = u /\ holder["run_insert"] = t /\ thread[t].pc = "bind"
        BY <1>1, <2>3, <4>1, <4>2 DEF Writing, Inv, OwnsStatement, Bind
      <4> QED
        BY <4>2, <4>3 DEF Writing
    <3>2. thread'[t].pc = "step" /\ thread'[t].at = thread[t].at /\ thread'[t].args = thread[t].args
          /\ thread[t].pc = "bind"
      BY <1>1, <1>6, <2>3, <3>1, Fields DEF Bind
    <3> QED
      BY <1>2, <1>7, <3>2 DEF Answered
  <2> QED
    BY <2>1, <2>2, <2>3
<1> QED
  BY <1>2, <1>3, <1>6, <1>8, AskedKept, Same

\* A statement that is done without a failure.
LEMMA DoneAsked ==
    ASSUME Inv, AskedInv, NEW t \in Threads, NEW db, NEW ret,
           Later(cur, db), cur' = db, disk' \in {disk, db}, GotoWith(t, "reset", ret),
           thread[t].pc = "step", failures = 0, UNCHANGED <<server, returned, reported>>,
           ret >= 0,
           /\ thread[t].at = "repo_insert" => \E i \in DOMAIN db.repos : Repo(db, thread[t].args.url, i)
           /\ thread[t].at = "repo_find" => Repo(db, thread[t].args.url, ret)
           /\ thread[t].at = "run_insert" => Asked(db, thread[t].args.url, thread[t].args.rev, ret)
           /\ thread[t].at = "run_finished" => thread[t].args.id \in DOMAIN db.runs
    PROVE  AskedInv'
<1>1. thread \in [Threads -> ThreadState]
  BY DEF Inv, TypeOK, ThreadState
<1>2. /\ thread'[t].pc = "reset" /\ thread'[t].at = thread[t].at
      /\ thread'[t].args.ret = ret
      /\ thread'[t].args.url = thread[t].args.url
      /\ thread'[t].args.rev = thread[t].args.rev
      /\ thread'[t].args.id = thread[t].args.id
      /\ \A u \in Threads \ {t} : thread'[u] = thread[u]
  BY <1>1, Fields
<1>3. server = "serving"
  BY DEF AskedInv, QuietInv
<1>4. thread'[t].at = "run_finished" => thread'[t].args.id \in DOMAIN cur'.runs
  BY <1>2
<1>5. Answered(t)'
  BY <1>2, <1>4 DEF Answered
<1>6. disk' = disk \/ Later(disk', cur')
  BY Same
<1> QED
  BY <1>2, <1>3, <1>5, <1>6, AskedKept

LEMMA StepAsked ==
    ASSUME Inv, AskedInv, NEW t \in Threads,
           StepRepoInsert(t) \/ StepRepoFind(t) \/ StepRunInsert(t) \/ StepRunFinished(t)
    PROVE  AskedInv'
<1>1. /\ thread \in [Threads -> ThreadState] /\ OwnsStatement(t)
      /\ cur \in Database
  BY DEF Inv, TypeOK, ThreadState
<1>2. UNCHANGED <<server, returned, reported>> /\ thread[t].pc = "step" /\ server = "serving"
  BY DEF StepRepoInsert, StepRepoFind, StepRunInsert, StepRunFinished, Stepping, upgradeVars, AskedInv, QuietInv
<1>3. QuietInv'
  BY <1>2 DEF QuietInv
<1>4. SUFFICES ASSUME failures' = 0
               PROVE  AskedInv'
  BY <1>3 DEF AskedInv
<1>5. ~Fail /\ (Fine => failures = 0)
  BY <1>4, NoFailure
<1>6. bound[thread[t].at] = thread[t].args /\ (Fine => Answered(t))
  BY <1>1, <1>2, <1>5 DEF OwnsStatement, AskedInv
<1>7. cur.repos \in Seq(Urls) /\ cur.runs \in Seq(Run)
  BY <1>1 DEF Database
<1>8. CASE StepRepoInsert(t)
  <2> DEFINE url == thread[t].args.url
             db == IF IdsOf(url) = {} THEN [cur EXCEPT !.repos = Append(@, url)] ELSE cur
  <2>1. Done(t, db, 0) /\ thread[t].at = "repo_insert"
    BY <1>6, <1>8 DEF StepRepoInsert, Stepping
  <2>2. failures = 0 /\ cur' = db /\ disk' \in {disk, db} /\ GotoWith(t, "reset", 0)
    BY <1>5, <2>1 DEF Done
  <2>3. CASE IdsOf(url) # {}
    <3>1. db = cur
      BY <2>3
    <3>2. \E i \in DOMAIN cur.repos : Repo(cur, url, i)
      BY <2>3 DEF IdsOf, Repo
    <3>3. Later(cur, db)
      BY <3>1, Same
    <3> HIDE DEF db
    <3> QED
      BY <1>2, <2>1, <2>2, <3>1, <3>2, <3>3, DoneAsked
  <2>4. CASE IdsOf(url) = {}
    <3>1. db.repos = Append(cur.repos, url) /\ db.runs = cur.runs
      BY <1>1, <2>4 DEF Database
    <3> HIDE DEF db
    <3>2. \A i \in DOMAIN cur.repos : i \in DOMAIN db.repos /\ db.repos[i] = cur.repos[i]
      BY <1>7, <3>1
    <3>3. Len(cur.repos) + 1 \in DOMAIN db.repos /\ db.repos[Len(cur.repos) + 1] = url
      BY <1>7, <3>1
    <3>4. Later(cur, db) /\ \E i \in DOMAIN db.repos : Repo(db, url, i)
      BY <3>1, <3>2, <3>3 DEF Later, Repo
    <3> QED
      BY <1>2, <2>1, <2>2, <3>4, DoneAsked
  <2> QED
    BY <2>3, <2>4
<1>9. CASE StepRepoFind(t)
  <2>1. thread[t].at = "repo_find" /\ bound["repo_find"].url = thread[t].args.url
    BY <1>6, <1>9 DEF StepRepoFind, Stepping
  <2>2. UNCHANGED disk /\ failures = 0
    BY <1>5, <1>9 DEF StepRepoFind
  <2>3. IdsOf(thread[t].args.url) # {}
    BY <1>2, <2>1, <2>2 DEF AskedInv, Answered, IdsOf, Repo
  <2>4. PICK id \in IdsOf(thread[t].args.url) : GotoWith(t, "reset", id) /\ UNCHANGED cur
    BY <1>5, <1>9, <2>1, <2>3 DEF StepRepoFind
  <2>5. id >= 0 /\ Repo(cur, thread[t].args.url, id)
    BY <1>7, <2>4 DEF IdsOf, Repo
  <2> QED
    BY <1>2, <2>1, <2>2, <2>4, <2>5, DoneAsked, Same
<1>10. CASE StepRunInsert(t)
  <2> DEFINE args == thread[t].args
             row == [repo |-> args.ret, rev |-> args.rev, ec |-> None]
             db == [cur EXCEPT !.runs = Append(@, row)]
  <2>1. thread[t].at = "run_insert" /\ bound["run_insert"] = args /\ UNCHANGED disk
    BY <1>6, <1>10 DEF StepRunInsert, Stepping
  <2>2. failures = 0
    BY <1>5, <1>10 DEF StepRunInsert
  <2>3. Repo(cur, args.url, args.ret)
    BY <1>2, <2>1, <2>2 DEF AskedInv, Answered
  <2>4. cur' = db /\ GotoWith(t, "reset", Len(db.runs))
    BY <1>5, <1>10, <2>1, <2>3 DEF StepRunInsert, HasRepo, Repo
  <2>5. db.runs = Append(cur.runs, row) /\ db.repos = cur.repos /\ row \in Run
    <3>1. args.rev \in Revs /\ args.ret \in Nat
      BY <1>1, <1>2, <1>7, <2>1, <2>3 DEF OwnsStatement, Repo
    <3> QED
      BY <1>1, <3>1 DEF Database, Run
  <2>6. row.rev = args.rev /\ row.repo = args.ret
    OBVIOUS
  <2> HIDE DEF db, row
  <2>7. /\ Len(db.runs) \in DOMAIN db.runs /\ db.runs[Len(db.runs)] = row /\ Len(db.runs) >= 0
        /\ \A i \in DOMAIN cur.runs : i \in DOMAIN db.runs /\ db.runs[i] = cur.runs[i]
    BY <1>7, <2>5
  <2>8. Later(cur, db)
    BY <2>5, <2>7 DEF Later
  <2>9. Asked(db, args.url, args.rev, Len(db.runs))
    BY <2>3, <2>5, <2>6, <2>7 DEF Asked, Repo
  <2> QED
    BY <1>2, <2>1, <2>2, <2>4, <2>7, <2>8, <2>9, DoneAsked
<1>11. CASE StepRunFinished(t)
  <2> DEFINE id == thread[t].args.id
             ec == thread[t].args.ec
             db == [cur EXCEPT !.runs[id].ec = ec]
  <2>1. thread[t].at = "run_finished" /\ bound["run_finished"].id = id /\ bound["run_finished"].ec = ec
    BY <1>6, <1>11 DEF StepRunFinished, Stepping
  <2>2. failures = 0
    BY <1>5, <1>11 DEF StepRunFinished, Done
  <2>3. id \in DOMAIN cur.runs
    BY <1>2, <2>1, <2>2 DEF AskedInv, Answered
  <2>4. Done(t, db, 0)
    BY <1>11, <2>1, <2>3 DEF StepRunFinished
  <2>5. cur' = db /\ disk' \in {disk, db} /\ GotoWith(t, "reset", 0)
    BY <1>5, <2>4 DEF Done
  <2>6. /\ DOMAIN db.runs = DOMAIN cur.runs /\ db.repos = cur.repos
        /\ \A i \in DOMAIN cur.runs : i # id => db.runs[i] = cur.runs[i]
        /\ db.runs[id] = [cur.runs[id] EXCEPT !.ec = ec]
    BY <1>1, <1>7, <2>3 DEF Database
  <2>7. /\ db.runs[id].rev = cur.runs[id].rev /\ db.runs[id].repo = cur.runs[id].repo
        /\ db.runs[id].ec # None
    <3>1. cur.runs[id] \in Run
      BY <1>7, <2>3
    <3>2. ec # None
      BY <1>1, <1>2, <2>1, NoneAssumption DEF OwnsStatement
    <3> HIDE DEF db
    <3> QED
      BY <2>6, <3>1, <3>2 DEF Run
  <2> HIDE DEF db
  <2>8. Later(cur, db) /\ id \in DOMAIN db.runs
    BY <2>3, <2>6, <2>7 DEF Later
  <2> QED
    BY <1>2, <2>1, <2>2, <2>5, <2>8, DoneAsked
<1> QED
  BY <1>8, <1>9, <1>10, <1>11

LEMMA EndAsked ==
    ASSUME Inv, PendingInv, AskedInv, NEW t \in Threads, Reset(t) \/ Unlock(t)
    PROVE  AskedInv'
<1>1. thread \in [Threads -> ThreadState]
  BY DEF Inv, TypeOK, ThreadState
<1>2. /\ server' = server /\ server = "serving"
      /\ \A u \in Threads \ {t} : thread'[u] = thread[u]
  BY <1>1, Fields DEF Reset, Unlock, upgradeVars, AskedInv, QuietInv
<1>3. QuietInv'
  BY <1>2 DEF QuietInv
<1>4. SUFFICES ASSUME failures' = 0
               PROVE  AskedInv'
  BY <1>3 DEF AskedInv
<1>5. failures = 0 /\ ~Fail
  BY <1>4, NoFailure DEF Reset, Unlock, Fine
<1>6. Answered(t)
  BY <1>5 DEF AskedInv
<1>7. CASE Reset(t)
  <2>1. UNCHANGED <<cur, returned, reported>> /\ disk' \in {disk, cur}
    BY <1>5, <1>7 DEF Reset
  <2>2. thread[t].pc = "reset" /\ thread'[t].pc = "unlock" /\ thread'[t].at = thread[t].at
        /\ thread'[t].args = thread[t].args
    BY <1>1, <1>7, Fields DEF Reset
  <2>3. Answered(t)'
    BY <1>6, <2>1, <2>2 DEF Answered
  <2>4. disk' = disk \/ Later(disk', cur')
    BY <2>1, Same
  <2> QED
    BY <1>2, <1>5, <2>1, <2>3, <2>4, AskedKept, Same
<1>8. CASE Unlock(t)
  <2> DEFINE at == thread[t].at
             args == thread[t].args
  <2>1. UNCHANGED <<cur, disk>> /\ thread[t].pc = "unlock" /\ at \in Prepared
    BY <1>1, <1>8 DEF Unlock, ThreadState
  <2>2. args.ret >= 0
    BY <1>6 DEF Answered
  <2>3. \A r \in returned' : r \in returned \/ Asked(cur', r.url, r.rev, r.id)
    BY <1>6, <1>8, <2>1 DEF Unlock, Answered
  <2>5. Answered(t)'
    <3>1. CASE at \in {"run_insert", "run_finished"}
      <4>1. thread'[t] = Idle
        BY <1>1, <1>8, <3>1 DEF Unlock
      <4> QED
        BY <4>1 DEF Answered, Idle, NoArguments
    <3>2. CASE at \in {"repo_insert", "repo_find"}
      <4>1. args.ret \in Int
        BY <1>1 DEF ThreadState, Arguments
      <4>2. ~(args.ret < 0 \/ at \in {"run_insert", "run_finished"})
        BY <2>2, <3>2, <4>1
      <4>3. thread'[t] = [thread[t] EXCEPT !.pc = "lock", !.at = Following(at)]
        BY <1>1, <1>8, <4>2 DEF Unlock
      <4>4. /\ thread'[t].pc = "lock" /\ thread'[t].args = args
            /\ thread'[t].at = IF at = "repo_insert" THEN "repo_find" ELSE "run_insert"
        BY <1>1, <4>3 DEF ThreadState, Following
      <4> QED
        BY <1>6, <2>1, <2>2, <3>2, <4>4 DEF Answered
    <3> QED
      BY <2>1, <3>1, <3>2 DEF Prepared
  <2> QED
    BY <1>2, <1>5, <2>1, <2>3, <2>5, AskedKept, Same
<1> QED
  BY <1>7, <1>8

LEMMA AskedStep == Inv /\ PendingInv /\ AskedInv /\ [Next]_vars => AskedInv'
<1>1. ASSUME AskedInv, UNCHANGED vars
      PROVE  AskedInv'
  BY <1>1 DEF vars, AskedInv, QuietInv, Answered
<1> QED
  BY <1>1, ServerAsked, WaitingAsked, StepAsked, EndAsked DEF Next, ThreadStep

THEOREM AsAsked == Spec => []AskedInv
<1>1. Init => PendingInv
  BY DEF Init, PendingInv
<1>2. Init => AskedInv
  BY DEF Init, AskedInv, QuietInv, Answered, Idle, NoArguments, Later
<1> QED
  BY <1>1, <1>2, Invariance, PendingStep, AskedStep, PTL DEF Spec

-----------------------------------------------------------------------------
(* Exit codes, without failures *)

Reporting(t) == thread[t].pc # "idle" /\ thread[t].at = "run_finished"
Code(db, id, ec) == id \in DOMAIN db.runs /\ db.runs[id].ec = ec

\* A run is reported once, by one thread: its exit code is written once.
ExitInv ==
    failures = 0 =>
        /\ \A t, u \in Threads :
            Reporting(t) /\ Reporting(u) /\ thread[t].args.id = thread[u].args.id => t = u
        /\ \A t \in Threads : Reporting(t) => \A r \in reported : r.id # thread[t].args.id
        /\ \A t \in Threads : Reporting(t) /\ thread[t].pc \in {"reset", "unlock"} =>
            Code(cur, thread[t].args.id, thread[t].args.ec)
        /\ \A r \in reported : Code(cur, r.id, r.ec)

\* Steps that report nothing and keep the exit codes there are.
LEMMA CodesKept ==
    ASSUME ExitInv, NEW t \in Threads, failures = 0, UNCHANGED reported,
           \A u \in Threads \ {t} : thread'[u] = thread[u],
           \A id, ec : Code(cur, id, ec) => Code(cur', id, ec),
           Reporting(t)' =>
            /\ Reporting(t)
            /\ thread'[t].args.id = thread[t].args.id /\ thread'[t].args.ec = thread[t].args.ec
            /\ thread'[t].pc \in {"reset", "unlock"} => thread[t].pc \in {"reset", "unlock"}
    PROVE  ExitInv'
<1>1. \A u \in Threads : Reporting(u)' =>
        /\ Reporting(u)
        /\ thread'[u].args.id = thread[u].args.id /\ thread'[u].args.ec = thread[u].args.ec
        /\ thread'[u].pc \in {"reset", "unlock"} => thread[u].pc \in {"reset", "unlock"}
  BY DEF Reporting
<1>2. \A u, v \in Threads : (Reporting(u) /\ Reporting(v))' /\ thread'[u].args.id = thread'[v].args.id => u = v
  BY <1>1 DEF ExitInv
<1>3. \A u \in Threads : Reporting(u)' => \A r \in reported' : r.id # thread'[u].args.id
  BY <1>1 DEF ExitInv
<1>4. \A u \in Threads : Reporting(u)' /\ thread'[u].pc \in {"reset", "unlock"} =>
        Code(cur', thread'[u].args.id, thread'[u].args.ec)
  BY <1>1 DEF ExitInv
<1>5. \A r \in reported' : Code(cur', r.id, r.ec)
  BY DEF ExitInv
<1> QED
  BY <1>2, <1>3, <1>4, <1>5 DEF ExitInv

LEMMA ServerCodes ==
    ASSUME Inv, PendingInv, AskedInv, ExitInv, ServerStart \/ UpgradeStatement \/ ServerCrash
    PROVE  ExitInv'
<1> SUFFICES ASSUME failures' = 0
             PROVE  ExitInv'
  BY DEF ExitInv
<1>1. failures = 0 /\ ~Fail
  BY NoFailure DEF ServerStart, UpgradeStatement, ServerCrash, Fine
<1>2. CASE ServerStart
  BY <1>1, <1>2 DEF ServerStart, ExitInv, Reporting
<1>3. CASE UpgradeStatement
  <2>1. cur = disk /\ cur' = disk' /\ UNCHANGED <<thread, reported>> /\ disk'.runs = disk.runs
    BY <1>1, <1>3 DEF UpgradeStatement, PendingInv, Writing, AskedInv, QuietInv, Inv, TypeOK, Database
  <2> QED
    BY <1>1, <2>1 DEF ExitInv, Reporting, Code
<1>4. CASE ServerCrash
  <2>1. /\ cur' = disk /\ thread' = [t \in Threads |-> Idle]
        /\ reported' = {r \in reported : r.id <= Len(disk.runs) /\ disk.runs[r.id].ec = r.ec}
    BY <1>4 DEF ServerCrash
  <2>2. disk.runs \in Seq(Run) /\ cur.runs \in Seq(Run)
    BY DEF Inv, TypeOK, Database
  <2>3. ASSUME NEW r \in reported'
        PROVE  Code(cur', r.id, r.ec)
    <3>1. r.id \in DOMAIN cur.runs /\ r.id <= Len(disk.runs) /\ disk.runs[r.id].ec = r.ec
      BY <1>1, <2>1 DEF ExitInv, Code
    <3>2. r.id \in DOMAIN disk.runs
      BY <2>2, <3>1
    <3> QED
      BY <2>1, <3>1, <3>2 DEF Code
  <2>4. \A t \in Threads : ~Reporting(t)'
    BY <2>1 DEF Reporting, Idle
  <2> QED
    BY <2>3, <2>4 DEF ExitInv
<1> QED
  BY <1>2, <1>3, <1>4

\* Whoever reports is the first to: an id was returned for one run.
LEMMA CallCodes ==
    ASSUME Inv, AskedInv, ExitInv, NEW t \in Threads, Call(t)
    PROVE  ExitInv'
<1> SUFFICES ASSUME failures = 0
             PROVE  ExitInv'
  BY DEF ExitInv, Call
<1>1. /\ thread \in [Threads -> ThreadState] /\ UNCHANGED <<cur, reported>> /\ thread[t].pc = "idle"
      /\ returned \subseteq [url : Urls, rev : Revs, id : Nat]
  BY DEF Inv, TypeOK, ThreadState, Call
<1>2. \A u \in Threads \ {t} : thread'[u] = thread[u]
  BY <1>1 DEF Call
<1>3. \A run \in returned : ~GivenAgain(run)
  <2>1. ASSUME NEW run \in returned, NEW other \in returned, other.id = run.id
        PROVE  other = run
    <3>1. Asked(cur, run.url, run.rev, run.id) /\ Asked(cur, other.url, other.rev, run.id)
      BY <2>1 DEF AskedInv
    <3>2. other.url = run.url /\ other.rev = run.rev
      BY <3>1 DEF Asked, Repo
    <3> QED
      BY <1>1, <2>1, <3>2
  <2> QED
    BY <2>1 DEF GivenAgain
<1>4. CASE \E u \in Urls, r \in Revs :
            thread' = [thread EXCEPT ![t] = [pc |-> "lock", at |-> "repo_insert",
                        args |-> [url |-> u, rev |-> r, ret |-> 0, id |-> 0, ec |-> None]]]
  <2>1. ~Reporting(t)'
    BY <1>1, <1>4 DEF Reporting
  <2> QED
    BY <1>1, <1>2, <2>1, CodesKept
<1>5. ASSUME NEW run \in returned, NEW ec \in ExitCodes, Unreported(run.id),
             thread' = [thread EXCEPT ![t] = [pc |-> "lock", at |-> "run_finished",
                        args |-> [url |-> None, rev |-> None, ret |-> 0, id |-> run.id, ec |-> ec]]]
      PROVE  ExitInv'
  <2>1. thread'[t].pc = "lock" /\ thread'[t].args.id = run.id
    BY <1>1, <1>5
  <2>2. \A u \in Threads \ {t} : (Reporting(u)' <=> Reporting(u)) /\ (Reporting(u) => thread[u].args.id # run.id)
    BY <1>2, <1>5 DEF Reporting, Unreported
  <2>3. \A r \in reported : r.id # run.id
    BY <1>5 DEF Unreported
  <2>4. \A u, v \in Threads : (Reporting(u) /\ Reporting(v))' /\ thread'[u].args.id = thread'[v].args.id => u = v
    BY <1>2, <2>1, <2>2 DEF ExitInv
  <2>5. \A u \in Threads : Reporting(u)' => \A r \in reported' : r.id # thread'[u].args.id
    BY <1>1, <1>2, <2>1, <2>2, <2>3 DEF ExitInv
  <2>6. \A u \in Threads : Reporting(u)' /\ thread'[u].pc \in {"reset", "unlock"} =>
            Code(cur', thread'[u].args.id, thread'[u].args.ec)
    BY <1>1, <1>2, <2>1, <2>2 DEF ExitInv
  <2>7. \A r \in reported' : Code(cur', r.id, r.ec)
    BY <1>1 DEF ExitInv
  <2> QED
    BY <2>4, <2>5, <2>6, <2>7 DEF ExitInv
<1> QED
  BY <1>3, <1>4, <1>5 DEF Call

\* The statements of a call, but for the one that writes an exit code.
LEMMA StatementCodes ==
    ASSUME Inv, PendingInv, ExitInv, NEW t \in Threads,
           Lock(t) \/ Bind(t) \/ StepRepoInsert(t) \/ StepRepoFind(t) \/ StepRunInsert(t) \/ Reset(t)
    PROVE  ExitInv'
<1> SUFFICES ASSUME failures' = 0
             PROVE  ExitInv'
  BY DEF ExitInv
<1>1. /\ thread \in [Threads -> ThreadState] /\ cur \in Database /\ cur.runs \in Seq(Run)
      /\ UNCHANGED reported
  BY DEF Inv, TypeOK, ThreadState, Database, Lock, Bind, StepRepoInsert, StepRepoFind, StepRunInsert, Reset
<1>2. ~Fail /\ (Fine => failures = 0)
  BY NoFailure
<1>3. failures = 0
  BY <1>2 DEF Lock, Bind, StepRepoInsert, StepRepoFind, StepRunInsert, Reset, Done, Fine
<1>4. CASE Lock(t) \/ Bind(t) \/ Reset(t)
  <2>1. UNCHANGED cur
    BY <1>2, <1>4 DEF Lock, Bind, Reset
  <2>2. \/ \E pc \in {"bind", "step"} : Goto(t, pc)
        \/ Goto(t, "unlock") /\ thread[t].pc = "reset"
        \/ thread[t].at \in active /\ GotoWith(t, "reset", -1)
    BY <1>2, <1>4 DEF Lock, Bind, Reset
  <2>3. thread[t].pc # "idle"
    BY <1>4 DEF Lock, Bind, Reset
  <2>4. /\ thread'[t].at = thread[t].at
        /\ thread'[t].args.id = thread[t].args.id /\ thread'[t].args.ec = thread[t].args.ec
        /\ \A u \in Threads \ {t} : thread'[u] = thread[u]
        /\ thread'[t].pc \in {"reset", "unlock"} => thread[t].pc = "reset" \/ thread[t].at \in active
    BY <1>1, <2>2, Fields
  <2>5. thread[t].at \in active => thread[t].at = "run_insert"
    BY DEF Inv, TypeOK
  <2> QED
    BY <1>1, <1>3, <2>1, <2>3, <2>4, <2>5, CodesKept DEF Reporting
<1>5. CASE StepRepoInsert(t) \/ StepRepoFind(t) \/ StepRunInsert(t)
  <2>1. /\ thread[t].at \in {"repo_insert", "repo_find", "run_insert"}
        /\ \E ret : GotoWith(t, "reset", ret)
    BY <1>5 DEF StepRepoInsert, StepRepoFind, StepRunInsert, Stepping, Done
  <2>2. thread'[t].at = thread[t].at /\ \A u \in Threads \ {t} : thread'[u] = thread[u]
    BY <1>1, <2>1, Fields
  <2>3. \A id, ec : Code(cur, id, ec) => Code(cur', id, ec)
    <3>1. CASE StepRepoInsert(t)
      <4>1. cur'.runs = cur.runs
        BY <1>1, <1>2, <3>1 DEF StepRepoInsert, Done, Database
      <4> QED
        BY <4>1 DEF Code
    <3>2. CASE StepRepoFind(t)
      BY <1>2, <3>2 DEF StepRepoFind
    <3>3. CASE StepRunInsert(t)
      <4> DEFINE args == bound["run_insert"]
                 row == [repo |-> args.ret, rev |-> args.rev, ec |-> None]
      <4>1. cur' = cur \/ cur'.runs = Append(cur.runs, row)
        BY <1>1, <1>2, <3>3 DEF StepRunInsert, Database
      <4> HIDE DEF row
      <4>2. \A i \in DOMAIN cur.runs : i \in DOMAIN cur'.runs /\ cur'.runs[i] = cur.runs[i]
        BY <1>1, <4>1
      <4> QED
        BY <4>2 DEF Code
    <3> QED
      BY <1>5, <3>1, <3>2, <3>3
  <2> QED
    BY <1>1, <1>3, <2>1, <2>2, <2>3, CodesKept DEF Reporting
<1> QED
  BY <1>4, <1>5

\* The exit code is written to the row of the run, and to no other.
LEMMA FinishedCodes ==
    ASSUME Inv, AskedInv, ExitInv, NEW t \in Threads, StepRunFinished(t)
    PROVE  ExitInv'
<1> SUFFICES ASSUME failures' = 0
             PROVE  ExitInv'
  BY DEF ExitInv
<1> DEFINE id == thread[t].args.id
           ec == thread[t].args.ec
           db == [cur EXCEPT !.runs[id].ec = ec]
<1>1. /\ thread \in [Threads -> ThreadState] /\ cur \in Database /\ cur.runs \in Seq(Run)
      /\ UNCHANGED reported /\ thread[t].pc = "step" /\ thread[t].at = "run_finished"
  BY DEF Inv, TypeOK, ThreadState, Database, StepRunFinished, Stepping
<1>2. bound["run_finished"] = thread[t].args
  BY <1>1 DEF Inv, OwnsStatement
<1>3. ~Fail /\ (Fine => failures = 0)
  BY NoFailure
<1>4. failures = 0
  BY <1>3 DEF StepRunFinished, Done
<1>5. id \in DOMAIN cur.runs
  BY <1>1, <1>4 DEF AskedInv, Answered
<1>6. cur' = db /\ GotoWith(t, "reset", 0)
  BY <1>2, <1>3, <1>5 DEF StepRunFinished, Done
<1>7. /\ DOMAIN db.runs = DOMAIN cur.runs
      /\ \A k \in DOMAIN cur.runs : k # id => db.runs[k] = cur.runs[k]
      /\ db.runs[id].ec = ec
  <2>1. cur.runs[id] \in Run
    BY <1>1, <1>5
  <2>2. /\ DOMAIN db.runs = DOMAIN cur.runs
        /\ \A k \in DOMAIN cur.runs : k # id => db.runs[k] = cur.runs[k]
        /\ db.runs[id] = [cur.runs[id] EXCEPT !.ec = ec]
    BY <1>1, <1>5 DEF Database
  <2> HIDE DEF db
  <2> QED
    BY <2>1, <2>2 DEF Run
<1>8. /\ thread'[t].args.id = id /\ thread'[t].args.ec = ec
      /\ \A u \in Threads \ {t} : thread'[u] = thread[u]
  BY <1>1, <1>6, Fields
<1> HIDE DEF db, id, ec
<1>9. Code(cur', id, ec) /\ \A k, e : Code(cur, k, e) /\ k # id => Code(cur', k, e)
  BY <1>5, <1>6, <1>7 DEF Code
<1>10. Reporting(t) /\ \A u \in Threads \ {t} : Reporting(u)' <=> Reporting(u)
  BY <1>1, <1>8 DEF Reporting
<1>11. /\ \A u \in Threads \ {t} : Reporting(u) => thread[u].args.id # id
       /\ \A r \in reported : r.id # id
  BY <1>4, <1>10 DEF ExitInv, id
<1>12. \A u, v \in Threads : (Reporting(u) /\ Reporting(v))' /\ thread'[u].args.id = thread'[v].args.id => u = v
  BY <1>4, <1>8, <1>10, <1>11 DEF ExitInv
<1>13. \A u \in Threads : Reporting(u)' => \A r \in reported' : r.id # thread'[u].args.id
  BY <1>1, <1>4, <1>8, <1>10, <1>11 DEF ExitInv
<1>14. \A u \in Threads : Reporting(u)' /\ thread'[u].pc \in {"reset", "unlock"} =>
            Code(cur', thread'[u].args.id, thread'[u].args.ec)
  BY <1>4, <1>8, <1>9, <1>10, <1>11 DEF ExitInv
<1>15. \A r \in reported' : Code(cur', r.id, r.ec)
  BY <1>1, <1>4, <1>9, <1>11 DEF ExitInv
<1> QED
  BY <1>12, <1>13, <1>14, <1>15 DEF ExitInv

LEMMA UnlockCodes ==
    ASSUME Inv, AskedInv, ExitInv, NEW t \in Threads, Unlock(t)
    PROVE  ExitInv'
<1> SUFFICES ASSUME failures = 0
             PROVE  ExitInv'
  BY DEF ExitInv, Unlock
<1> DEFINE at == thread[t].at
           args == thread[t].args
<1>1. /\ thread \in [Threads -> ThreadState] /\ UNCHANGED cur /\ thread[t].pc = "unlock"
      /\ at \in Prepared /\ args.ret \in Int
  BY DEF Inv, TypeOK, ThreadState, Arguments, Unlock
<1>2. \A u \in Threads \ {t} : thread'[u] = thread[u]
  BY <1>1 DEF Unlock
<1>3. ~Reporting(t)'
  <2>1. CASE thread'[t] = Idle
    BY <2>1 DEF Reporting, Idle
  <2>2. CASE thread'[t] = [thread[t] EXCEPT !.pc = "lock", !.at = Following(at)]
    BY <1>1, <2>2 DEF Reporting, Following, ThreadState
  <2> QED
    BY <1>1, <2>1, <2>2 DEF Unlock
<1>4. CASE at # "run_finished"
  <2>1. UNCHANGED reported
    BY <1>4 DEF Unlock
  <2> QED
    BY <1>1, <1>2, <1>3, <2>1, CodesKept
<1>5. CASE at = "run_finished"
  <2>1. Reporting(t) /\ args.ret >= 0
    BY <1>1, <1>5 DEF Reporting, AskedInv, Answered
  <2>2. reported' = reported \union {[id |-> args.id, ec |-> args.ec]}
    BY <1>5, <2>1 DEF Unlock
  <2>3. Code(cur', args.id, args.ec)
    BY <1>1, <2>1 DEF ExitInv
  <2>4. \A u \in Threads \ {t} : (Reporting(u)' <=> Reporting(u)) /\ (Reporting(u) => thread[u].args.id # args.id)
    BY <1>2, <2>1 DEF ExitInv, Reporting
  <2>5. \A u, v \in Threads : (Reporting(u) /\ Reporting(v))' /\ thread'[u].args.id = thread'[v].args.id => u = v
    BY <1>2, <1>3, <2>4 DEF ExitInv
  <2>6. \A u \in Threads : Reporting(u)' => \A r \in reported' : r.id # thread'[u].args.id
    BY <1>2, <1>3, <2>2, <2>4 DEF ExitInv
  <2>7. \A u \in Threads : Reporting(u)' /\ thread'[u].pc \in {"reset", "unlock"} =>
            Code(cur', thread'[u].args.id, thread'[u].args.ec)
    BY <1>1, <1>2, <1>3, <2>4 DEF ExitInv
  <2>8. \A r \in reported' : Code(cur', r.id, r.ec)
    BY <1>1, <2>2, <2>3 DEF ExitInv
  <2> QED
    BY <2>5, <2>6, <2>7, <2>8 DEF ExitInv
<1> QED
  BY <1>4, <1>5

LEMMA ExitStep == Inv /\ PendingInv /\ AskedInv /\ ExitInv /\ [Next]_vars => ExitInv'
<1>1. ASSUME ExitInv, UNCHANGED vars
      PROVE  ExitInv'
  BY <1>1 DEF vars, ExitInv, Reporting
<1> QED
  BY <1>1, ServerCodes, CallCodes, StatementCodes, FinishedCodes, UnlockCodes DEF Next, ThreadStep

\* RowsAreAsAsked (storage_sqlite_run_create, storage_sqlite_run_finished):
\* whatever other threads do between its three statements, a run is the one
\* that was asked for, and its exit code the one that was reported for it.
THEOREM RowsAsAsked == Spec => []RowsAreAsAsked
<1>1. Init => PendingInv /\ ExitInv
  BY DEF Init, PendingInv, ExitInv, Reporting, Idle
<1>2. AskedInv /\ ExitInv => RowsAreAsAsked
  BY DEF AskedInv, ExitInv, RowsAreAsAsked, Asked, Repo, Code
<1> QED
  BY <1>1, <1>2, Invariance, AsAsked, PendingStep, ExitStep, PTL DEF Spec

\* ErrorNeedsFailure (storage_sqlite_insert_repo): a statement that fails was
\* failed by the library, not by the statements of another thread.
THEOREM ErrorsNeedFailure == Spec => []ErrorNeedsFailure
<1>1. AskedInv => ErrorNeedsFailure
  BY DEF AskedInv, ErrorNeedsFailure, Answered
<1> QED
  BY <1>1, AsAsked, PTL
=============================================================================
