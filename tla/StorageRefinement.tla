--------------------------- MODULE StorageRefinement ---------------------------
(***************************************************************************)
(* Storage implements RunStore, for any number of threads, repositories    *)
(* and rows: prepared statements, mutexes, repository ids and the one      *)
(* transaction they share amount to one list of runs, of which only what   *)
(* is not durable is ever lost.                                            *)
(***************************************************************************)
EXTENDS StorageProofs

-----------------------------------------------------------------------------
(* The runs of a database *)

RunRow == [url : Urls, rev : Revs, ec : ExitCodes \union {None}]

RowIn(db, i) ==
    [url |-> db.repos[db.runs[i].repo], rev |-> db.runs[i].rev, ec |-> db.runs[i].ec]

LEMMA RowsTyped ==
    ASSUME NEW db \in Database, Referential(db)
    PROVE  /\ RowsOf(db) \in Seq(RunRow)
           /\ Len(RowsOf(db)) = Len(db.runs)
           /\ DOMAIN RowsOf(db) = DOMAIN db.runs
           /\ \A i \in DOMAIN db.runs : RowsOf(db)[i] = RowIn(db, i)
<1>1. db.repos \in Seq(Urls) /\ db.runs \in Seq(Run) /\ DOMAIN db.runs = 1 .. Len(db.runs) /\ Len(db.runs) \in Nat
  BY DEF Database
<1>2. RowsOf(db) = [i \in 1 .. Len(db.runs) |-> RowIn(db, i)]
  BY DEF RowsOf, RowIn
<1>3. ASSUME NEW i \in 1 .. Len(db.runs)
      PROVE  RowIn(db, i) \in RunRow
  <2>1. db.runs[i] \in Run /\ db.runs[i].repo \in DOMAIN db.repos
    BY <1>1 DEF Referential
  <2>2. db.repos[db.runs[i].repo] \in Urls
    BY <1>1, <2>1
  <2> QED
    BY <2>1, <2>2 DEF RowIn, RunRow, Run
<1>4. RowsOf(db) \in [1 .. Len(db.runs) -> RunRow]
  BY <1>2, <1>3
<1> QED
  BY <1>1, <1>2, <1>4

\* Rows are the same where runs are, and the repositories they refer to.
LEMMA SameRows ==
    ASSUME NEW db \in Database, NEW new, Referential(db), new.runs = db.runs,
           \A i \in DOMAIN db.repos : new.repos[i] = db.repos[i]
    PROVE  RowsOf(new) = RowsOf(db)
<1>1. DOMAIN db.runs = 1 .. Len(db.runs)
  BY DEF Database
<1>2. \A i \in 1 .. Len(db.runs) : new.repos[new.runs[i].repo] = db.repos[db.runs[i].repo]
  BY <1>1 DEF Referential
<1> QED
  BY <1>2 DEF RowsOf

LEMMA InsertedRow ==
    ASSUME NEW db \in Database, Referential(db), NEW repo \in DOMAIN db.repos, NEW r \in Revs
    PROVE  LET row == [repo |-> repo, rev |-> r, ec |-> None]
               new == [db EXCEPT !.runs = Append(@, row)]
           IN  /\ Later(db, new)
               /\ Len(new.runs) = Len(db.runs) + 1
               /\ RowsOf(new) = Append(RowsOf(db), [url |-> db.repos[repo], rev |-> r, ec |-> None])
<1> DEFINE row == [repo |-> repo, rev |-> r, ec |-> None]
           new == [db EXCEPT !.runs = Append(@, row)]
           seen == [url |-> db.repos[repo], rev |-> r, ec |-> None]
           longer == Append(RowsOf(db), seen)
<1>1. db.repos \in Seq(Urls) /\ db.runs \in Seq(Run) /\ DOMAIN db.runs = 1 .. Len(db.runs) /\ Len(db.runs) \in Nat
  BY DEF Database
<1>2. row \in Run /\ seen \in RunRow
  BY <1>1 DEF Run, RunRow
<1>3. new.repos = db.repos /\ new.runs = Append(db.runs, row) /\ new \in Database /\ Referential(new)
  BY AppendRun DEF Database
<1>4. row.repo = repo /\ row.rev = r /\ row.ec = None
  OBVIOUS
<1> HIDE DEF row, new, seen
<1>5. /\ Len(new.runs) = Len(db.runs) + 1
      /\ DOMAIN new.runs = 1 .. Len(db.runs) + 1
      /\ new.runs[Len(db.runs) + 1] = row
      /\ \A i \in 1 .. Len(db.runs) : new.runs[i] = db.runs[i]
  BY <1>1, <1>2, <1>3
<1>6. Later(db, new)
  BY <1>1, <1>3, <1>5 DEF Later
<1>7. /\ RowsOf(db) \in Seq(RunRow) /\ RowsOf(new) \in Seq(RunRow)
      /\ Len(RowsOf(db)) = Len(db.runs) /\ Len(RowsOf(new)) = Len(db.runs) + 1
  BY <1>3, <1>5, RowsTyped
<1>8. /\ longer \in Seq(RunRow) /\ Len(longer) = Len(db.runs) + 1
      /\ longer[Len(db.runs) + 1] = seen
      /\ \A i \in 1 .. Len(db.runs) : longer[i] = RowsOf(db)[i]
  BY <1>1, <1>2, <1>7
<1>9. ASSUME NEW i \in 1 .. Len(db.runs) + 1
      PROVE  RowsOf(new)[i] = longer[i]
  <2>1. RowsOf(new)[i] = RowIn(new, i)
    BY <1>3, <1>5, RowsTyped
  <2>2. CASE i = Len(db.runs) + 1
    BY <1>3, <1>4, <1>5, <1>8, <2>1, <2>2 DEF RowIn, seen
  <2>3. CASE i \in 1 .. Len(db.runs)
    <3>1. RowsOf(db)[i] = RowIn(db, i)
      BY <1>1, <2>3, RowsTyped
    <3> QED
      BY <1>3, <1>5, <1>8, <2>1, <2>3, <3>1 DEF RowIn
  <2>4. i = Len(db.runs) + 1 \/ i \in 1 .. Len(db.runs)
    <3>1. Len(db.runs) \in Nat
      BY <1>1
    <3> QED
      BY <3>1
  <2> QED
    BY <2>2, <2>3, <2>4
<1>10. RowsOf(new) = longer
  <2> HIDE DEF longer
  <2>1. RowsOf(new) = [i \in 1 .. Len(RowsOf(new)) |-> RowsOf(new)[i]] /\ longer = [i \in 1 .. Len(longer) |-> longer[i]]
    BY <1>7, <1>8
  <2> QED
    BY <1>7, <1>8, <1>9, <2>1
<1> QED
  BY <1>5, <1>6, <1>10 DEF row, new, seen

LEMMA FinishedRow ==
    ASSUME NEW db \in Database, Referential(db), NEW id, NEW ec \in ExitCodes
    PROVE  LET new == IF id \in DOMAIN db.runs THEN [db EXCEPT !.runs[id].ec = ec] ELSE db
           IN  /\ Later(db, new)
               /\ RowsOf(new) = IF id \in DOMAIN RowsOf(db) THEN [RowsOf(db) EXCEPT ![id].ec = ec]
                                ELSE RowsOf(db)
<1> DEFINE new == [db EXCEPT !.runs[id].ec = ec]
           after == [RowsOf(db) EXCEPT ![id].ec = ec]
<1>1. /\ db.repos \in Seq(Urls) /\ db.runs \in Seq(Run) /\ DOMAIN db.runs = 1 .. Len(db.runs)
      /\ RowsOf(db) \in Seq(RunRow) /\ DOMAIN RowsOf(db) = DOMAIN db.runs
  BY RowsTyped DEF Database
<1>2. CASE id \notin DOMAIN db.runs
  BY <1>1, <1>2, Same
<1>3. CASE id \in DOMAIN db.runs
  <2>1. new.repos = db.repos /\ new.runs = [db.runs EXCEPT ![id].ec = ec]
    BY DEF Database
  <2>2. new \in Database /\ Referential(new)
    BY <1>3, FinishRun
  <2> HIDE DEF new
  <2>3. db.runs[id] \in Run
    BY <1>1, <1>3
  <2>4. /\ DOMAIN new.runs = DOMAIN db.runs
        /\ new.runs[id] = [db.runs[id] EXCEPT !.ec = ec]
        /\ \A i \in DOMAIN db.runs : i # id => new.runs[i] = db.runs[i]
    BY <1>1, <1>3, <2>1
  <2>5. new.runs[id].repo = db.runs[id].repo /\ new.runs[id].rev = db.runs[id].rev /\ new.runs[id].ec = ec
    BY <2>3, <2>4 DEF Run
  <2>6. Later(db, new)
    BY <2>1, <2>4, <2>5, NoneAssumption DEF Later
  <2>7. /\ DOMAIN RowsOf(new) = DOMAIN db.runs /\ RowsOf(new) \in Seq(RunRow)
        /\ \A i \in DOMAIN db.runs : RowsOf(new)[i] = RowIn(new, i) /\ RowsOf(db)[i] = RowIn(db, i)
    BY <2>2, <2>4, RowsTyped
  <2>8. /\ after = [i \in DOMAIN db.runs |-> IF i = id THEN [RowsOf(db)[id] EXCEPT !.ec = ec] ELSE RowsOf(db)[i]]
    BY <1>1, <1>3
  <2>9. [RowsOf(db)[id] EXCEPT !.ec = ec] = RowsOf(new)[id]
    <3> QED
      <4>1. /\ RowIn(db, id).url = RowIn(new, id).url
            /\ RowIn(db, id).rev = RowIn(new, id).rev
            /\ RowIn(new, id).ec = ec
        BY <2>1, <2>5 DEF RowIn
      <4>2. RowIn(db, id) \in RunRow /\ RowIn(new, id) \in RunRow
        BY <1>1, <1>3, <2>7
      <4>3. [RowIn(db, id) EXCEPT !.ec = ec] = RowIn(new, id)
        BY <4>1, <4>2 DEF RunRow
      <4> QED
        BY <1>3, <2>7, <4>3
  <2>10. \A i \in DOMAIN db.runs : i # id => RowsOf(new)[i] = RowsOf(db)[i]
    <3>1. \A i \in DOMAIN db.runs : i # id => RowIn(new, i) = RowIn(db, i)
      BY <2>1, <2>4 DEF RowIn
    <3> QED BY <2>7, <3>1
  <2>11. RowsOf(new) = [i \in DOMAIN db.runs |-> RowsOf(new)[i]]
    BY <2>7 DEF RowsOf
  <2>12. RowsOf(new) = after
    <3> HIDE DEF after
    <3> QED
      BY <1>3, <2>8, <2>9, <2>10, <2>11
  <2> QED
    BY <1>1, <1>3, <2>6, <2>12 DEF new
<1> QED
  BY <1>2, <1>3

-----------------------------------------------------------------------------
(* What a statement does to the database *)

LEMMA RepoInsertDone ==
    ASSUME Inv, NEW t \in Threads, StepRepoInsert(t)
    PROVE  \E db \in Database : Later(cur, db) /\ RowsOf(db) = RowsOf(cur) /\ Done(t, db, 0)
<1> DEFINE url == bound["repo_insert"].url
           new == [cur EXCEPT !.repos = Append(@, url)]
<1>1. cur \in Database /\ Referential(cur) /\ cur.repos \in Seq(Urls)
  BY DEF Inv, TypeOK, Database
<1>2. url \in Urls
  BY DEF Inv, StepRepoInsert, Stepping, OwnsStatement
<1>3. CASE IdsOf(url) # {}
  BY <1>1, <1>3, Same DEF StepRepoInsert
<1>4. CASE IdsOf(url) = {}
  <2>1. new \in Database
    BY <1>1, <1>2, AppendRepo
  <2>2. new.repos = Append(cur.repos, url) /\ new.runs = cur.runs
    BY <1>1 DEF Database
  <2>3. Done(t, new, 0)
    BY <1>4 DEF StepRepoInsert
  <2> HIDE DEF new
  <2>4. \A i \in DOMAIN cur.repos : i \in DOMAIN new.repos /\ new.repos[i] = cur.repos[i]
    BY <1>1, <1>2, <2>2
  <2>5. Later(cur, new)
    BY <2>2, <2>4 DEF Later
  <2>6. RowsOf(new) = RowsOf(cur)
    BY <1>1, <2>2, <2>4, SameRows
  <2> QED
    BY <2>1, <2>3, <2>5, <2>6
<1> QED
  BY <1>3, <1>4

LEMMA RunFinishedDone ==
    ASSUME Inv, NEW t \in Threads, StepRunFinished(t)
    PROVE  LET id == thread[t].args.id
               ec == thread[t].args.ec
           IN  \E db \in Database :
                /\ Later(cur, db)
                /\ RowsOf(db) = IF id \in DOMAIN rowsBar THEN [rowsBar EXCEPT ![id].ec = ec] ELSE rowsBar
                /\ Done(t, db, 0)
<1> DEFINE id == thread[t].args.id
           ec == thread[t].args.ec
           db == IF id \in DOMAIN cur.runs THEN [cur EXCEPT !.runs[id].ec = ec] ELSE cur
<1>1. cur \in Database /\ Referential(cur)
  BY DEF Inv, TypeOK
<1>2. bound["run_finished"].id = id /\ bound["run_finished"].ec = ec /\ ec \in ExitCodes
  BY DEF Inv, StepRunFinished, Stepping, OwnsStatement
<1>3. Done(t, db, 0)
  BY <1>2 DEF StepRunFinished
<1>4. db \in Database
  BY <1>1, <1>2, FinishRun
<1>5. /\ Later(cur, db)
      /\ RowsOf(db) = IF id \in DOMAIN rowsBar THEN [rowsBar EXCEPT ![id].ec = ec] ELSE rowsBar
  BY <1>1, <1>2, FinishedRow DEF rowsBar
<1> QED
  BY <1>3, <1>4, <1>5

\* The row is there, with the repository of the id that was found, or nothing
\* is but what a rollback leaves.
LEMMA RunInsertStepped ==
    ASSUME Inv, NEW t \in Threads, StepRunInsert(t)
    PROVE  LET args == thread[t].args
           IN  \/ /\ Later(cur, cur')
                  /\ HasRepo(args.ret)
                  /\ rowsBar' = Append(rowsBar, [url |-> cur.repos[args.ret], rev |-> args.rev, ec |-> None])
                  /\ active' = active \union {"run_insert"}
                  /\ GotoWith(t, "reset", Len(cur.runs) + 1)
                  /\ Fine
               \/ /\ ~HasRepo(args.ret)
                  /\ UNCHANGED <<cur, active>>
                  /\ GotoWith(t, "reset", -1)
                  /\ Fine
               \/ /\ cur' \in {cur, disk}
                  /\ UNCHANGED active
                  /\ GotoWith(t, "reset", -1)
                  /\ Fail
<1> DEFINE args == thread[t].args
           row == [repo |-> args.ret, rev |-> args.rev, ec |-> None]
           new == [cur EXCEPT !.runs = Append(@, row)]
<1>1. cur \in Database /\ Referential(cur)
  BY DEF Inv, TypeOK
<1>2. bound["run_insert"] = args /\ args.rev \in Revs
  BY DEF Inv, StepRunInsert, Stepping, OwnsStatement
<1>3. CASE /\ HasRepo(args.ret)
           /\ cur' = new
           /\ active' = active \union {"run_insert"}
           /\ GotoWith(t, "reset", Len(cur'.runs))
           /\ Fine
  <2>1. args.ret \in DOMAIN cur.repos
    BY <1>3 DEF HasRepo
  <2>2. /\ Later(cur, new)
        /\ Len(new.runs) = Len(cur.runs) + 1
        /\ RowsOf(new) = Append(RowsOf(cur), [url |-> cur.repos[args.ret], rev |-> args.rev, ec |-> None])
    BY <1>1, <1>2, <2>1, InsertedRow
  <2> HIDE DEF new
  <2> QED
    BY <1>3, <2>2 DEF rowsBar
<1> QED
  BY <1>2, <1>3 DEF StepRunInsert

-----------------------------------------------------------------------------
(* What is durable *)

\* The library's statement is active exactly while an insertion is in progress.
Inserted(t) == Writing(t) /\ thread[t].args.ret >= 0

ActiveInv == active # {} <=> \E t \in Threads : Inserted(t)

\* A run is durable before its caller knows it.
DurableInv ==
    failures = 0 =>
        /\ \A r \in returned : Asked(disk, r.url, r.rev, r.id)
        /\ \A t \in Threads :
            thread[t].at = "run_insert" /\ thread[t].pc = "unlock" =>
                Asked(disk, thread[t].args.url, thread[t].args.rev, thread[t].args.ret)

\* Ids begin at 1.
IdInv ==
    /\ \A r \in returned : r.id # 0
    /\ \A r \in reported : r.id # 0
    /\ \A t \in Threads :
        /\ thread[t].at = "run_insert" /\ thread[t].pc \in {"reset", "unlock"} => thread[t].args.ret # 0
        /\ thread[t].at = "run_finished" /\ thread[t].pc # "idle" => thread[t].args.id # 0

StoreInv ==
    /\ Inv
    /\ PendingInv
    /\ AskedInv
    /\ ActiveInv
    /\ Later(disk, cur)
    /\ DurableInv
    /\ IdInv

\* Whatever it asks for, a call begins with a mutex.
LEMMA CallLocks ==
    ASSUME thread \in [Threads -> ThreadState], NEW t \in Threads, Call(t)
    PROVE  thread'[t].pc = "lock" /\ \A u \in Threads \ {t} : thread'[u] = thread[u]
<1>1. PICK at, args : thread' = [thread EXCEPT ![t] = [pc |-> "lock", at |-> at, args |-> args]]
  BY DEF Call
<1> QED
  BY <1>1

\* The steps of others leave an insertion where it is.
LEMMA ActiveKept ==
    ASSUME Inv, ActiveInv, NEW t \in Threads, ~Inserted(t), ~Inserted(t)',
           \A u \in Threads \ {t} : thread'[u] = thread[u], active' = active
    PROVE  ActiveInv'
<1>1. \A u \in Threads : Inserted(u) <=> Inserted(u)'
  BY DEF Inserted, Writing
<1> QED
  BY <1>1 DEF ActiveInv

LEMMA ActiveStep == Inv /\ ActiveInv /\ [Next]_vars => ActiveInv'
<1> SUFFICES ASSUME Inv, ActiveInv, [Next]_vars PROVE ActiveInv'
  OBVIOUS
<1>1. /\ thread \in [Threads -> ThreadState]
      /\ active \in SUBSET {"run_insert"}
      /\ \A t \in Threads : OwnsStatement(t)
  BY DEF Inv, TypeOK, ThreadState
<1>2. CASE ServerStart \/ UpgradeStatement
  BY <1>2 DEF ServerStart, UpgradeStatement, ActiveInv, Inserted, Writing
<1>3. CASE ServerCrash
  BY <1>3 DEF ServerCrash, ActiveInv, Inserted, Writing, Idle
<1>4. ASSUME NEW t \in Threads, Call(t) \/ Lock(t) \/ Bind(t) \/ Unlock(t)
      PROVE  ActiveInv'
  <2>1. active' = active /\ ~Inserted(t) /\ \A u \in Threads \ {t} : thread'[u] = thread[u]
    BY <1>1, <1>4 DEF Call, Lock, Bind, Unlock, Goto, GotoWith, Inserted, Writing
  <2>2. ~Inserted(t)'
    <3>1. CASE Call(t)
      BY <1>1, <3>1, CallLocks DEF Inserted, Writing
    <3>2. CASE Lock(t)
      <4>1. thread'[t].pc = "bind"
        BY <1>1, <3>2, Fields DEF Lock
      <4> QED
        BY <4>1 DEF Inserted, Writing
    <3>3. CASE Bind(t)
      <4>1. thread'[t].pc = "step" \/ thread'[t].args.ret = -1
        <5>1. Goto(t, "step") \/ GotoWith(t, "reset", -1)
          BY <3>3 DEF Bind
        <5>2. Goto(t, "step") => thread'[t].pc = "step"
          BY <1>1, Fields
        <5>3. GotoWith(t, "reset", -1) => thread'[t].args.ret = -1
          BY <1>1, Fields
        <5> QED
          BY <3>3, <5>1, <5>2, <5>3 DEF Bind
      <4> QED
        BY <4>1 DEF Inserted, Writing
    <3>4. CASE Unlock(t)
      <4>1. thread'[t] = Idle \/ thread'[t].pc = "lock"
        BY <1>1, <3>4 DEF Unlock, ThreadState
      <4> QED
        BY <4>1 DEF Inserted, Writing, Idle
    <3> QED
      BY <1>4, <3>1, <3>2, <3>3, <3>4
  <2> QED
    BY <2>1, <2>2, ActiveKept
<1>5. ASSUME NEW t \in Threads, thread[t].pc = "step", active' = active, NEW ret,
             GotoWith(t, "reset", ret), thread[t].at # "run_insert" \/ ret = -1
      PROVE  ActiveInv'
  <2>1. ~Inserted(t) /\ ~Inserted(t)' /\ \A u \in Threads \ {t} : thread'[u] = thread[u]
    BY <1>1, <1>5, Fields DEF Inserted, Writing
  <2> QED
    BY <1>5, <2>1, ActiveKept
<1>6. ASSUME NEW t \in Threads, StepRepoInsert(t) \/ StepRunFinished(t)
      PROVE  ActiveInv'
  <2>1. \E db : Done(t, db, 0)
    BY <1>6 DEF StepRepoInsert, StepRunFinished
  <2>2. active' = active /\ \E ret : GotoWith(t, "reset", ret)
    BY <2>1 DEF Done
  <2>3. thread[t].pc = "step" /\ thread[t].at # "run_insert"
    BY <1>6 DEF StepRepoInsert, StepRunFinished, Stepping
  <2> QED
    BY <1>5, <2>2, <2>3
<1>7. ASSUME NEW t \in Threads, StepRepoFind(t)
      PROVE  ActiveInv'
  <2>1. active' = active /\ \E ret : GotoWith(t, "reset", ret)
    BY <1>7 DEF StepRepoFind
  <2>2. thread[t].pc = "step" /\ thread[t].at # "run_insert"
    BY <1>7 DEF StepRepoFind, Stepping
  <2> QED
    BY <1>5, <2>1, <2>2
<1>8. ASSUME NEW t \in Threads, StepRunInsert(t)
      PROVE  ActiveInv'
  <2>1. thread[t].pc = "step" /\ thread[t].at = "run_insert"
    BY <1>8 DEF StepRunInsert, Stepping
  <2>2. CASE active' = active \union {"run_insert"} /\ GotoWith(t, "reset", Len(cur.runs) + 1)
    <3>1. Len(cur.runs) + 1 >= 0
      BY DEF Inv, TypeOK, Database
    <3>2. Inserted(t)'
      BY <1>1, <2>1, <2>2, <3>1, Fields DEF Inserted, Writing
    <3> QED
      BY <2>2, <3>2 DEF ActiveInv
  <2>3. CASE active' = active /\ GotoWith(t, "reset", -1)
    BY <1>5, <2>1, <2>3
  <2> QED
    BY <1>8, <2>2, <2>3, RunInsertStepped
<1>9. ASSUME NEW t \in Threads, Reset(t)
      PROVE  ActiveInv'
  <2>1. /\ active' = active \ {thread[t].at} /\ ~Inserted(t)'
        /\ thread[t].pc = "reset" /\ holder[thread[t].at] = t
        /\ \A u \in Threads \ {t} : thread'[u] = thread[u]
    <3>1. thread[t].pc = "reset" /\ active' = active \ {thread[t].at} /\ Goto(t, "unlock")
      BY <1>9 DEF Reset
    <3>2. thread'[t].pc = "unlock" /\ \A u \in Threads \ {t} : thread'[u] = thread[u]
      BY <1>1, <3>1, Fields
    <3> QED
      BY <1>1, <3>1, <3>2 DEF Inserted, Writing, OwnsStatement
  <2>2. CASE thread[t].at = "run_insert"
    <3>1. \A u \in Threads \ {t} : ~Inserted(u)'
      BY <1>1, <2>1, <2>2 DEF Inserted, Writing, OwnsStatement
    <3>2. active' = {}
      BY <1>1, <2>1, <2>2
    <3> QED
      BY <2>1, <3>1, <3>2 DEF ActiveInv
  <2>3. CASE thread[t].at # "run_insert"
    <3>1. active' = active /\ ~Inserted(t)
      BY <1>1, <2>1, <2>3 DEF Inserted, Writing
    <3> QED
      BY <2>1, <3>1, ActiveKept
  <2> QED
    BY <2>2, <2>3
<1>10. CASE UNCHANGED vars
  BY <1>10 DEF vars, ActiveInv, Inserted, Writing
<1> QED
  BY <1>2, <1>3, <1>4, <1>6, <1>7, <1>8, <1>9, <1>10 DEF Next, ThreadStep

\* No step takes a run, or its end, out of what is durable.
LEMMA DurableStays ==
    ASSUME Inv, PendingInv, QuietInv, Later(disk, cur), [Next]_vars
    PROVE  Later(disk, disk') /\ Later(disk', cur')
<1>1. CASE UNCHANGED <<cur, disk>>
  BY <1>1, Same
<1>2. CASE ServerCrash
  BY <1>2, Same DEF ServerCrash
<1>3. CASE UpgradeStatement
  <2>1. cur' = disk' /\ disk'.runs = disk.runs /\ disk'.repos = disk.repos
    BY <1>3 DEF UpgradeStatement, Inv, TypeOK, Database
  <2>2. Later(disk, disk')
    BY <2>1 DEF Later
  <2> QED
    BY <2>1, <2>2, Same
<1>4. ASSUME NEW t \in Threads, NEW db, Later(cur, db), Done(t, db, 0)
      PROVE  Later(disk, disk') /\ Later(disk', cur')
  <2>1. Later(disk, db) /\ Later(disk, disk) /\ Later(db, db)
    BY <1>4, Same, LaterFacts
  <2>2. (cur' = db /\ disk' \in {db, disk}) \/ (cur' \in {cur, disk} /\ disk' = disk)
    BY <1>4 DEF Done
  <2> QED
    BY <2>1, <2>2
<1>5. ASSUME NEW t \in Threads, StepRepoInsert(t) \/ StepRunFinished(t)
      PROVE  Later(disk, disk') /\ Later(disk', cur')
  BY <1>4, <1>5, RepoInsertDone, RunFinishedDone
<1>6. ASSUME NEW t \in Threads, StepRunInsert(t)
      PROVE  Later(disk, disk') /\ Later(disk', cur')
  <2>1. disk' = disk
    BY <1>6 DEF StepRunInsert
  <2>2. Later(cur, cur') \/ cur' \in {cur, disk}
    BY <1>6, RunInsertStepped, Same
  <2> QED
    BY <2>1, <2>2, Same, LaterFacts
<1>7. ASSUME NEW t \in Threads, StepRepoFind(t)
      PROVE  Later(disk, disk') /\ Later(disk', cur')
  <2>1. disk' = disk /\ cur' \in {cur, disk}
    BY <1>7 DEF StepRepoFind
  <2> QED
    BY <2>1, Same
<1>8. ASSUME NEW t \in Threads, Reset(t)
      PROVE  Later(disk, disk') /\ Later(disk', cur')
  <2>1. (cur' = cur /\ disk' \in {disk, cur}) \/ (cur' = disk /\ disk' = disk)
    BY <1>8 DEF Reset
  <2> QED
    BY <2>1, Same
<1>9. ASSUME NEW t \in Threads, Call(t) \/ Lock(t) \/ Bind(t) \/ Unlock(t)
      PROVE  UNCHANGED <<cur, disk>>
  BY <1>9 DEF Call, Lock, Bind, Unlock
<1>10. ServerStart \/ UNCHANGED vars => UNCHANGED <<cur, disk>>
  BY DEF ServerStart, vars
<1> QED
  BY <1>1, <1>2, <1>3, <1>5, <1>6, <1>7, <1>8, <1>9, <1>10 DEF Next, ThreadStep

LEMMA DurableKept ==
    ASSUME DurableInv, failures = 0, Later(disk, disk'), NEW t \in Threads,
           \A u \in Threads \ {t} : thread'[u] = thread[u],
           thread'[t].at = "run_insert" /\ thread'[t].pc = "unlock" =>
                Asked(disk', thread'[t].args.url, thread'[t].args.rev, thread'[t].args.ret),
           \A r \in returned' : r \in returned \/ Asked(disk', r.url, r.rev, r.id)
    PROVE  DurableInv'
<1>1. \A url, rev, id : Asked(disk, url, rev, id) => Asked(disk', url, rev, id)
  BY LaterFacts
<1>2. \A r \in returned' : Asked(disk', r.url, r.rev, r.id)
  BY <1>1 DEF DurableInv
<1>3. ASSUME NEW u \in Threads, thread'[u].at = "run_insert", thread'[u].pc = "unlock"
      PROVE  Asked(disk', thread'[u].args.url, thread'[u].args.rev, thread'[u].args.ret)
  BY <1>1, <1>3 DEF DurableInv
<1> QED
  BY <1>2, <1>3 DEF DurableInv

LEMMA DurableStep == StoreInv /\ [Next]_vars => DurableInv'
<1> SUFFICES ASSUME StoreInv, [Next]_vars, failures' = 0 PROVE DurableInv'
  BY DEF DurableInv
<1>1. Inv /\ PendingInv /\ AskedInv /\ QuietInv /\ ActiveInv /\ DurableInv /\ Later(disk, cur)
  BY DEF StoreInv, AskedInv
<1>2. thread \in [Threads -> ThreadState] /\ active \in SUBSET {"run_insert"}
  BY <1>1 DEF Inv, TypeOK, ThreadState
<1>3. Later(disk, disk') /\ ~Fail /\ (Fine => failures = 0)
  BY <1>1, DurableStays, NoFailure
<1>4. \A url, rev, id : Asked(disk, url, rev, id) => Asked(disk', url, rev, id)
  BY <1>3, LaterFacts
<1>5. CASE ServerStart \/ UpgradeStatement
  <2>1. failures = 0 /\ UNCHANGED <<returned, thread>>
    BY <1>3, <1>5 DEF ServerStart, UpgradeStatement
  <2> QED
    BY <1>1, <1>4, <2>1 DEF DurableInv
<1>6. CASE ServerCrash
  <2>1. failures = 0 /\ returned' \subseteq returned /\ thread' = [u \in Threads |-> Idle]
    BY <1>6 DEF ServerCrash
  <2> QED
    BY <1>1, <1>4, <2>1 DEF DurableInv, Idle
<1>7. ASSUME NEW t \in Threads, Goto(t, "step") \/ Goto(t, "bind") \/ \E ret : GotoWith(t, "reset", ret),
             returned' = returned, failures = 0
      PROVE  DurableInv'
  <2>1. thread'[t].pc # "unlock" /\ \A u \in Threads \ {t} : thread'[u] = thread[u]
    <3>1. Goto(t, "step") \/ Goto(t, "bind") => thread'[t].pc \in {"step", "bind"} /\ \A u \in Threads \ {t} : thread'[u] = thread[u]
      BY <1>2, Fields
    <3>2. (\E ret : GotoWith(t, "reset", ret)) => thread'[t].pc = "reset" /\ \A u \in Threads \ {t} : thread'[u] = thread[u]
      BY <1>2, Fields
    <3> QED
      BY <1>7, <3>1, <3>2
  <2> QED
    BY <1>1, <1>3, <1>7, <2>1, DurableKept
<1>8. ASSUME NEW t \in Threads, Call(t)
      PROVE  DurableInv'
  <2>1. /\ failures = 0 /\ returned' = returned /\ thread'[t].pc = "lock"
        /\ \A u \in Threads \ {t} : thread'[u] = thread[u]
    BY <1>2, <1>8, CallLocks DEF Call
  <2> QED
    BY <1>1, <1>3, <2>1, DurableKept
<1>9. ASSUME NEW t \in Threads, Lock(t) \/ Bind(t)
      PROVE  DurableInv'
  BY <1>3, <1>7, <1>9 DEF Lock, Bind
<1>10. ASSUME NEW t \in Threads, StepRepoInsert(t) \/ StepRunFinished(t)
       PROVE  DurableInv'
  <2>1. returned' = returned /\ \E db : Done(t, db, 0)
    BY <1>10 DEF StepRepoInsert, StepRunFinished
  <2>2. failures = 0 /\ \E ret : GotoWith(t, "reset", ret)
    BY <1>3, <2>1 DEF Done
  <2> QED
    BY <1>7, <2>1, <2>2
<1>11. ASSUME NEW t \in Threads, StepRepoFind(t) \/ StepRunInsert(t)
       PROVE  DurableInv'
  <2>1. failures = 0 /\ returned' = returned /\ \E ret : GotoWith(t, "reset", ret)
    BY <1>3, <1>11 DEF StepRepoFind, StepRunInsert
  <2> QED
    BY <1>7, <2>1
<1>12. ASSUME NEW t \in Threads, Reset(t)
       PROVE  DurableInv'
  <2>1. failures = 0 /\ returned' = returned /\ thread[t].pc = "reset"
        /\ disk' = IF active = {thread[t].at} THEN cur ELSE disk
    BY <1>3, <1>12 DEF Reset
  <2>2. thread'[t].at = thread[t].at /\ thread'[t].args = thread[t].args
        /\ \A u \in Threads \ {t} : thread'[u] = thread[u]
    BY <1>2, <1>12, Fields DEF Reset
  <2>3. ASSUME thread[t].at = "run_insert"
        PROVE  Asked(disk', thread[t].args.url, thread[t].args.rev, thread[t].args.ret)
    <3>1. thread[t].args.ret >= 0 /\ Asked(cur, thread[t].args.url, thread[t].args.rev, thread[t].args.ret)
      BY <1>1, <2>1, <2>3 DEF AskedInv, Answered
    <3>2. active = {"run_insert"}
      BY <1>1, <1>2, <2>1, <2>3, <3>1 DEF ActiveInv, Inserted, Writing
    <3> QED
      BY <2>1, <2>3, <3>1, <3>2
  <2> QED
    BY <1>1, <1>3, <2>1, <2>2, <2>3, DurableKept
<1>13. ASSUME NEW t \in Threads, Unlock(t)
       PROVE  DurableInv'
  <2>1. failures = 0 /\ thread[t].pc = "unlock" /\ disk' = disk
    BY <1>13 DEF Unlock
  <2>2. thread'[t].pc # "unlock" /\ \A u \in Threads \ {t} : thread'[u] = thread[u]
    BY <1>2, <1>13 DEF Unlock, Idle, ThreadState
  <2>3. \A r \in returned' : r \in returned \/ Asked(disk', r.url, r.rev, r.id)
    BY <1>1, <1>13, <2>1 DEF Unlock, DurableInv
  <2> QED
    BY <1>1, <1>3, <2>1, <2>2, <2>3, DurableKept
<1>14. CASE UNCHANGED vars
  BY <1>1, <1>14 DEF vars, DurableInv
<1> QED
  BY <1>5, <1>6, <1>8, <1>9, <1>10, <1>11, <1>12, <1>13, <1>14 DEF Next, ThreadStep

LEMMA IdStep == Inv /\ IdInv /\ [Next]_vars => IdInv'
<1> SUFFICES ASSUME Inv, IdInv, [Next]_vars PROVE IdInv'
  OBVIOUS
<1>1. thread \in [Threads -> ThreadState]
  BY DEF Inv, TypeOK, ThreadState
<1>2. ASSUME NEW t \in Threads, \A u \in Threads \ {t} : thread'[u] = thread[u],
             UNCHANGED <<returned, reported>>,
             thread'[t].at = "run_insert" /\ thread'[t].pc \in {"reset", "unlock"} => thread'[t].args.ret # 0,
             thread'[t].at = "run_finished" /\ thread'[t].pc # "idle" => thread'[t].args.id # 0
      PROVE  IdInv'
  BY <1>2 DEF IdInv
<1>3. CASE ServerStart \/ UpgradeStatement \/ UNCHANGED vars
  BY <1>3 DEF ServerStart, UpgradeStatement, vars, IdInv
<1>4. CASE ServerCrash
  BY <1>4 DEF ServerCrash, Idle, IdInv
<1>5. ASSUME NEW t \in Threads, Call(t)
      PROVE  IdInv'
  <2>1. /\ UNCHANGED <<returned, reported>> /\ thread'[t].pc = "lock"
        /\ \A u \in Threads \ {t} : thread'[u] = thread[u]
    BY <1>1, <1>5, CallLocks DEF Call
  <2>2. thread'[t].at = "run_finished" => thread'[t].args.id # 0
    <3>1. CASE \E u \in Urls, r \in Revs :
                thread' = [thread EXCEPT ![t] = [pc |-> "lock", at |-> "repo_insert",
                            args |-> [url |-> u, rev |-> r, ret |-> 0, id |-> 0, ec |-> None]]]
      BY <1>1, <3>1
    <3>2. ASSUME NEW run \in returned, NEW ec \in ExitCodes,
                 thread' = [thread EXCEPT ![t] = [pc |-> "lock", at |-> "run_finished",
                            args |-> [url |-> None, rev |-> None, ret |-> 0, id |-> run.id, ec |-> ec]]]
          PROVE  thread'[t].args.id # 0
      BY <1>1, <3>2 DEF IdInv
    <3> QED
      BY <1>5, <3>1, <3>2 DEF Call
  <2> QED
    BY <1>2, <2>1, <2>2
<1>6. ASSUME NEW t \in Threads, NEW pc, Goto(t, pc), thread[t].pc # "idle",
             pc \in {"reset", "unlock"} => thread[t].pc = "reset", UNCHANGED <<returned, reported>>
      PROVE  IdInv'
  <2>1. /\ thread'[t].pc = pc /\ thread'[t].at = thread[t].at /\ thread'[t].args = thread[t].args
        /\ \A u \in Threads \ {t} : thread'[u] = thread[u]
    BY <1>1, <1>6, Fields
  <2> QED
    BY <1>2, <1>6, <2>1 DEF IdInv
<1>7. ASSUME NEW t \in Threads, NEW ret, GotoWith(t, "reset", ret), thread[t].pc # "idle",
             thread[t].at = "run_insert" => ret # 0, UNCHANGED <<returned, reported>>
      PROVE  IdInv'
  <2>1. /\ thread'[t].at = thread[t].at /\ thread'[t].args.ret = ret
        /\ thread'[t].args.id = thread[t].args.id
        /\ \A u \in Threads \ {t} : thread'[u] = thread[u]
    BY <1>1, <1>7, Fields
  <2> QED
    BY <1>2, <1>7, <2>1 DEF IdInv
<1>8. ASSUME NEW t \in Threads, Lock(t) \/ Bind(t) \/ Reset(t)
      PROVE  IdInv'
  BY <1>6, <1>7, <1>8 DEF Lock, Bind, Reset
<1>9. ASSUME NEW t \in Threads, StepRepoInsert(t) \/ StepRunFinished(t)
      PROVE  IdInv'
  <2>1. /\ thread[t].pc = "step" /\ thread[t].at # "run_insert" /\ UNCHANGED <<returned, reported>>
        /\ \E db : Done(t, db, 0)
    BY <1>9 DEF StepRepoInsert, StepRunFinished, Stepping
  <2>2. \E ret : GotoWith(t, "reset", ret)
    BY <2>1 DEF Done
  <2> QED
    BY <1>7, <2>1, <2>2
<1>10. ASSUME NEW t \in Threads, StepRepoFind(t)
       PROVE  IdInv'
  <2>1. /\ thread[t].pc = "step" /\ thread[t].at # "run_insert" /\ UNCHANGED <<returned, reported>>
        /\ \E ret : GotoWith(t, "reset", ret)
    BY <1>10 DEF StepRepoFind, Stepping
  <2> QED
    BY <1>7, <2>1
<1>11. ASSUME NEW t \in Threads, StepRunInsert(t)
       PROVE  IdInv'
  <2>1. thread[t].pc = "step" /\ UNCHANGED <<returned, reported>>
    BY <1>11 DEF StepRunInsert, Stepping
  <2>2. GotoWith(t, "reset", Len(cur.runs) + 1) \/ GotoWith(t, "reset", -1)
    BY <1>11, RunInsertStepped
  <2>3. Len(cur.runs) + 1 # 0 /\ -1 # 0
    BY DEF Inv, TypeOK, Database
  <2> QED
    BY <1>7, <2>1, <2>2, <2>3
<1>12. ASSUME NEW t \in Threads, Unlock(t)
       PROVE  IdInv'
  <2>1. thread[t].pc = "unlock" /\ \A u \in Threads \ {t} : thread'[u] = thread[u]
    BY <1>1, <1>12 DEF Unlock
  <2>2. thread'[t] = Idle \/ (thread'[t].pc = "lock" /\ thread'[t].at \in {"repo_find", "run_insert"})
    BY <1>1, <1>12 DEF Unlock, Following, ThreadState
  <2>3. (\A r \in returned' : r.id # 0) /\ (\A r \in reported' : r.id # 0)
    BY <1>12, <2>1 DEF Unlock, IdInv
  <2> QED
    BY <2>1, <2>2, <2>3 DEF IdInv, Idle
<1> QED
  BY <1>3, <1>4, <1>5, <1>8, <1>9, <1>10, <1>11, <1>12 DEF Next, ThreadStep

LEMMA StoreInvStep == StoreInv /\ [Next]_vars => StoreInv'
<1> SUFFICES ASSUME StoreInv, [Next]_vars PROVE StoreInv'
  OBVIOUS
<1>1. Inv /\ PendingInv /\ AskedInv /\ QuietInv /\ ActiveInv /\ Later(disk, cur) /\ IdInv
  BY DEF StoreInv, AskedInv
<1> QED
  BY <1>1, InvStep, PendingStep, AskedStep, ActiveStep, DurableStays, DurableStep, IdStep DEF StoreInv

LEMMA StoreInvInit == Init => StoreInv
<1> SUFFICES ASSUME Init PROVE StoreInv
  OBVIOUS
<1>1. PendingInv /\ Later(disk, cur)
  BY Same DEF Init, PendingInv
<1>2. AskedInv
  BY <1>1 DEF Init, AskedInv, QuietInv, Answered, Idle, NoArguments
<1>3. ActiveInv /\ DurableInv /\ IdInv
  BY DEF Init, ActiveInv, DurableInv, IdInv, Inserted, Writing, Idle
<1> QED
  BY <1>1, <1>2, <1>3, InvInit DEF StoreInv

THEOREM StoreInvariance == Spec => []StoreInv
  BY StoreInvInit, StoreInvStep, PTL DEF Spec

\* sqlite_reset, sqlite3_step: what is durable stays, whatever fails and
\* wherever the process ends: no repository or run disappears from the file,
\* is given to another, or is unfinished again.
THEOREM DurableIsFinal == Spec => [][Later(disk, disk')]_vars
<1>1. StoreInv /\ [Next]_vars => [Later(disk, disk')]_vars
  BY DurableStays DEF StoreInv, AskedInv
<1> QED
  BY <1>1, StoreInvariance, PTL DEF Spec

\* storage_sqlite_run_create: unless a call failed, a run is durable before
\* its caller knows it, so that no end of the process takes it back.
THEOREM ReturnedIsDurable == Spec => []DurableInv
<1>1. StoreInv => DurableInv
  BY DEF StoreInv
<1> QED
  BY <1>1, StoreInvariance, PTL

-----------------------------------------------------------------------------
(* The calls of the threads *)

AskedCall(th) ==
    IF th.at = "run_finished" THEN [what |-> "finish", phase |-> "asked", id |-> th.args.id, ec |-> th.args.ec]
    ELSE [what |-> "create", phase |-> "asked", url |-> th.args.url, rev |-> th.args.rev, id |-> 0]

\* The call of an insertion that has its row.
Placed(th, phase) ==
    [what |-> "create", phase |-> phase, url |-> th.args.url, rev |-> th.args.rev, id |-> th.args.ret]

LEMMA CallFacts ==
    ASSUME NEW th \in ThreadState
    PROVE  /\ th.pc = "idle" => CallOf(th) = Store!NoCall
           /\ th.pc \in {"lock", "bind", "step"} => CallOf(th) = AskedCall(th)
           /\ th.pc \in {"reset", "unlock"} /\ th.args.ret < 0 =>
                CallOf(th) = [AskedCall(th) EXCEPT !.phase = "refused"]
           /\ th.pc \in {"reset", "unlock"} /\ th.args.ret >= 0 =>
                /\ th.at \in {"repo_insert", "repo_find"} => CallOf(th) = AskedCall(th)
                /\ th.at = "run_finished" => CallOf(th) = [AskedCall(th) EXCEPT !.phase = "done"]
                /\ th.at = "run_insert" => CallOf(th) = Placed(th, IF th.pc = "reset" THEN "inserted" ELSE "done")
<1>1. th.pc \in {"idle", "lock", "bind", "step", "reset", "unlock"} /\ th.at \in Prepared /\ th.args.ret \in Int
  BY DEF ThreadState, Arguments
<1>2. th.pc = "idle" => PhaseOf(th) = "none"
  BY DEF PhaseOf
<1>3. th.pc \in {"lock", "bind", "step"} => PhaseOf(th) = "asked"
  BY DEF PhaseOf
<1>4. th.pc \in {"reset", "unlock"} /\ th.args.ret < 0 => PhaseOf(th) = "refused"
  <2>1. th.args.ret < 0 => ~(th.args.ret >= 0)
    BY <1>1
  <2> QED
    BY <2>1 DEF PhaseOf
<1>5. th.pc \in {"reset", "unlock"} /\ th.args.ret >= 0 =>
        /\ th.at \in {"repo_insert", "repo_find"} => PhaseOf(th) = "asked"
        /\ th.at = "run_finished" => PhaseOf(th) = "done"
        /\ th.at = "run_insert" /\ th.pc = "reset" => PhaseOf(th) = "inserted"
        /\ th.at = "run_insert" /\ th.pc = "unlock" => PhaseOf(th) = "done"
  <2> SUFFICES ASSUME th.pc \in {"reset", "unlock"}, th.args.ret >= 0
               PROVE  /\ th.at \in {"repo_insert", "repo_find"} => PhaseOf(th) = "asked"
                      /\ th.at = "run_finished" => PhaseOf(th) = "done"
                      /\ th.at = "run_insert" /\ th.pc = "reset" => PhaseOf(th) = "inserted"
                      /\ th.at = "run_insert" /\ th.pc = "unlock" => PhaseOf(th) = "done"
    OBVIOUS
  <2>1. ~(th.args.ret < 0)
    BY <1>1
  <2> QED
    BY <2>1 DEF PhaseOf
<1>6. CallOf(th) =
        IF PhaseOf(th) = "none" THEN [what |-> "nothing", phase |-> "none"]
        ELSE IF th.at = "run_finished" THEN [what |-> "finish", phase |-> PhaseOf(th), id |-> th.args.id, ec |-> th.args.ec]
        ELSE [what |-> "create", phase |-> PhaseOf(th), url |-> th.args.url, rev |-> th.args.rev,
              id |-> IF PhaseOf(th) \in {"inserted", "done"} THEN th.args.ret ELSE 0]
  BY DEF CallOf
<1>7. th.pc = "idle" => CallOf(th) = Store!NoCall
  BY <1>2, <1>6 DEF Store!NoCall
<1>8. PhaseOf(th) = "asked" => CallOf(th) = AskedCall(th)
  BY <1>6 DEF AskedCall
<1>9. PhaseOf(th) = "refused" => CallOf(th) = [AskedCall(th) EXCEPT !.phase = "refused"]
  BY <1>6 DEF AskedCall
<1>10. PhaseOf(th) = "done" /\ th.at = "run_finished" => CallOf(th) = [AskedCall(th) EXCEPT !.phase = "done"]
  BY <1>6 DEF AskedCall
<1>11. \A phase \in {"inserted", "done"} : PhaseOf(th) = phase /\ th.at = "run_insert" => CallOf(th) = Placed(th, phase)
  BY <1>6 DEF Placed
<1> QED
  BY <1>1, <1>2, <1>3, <1>4, <1>5, <1>7, <1>8, <1>9, <1>10, <1>11

\* Before its statement is stepped, nothing happens to a call.
LEMMA Waiting ==
    ASSUME NEW th \in ThreadState, NEW new \in ThreadState, new.at = th.at, new.args = th.args,
           th.pc \in {"lock", "bind", "step"}, new.pc \in {"lock", "bind", "step"}
    PROVE  CallOf(new) = CallOf(th)
<1>1. CallOf(th) = AskedCall(th)
  BY CallFacts
<1>2. CallOf(new) = AskedCall(new)
  BY CallFacts
<1> QED
  BY <1>1, <1>2 DEF AskedCall

\* One thread's step changes the call of that thread.
LEMMA OneCall ==
    ASSUME thread \in [Threads -> ThreadState], thread' \in [Threads -> ThreadState], NEW t \in Threads,
           \A u \in Threads \ {t} : thread'[u] = thread[u]
    PROVE  /\ callsBar' = [callsBar EXCEPT ![t] = CallOf(thread'[t])]
           /\ callsBar[t] = CallOf(thread[t])
           /\ CallOf(thread'[t]) = CallOf(thread[t]) => callsBar' = callsBar
  BY DEF callsBar

LEMMA InsertingIs ==
    ASSUME Inv
    PROVE  Store!Inserting <=> \E t \in Threads : Inserted(t)
<1>1. ASSUME NEW t \in Threads
      PROVE  callsBar[t].phase = "inserted" <=> Inserted(t)
  <2>1. callsBar[t] = CallOf(thread[t]) /\ CallOf(thread[t]).phase = PhaseOf(thread[t])
    BY DEF callsBar, CallOf
  <2>2. PhaseOf(thread[t]) = "inserted" <=> Inserted(t)
    <3>1. thread[t] \in ThreadState
      BY DEF Inv, TypeOK, ThreadState
    <3> QED
      BY <3>1 DEF PhaseOf, Inserted, Writing, ThreadState, Arguments
  <2> QED
    BY <2>1, <2>2
<1> QED
  BY <1>1 DEF Store!Inserting

-----------------------------------------------------------------------------
(* Each step is a step of RunStore, or none *)

Invisible == UNCHANGED <<rowsBar, keptBar, callsBar, returned, reported, failedBar>>

LEMMA InvisibleStutters == Invisible => UNCHANGED Store!vars
  BY DEF Invisible, Store!vars

\* What all steps of threads have in common.
LEMMA Common ==
    ASSUME StoreInv, [Next]_vars
    PROVE  /\ thread \in [Threads -> ThreadState] /\ thread' \in [Threads -> ThreadState]
           /\ Inv /\ Inv'
           /\ Fine => failedBar' = failedBar
           /\ Fail => failedBar' = TRUE
           /\ failures # 0 => failedBar = TRUE
<1>1. Inv /\ Inv'
  BY InvStep DEF StoreInv
<1>2. failures \in Nat
  BY <1>1, NumbersAssumption DEF Inv, TypeOK
<1> QED
  BY <1>1, <1>2 DEF Inv, TypeOK, ThreadState, Fine, Fail, failedBar

LEMMA RefuseStep ==
    ASSUME StoreInv, [Next]_vars, NEW t \in Threads, thread[t].pc \in {"bind", "step"},
           GotoWith(t, "reset", -1), cur' \in {cur, disk}, UNCHANGED <<disk, returned, reported>>,
           Fail \/ (Fine /\ failures # 0)
    PROVE  Store!Refuse(t)
<1>1. thread \in [Threads -> ThreadState] /\ thread' \in [Threads -> ThreadState] /\ failedBar' = TRUE
  BY Common
<1>2. /\ thread'[t].pc = "reset" /\ thread'[t].at = thread[t].at /\ thread'[t].args.ret = -1
      /\ thread'[t].args.url = thread[t].args.url
      /\ thread'[t].args.rev = thread[t].args.rev
      /\ thread'[t].args.id = thread[t].args.id
      /\ thread'[t].args.ec = thread[t].args.ec
      /\ \A u \in Threads \ {t} : thread'[u] = thread[u]
  BY <1>1, Fields
<1>3. CallOf(thread[t]) = AskedCall(thread[t]) /\ AskedCall(thread'[t]) = AskedCall(thread[t])
  BY <1>1, <1>2, CallFacts DEF AskedCall
<1>4. CallOf(thread'[t]) = [AskedCall(thread'[t]) EXCEPT !.phase = "refused"]
  <2>1. thread'[t] \in ThreadState /\ thread'[t].pc \in {"reset", "unlock"} /\ thread'[t].args.ret < 0
    BY <1>1, <1>2
  <2> QED
    BY <2>1, CallFacts
<1>5. callsBar[t] = AskedCall(thread[t]) /\ callsBar' = [callsBar EXCEPT ![t].phase = "refused"]
  BY <1>1, <1>2, <1>3, <1>4, OneCall
<1>6. callsBar[t].phase = "asked"
  BY <1>5 DEF AskedCall
<1>7. rowsBar' \in {rowsBar, keptBar} /\ keptBar' = keptBar
  BY DEF rowsBar, keptBar
<1> QED
  BY <1>1, <1>5, <1>6, <1>7 DEF Store!Refuse

\* A step that leaves the call where it is.
LEMMA HiddenStep ==
    ASSUME StoreInv, [Next]_vars, NEW t \in Threads,
           \A u \in Threads \ {t} : thread'[u] = thread[u], CallOf(thread'[t]) = CallOf(thread[t]),
           UNCHANGED <<rowsBar, keptBar, returned, reported>>, Fine
    PROVE  Invisible
<1>1. callsBar' = callsBar /\ failedBar' = failedBar
  BY Common, OneCall
<1> QED
  BY <1>1 DEF Invisible

\* A repository is found or there already: the call goes on.
LEMMA RepoStep ==
    ASSUME StoreInv, [Next]_vars, NEW t \in Threads, thread[t].pc = "step",
           thread[t].at \in {"repo_insert", "repo_find"}, NEW ret \in Nat, GotoWith(t, "reset", ret),
           UNCHANGED <<rowsBar, keptBar, returned, reported>>, Fine
    PROVE  Invisible
<1>1. thread \in [Threads -> ThreadState] /\ thread' \in [Threads -> ThreadState]
  BY Common
<1>2. /\ thread'[t].pc = "reset" /\ thread'[t].at = thread[t].at /\ thread'[t].args.ret = ret
      /\ thread'[t].args.url = thread[t].args.url
      /\ thread'[t].args.rev = thread[t].args.rev
      /\ \A u \in Threads \ {t} : thread'[u] = thread[u]
  BY <1>1, Fields
<1>3. CallOf(thread[t]) = AskedCall(thread[t]) /\ CallOf(thread'[t]) = AskedCall(thread'[t])
  <2>1. thread[t] \in ThreadState /\ thread'[t] \in ThreadState
    BY <1>1
  <2>2. thread'[t].args.ret >= 0
    BY <1>2
  <2>3. CallOf(thread[t]) = AskedCall(thread[t])
    BY <2>1, CallFacts
  <2> QED
    BY <1>2, <2>1, <2>2, <2>3, CallFacts
<1>4. AskedCall(thread'[t]) = AskedCall(thread[t])
  BY <1>2 DEF AskedCall
<1> QED
  BY <1>2, <1>3, <1>4, HiddenStep

LEMMA CallAsks ==
    ASSUME StoreInv, [Next]_vars, NEW t \in Threads, Call(t)
    PROVE  Store!Ask(t)
<1>1. thread \in [Threads -> ThreadState] /\ thread' \in [Threads -> ThreadState] /\ thread[t].pc = "idle"
  BY Common DEF Call
<1>2. \A u \in Threads \ {t} : thread'[u] = thread[u]
  BY <1>1 DEF Call
<1>3. callsBar' = [callsBar EXCEPT ![t] = CallOf(thread'[t])] /\ callsBar[t] = Store!NoCall
  BY <1>1, <1>2, OneCall, CallFacts
<1>4. UNCHANGED <<rowsBar, keptBar, returned, reported, failedBar>>
  BY DEF Call, rowsBar, keptBar, failedBar
<1>5. ASSUME NEW u \in Urls, NEW r \in Revs,
             thread' = [thread EXCEPT ![t] = [pc |-> "lock", at |-> "repo_insert",
                            args |-> [url |-> u, rev |-> r, ret |-> 0, id |-> 0, ec |-> None]]]
      PROVE  Store!Ask(t)
  <2>1. thread'[t] = [pc |-> "lock", at |-> "repo_insert", args |-> [url |-> u, rev |-> r, ret |-> 0, id |-> 0, ec |-> None]]
    BY <1>1, <1>5
  <2>2. CallOf(thread'[t]) = AskedCall(thread'[t])
    <3>1. thread'[t] \in ThreadState /\ thread'[t].pc = "lock"
      BY <1>1, <2>1
    <3> QED
      BY <3>1, CallFacts
  <2>3. AskedCall(thread'[t]) = Store!Creation(u, r)
    BY <2>1 DEF AskedCall, Store!Creation
  <2> QED
    BY <1>3, <1>4, <2>2, <2>3 DEF Store!Ask
<1>6. ASSUME NEW run \in returned, NEW ec \in ExitCodes,
             thread' = [thread EXCEPT ![t] = [pc |-> "lock", at |-> "run_finished",
                            args |-> [url |-> None, rev |-> None, ret |-> 0, id |-> run.id, ec |-> ec]]]
      PROVE  Store!Ask(t)
  <2>1. /\ thread'[t].pc = "lock" /\ thread'[t].at = "run_finished"
        /\ thread'[t].args.id = run.id /\ thread'[t].args.ec = ec
    BY <1>1, <1>6
  <2>2. CallOf(thread'[t]) = AskedCall(thread'[t])
    BY <1>1, <2>1, CallFacts
  <2>3. AskedCall(thread'[t]) = Store!Completion(run.id, ec)
    BY <2>1 DEF AskedCall, Store!Completion
  <2> QED
    BY <1>3, <1>4, <2>2, <2>3 DEF Store!Ask
<1> QED
  BY <1>5, <1>6 DEF Call

LEMMA LockHidden ==
    ASSUME StoreInv, [Next]_vars, NEW t \in Threads, Lock(t)
    PROVE  Invisible
<1>1. thread \in [Threads -> ThreadState] /\ thread' \in [Threads -> ThreadState] /\ thread[t].pc = "lock"
  BY Common DEF Lock
<1>2. /\ thread'[t].pc = "bind" /\ thread'[t].at = thread[t].at /\ thread'[t].args = thread[t].args
      /\ \A u \in Threads \ {t} : thread'[u] = thread[u]
  BY <1>1, Fields DEF Lock
<1>3. CallOf(thread'[t]) = CallOf(thread[t])
  BY <1>1, <1>2, Waiting
<1>4. UNCHANGED <<rowsBar, keptBar, returned, reported>> /\ Fine
  BY DEF Lock, rowsBar, keptBar, Fine
<1> QED
  BY <1>2, <1>3, <1>4, HiddenStep

\* The thread that holds the mutex of a statement finds it at rest.
LEMMA BindStep ==
    ASSUME StoreInv, [Next]_vars, NEW t \in Threads, Bind(t)
    PROVE  Invisible \/ Store!Refuse(t)
<1>1. thread \in [Threads -> ThreadState] /\ thread' \in [Threads -> ThreadState] /\ thread[t].pc = "bind"
  BY Common DEF Bind
<1>2. UNCHANGED <<cur, disk, returned, reported>>
  BY DEF Bind
<1>3. thread[t].at \notin active
  <2> SUFFICES ASSUME thread[t].at \in active PROVE FALSE
    OBVIOUS
  <2>1. thread[t].at = "run_insert" /\ OwnsStatement(t)
    BY DEF StoreInv, Inv, TypeOK
  <2>2. PICK u \in Threads : Inserted(u)
    BY DEF StoreInv, ActiveInv
  <2>3. OwnsStatement(u)
    BY DEF StoreInv, Inv
  <2> QED
    BY <1>1, <2>1, <2>2, <2>3 DEF OwnsStatement, Inserted, Writing
<1>4. CASE Goto(t, "step") /\ Fine
  <2>1. /\ thread'[t].pc = "step" /\ thread'[t].at = thread[t].at /\ thread'[t].args = thread[t].args
        /\ \A u \in Threads \ {t} : thread'[u] = thread[u]
    BY <1>1, <1>4, Fields
  <2>2. CallOf(thread'[t]) = CallOf(thread[t])
    BY <1>1, <2>1, Waiting
  <2> QED
    BY <1>2, <1>4, <2>1, <2>2, HiddenStep DEF rowsBar, keptBar
<1>5. CASE GotoWith(t, "reset", -1) /\ Fail
  BY <1>1, <1>2, <1>5, RefuseStep
<1> QED
  BY <1>3, <1>4, <1>5 DEF Bind

LEMMA RepoInsertHidden ==
    ASSUME StoreInv, [Next]_vars, NEW t \in Threads, StepRepoInsert(t)
    PROVE  Invisible \/ Store!Refuse(t)
<1>1. thread[t].pc = "step" /\ thread[t].at = "repo_insert" /\ UNCHANGED <<returned, reported>>
  BY DEF StepRepoInsert, Stepping
<1>2. PICK db \in Database : RowsOf(db) = RowsOf(cur) /\ Done(t, db, 0)
  BY RepoInsertDone DEF StoreInv
<1>3. CASE GotoWith(t, "reset", -1) /\ Fail /\ cur' \in {cur, disk} /\ disk' = disk
  BY <1>1, <1>3, RefuseStep
<1>4. CASE GotoWith(t, "reset", 0) /\ Fine /\ cur' = db /\ disk' = IF active = {} THEN db ELSE disk
  <2>1. rowsBar' = rowsBar
    BY <1>2, <1>4 DEF rowsBar
  <2>2. keptBar' = keptBar
    BY <1>2, <1>4 DEF keptBar, StoreInv, PendingInv
  <2> QED
    BY <1>1, <1>4, <2>1, <2>2, RepoStep
<1> QED
  BY <1>2, <1>3, <1>4 DEF Done

LEMMA RepoFindHidden ==
    ASSUME StoreInv, [Next]_vars, NEW t \in Threads, StepRepoFind(t)
    PROVE  Invisible \/ Store!Refuse(t)
<1>1. thread[t].pc = "step" /\ thread[t].at = "repo_find" /\ UNCHANGED <<disk, returned, reported>>
  BY DEF StepRepoFind, Stepping
<1>2. CASE GotoWith(t, "reset", -1) /\ Fail /\ cur' \in {cur, disk}
  BY <1>1, <1>2, RefuseStep
<1>3. ASSUME NEW id \in {0} \union IdsOf(bound["repo_find"].url), GotoWith(t, "reset", id), Fine, UNCHANGED cur
      PROVE  Invisible
  <2>1. id \in Nat
    BY DEF IdsOf, StoreInv, Inv, TypeOK, Database
  <2> QED
    BY <1>1, <1>3, <2>1, RepoStep DEF rowsBar, keptBar
<1> QED
  BY <1>2, <1>3 DEF StepRepoFind

\* The row has the repository asked for, unless a failure took that away and
\* its id was given to another.
LEMMA RunInsertInserts ==
    ASSUME StoreInv, [Next]_vars, NEW t \in Threads, StepRunInsert(t)
    PROVE  Store!Insert(t) \/ Store!Refuse(t)
<1> DEFINE args == thread[t].args
           row == [url |-> cur.repos[args.ret], rev |-> args.rev, ec |-> None]
<1>1. /\ thread \in [Threads -> ThreadState] /\ thread' \in [Threads -> ThreadState]
      /\ cur \in Database /\ Referential(cur) /\ OwnsStatement(t)
  BY Common DEF StoreInv, Inv, TypeOK
<1>2. thread[t].pc = "step" /\ thread[t].at = "run_insert" /\ UNCHANGED <<disk, returned, reported>>
  BY DEF StepRunInsert, Stepping
<1>3. failures = 0 => Repo(cur, args.url, args.ret)
  BY <1>2 DEF StoreInv, AskedInv, Answered
<1>4. CASE GotoWith(t, "reset", -1) /\ Fail /\ cur' \in {cur, disk}
  BY <1>2, <1>4, RefuseStep
<1>5. CASE GotoWith(t, "reset", -1) /\ Fine /\ UNCHANGED cur /\ ~HasRepo(args.ret)
  <2>1. failures # 0
    BY <1>3, <1>5 DEF HasRepo, Repo
  <2> QED
    BY <1>2, <1>5, <2>1, RefuseStep
<1>6. CASE /\ HasRepo(args.ret) /\ rowsBar' = Append(rowsBar, row)
           /\ GotoWith(t, "reset", Len(cur.runs) + 1) /\ Fine
  <2>1. /\ thread'[t].pc = "reset" /\ thread'[t].at = "run_insert"
        /\ thread'[t].args.ret = Len(cur.runs) + 1
        /\ thread'[t].args.url = args.url
        /\ thread'[t].args.rev = args.rev
        /\ \A u \in Threads \ {t} : thread'[u] = thread[u]
    BY <1>1, <1>2, <1>6, Fields
  <2>2. callsBar[t] = [what |-> "create", phase |-> "asked", url |-> args.url, rev |-> args.rev, id |-> 0]
    <3>1. thread[t] \in ThreadState
      BY <1>1
    <3>2. CallOf(thread[t]) = AskedCall(thread[t])
      BY <1>2, <3>1, CallFacts
    <3> QED
      BY <1>2, <3>2 DEF callsBar, AskedCall
  <2>3. callsBar' = [callsBar EXCEPT ![t].phase = "inserted", ![t].id = Len(rowsBar) + 1]
    <3>1. Len(rowsBar) = Len(cur.runs) /\ Len(cur.runs) \in Nat
      BY <1>1, RowsTyped DEF rowsBar, Database
    <3>2. thread'[t] \in ThreadState /\ thread'[t].args.ret >= 0
      BY <1>1, <2>1, <3>1
    <3>3. CallOf(thread'[t]) = Placed(thread'[t], "inserted")
      BY <2>1, <3>2, CallFacts
    <3> DEFINE placed == Placed(thread'[t], "inserted")
               Creations == [what : {"create"}, phase : {"asked", "inserted"}, url : {args.url},
                             rev : {args.rev}, id : Nat]
    <3>4. callsBar[t] \in Creations /\ placed \in Creations
      BY <2>1, <2>2, <3>1 DEF Placed
    <3>5. /\ placed.phase = "inserted" /\ placed.id = Len(rowsBar) + 1
          /\ placed.what = callsBar[t].what
          /\ placed.url = callsBar[t].url
          /\ placed.rev = callsBar[t].rev
      BY <2>1, <2>2, <3>1 DEF Placed
    <3>6. placed = [callsBar[t] EXCEPT !.phase = "inserted", !.id = Len(rowsBar) + 1]
      <4> HIDE DEF placed
      <4> QED
        BY <3>4, <3>5
    <3>7. callsBar' = [callsBar EXCEPT ![t] = placed]
      BY <1>1, <2>1, <3>3, OneCall
    <3> HIDE DEF placed
    <3> QED
      BY <3>6, <3>7
  <2>4. ~Store!Inserting
    <3>1. ASSUME NEW u \in Threads, Inserted(u)
          PROVE  FALSE
      <4>1. OwnsStatement(u)
        BY DEF StoreInv, Inv
      <4> QED
        BY <1>1, <1>2, <3>1, <4>1 DEF Inserted, Writing, OwnsStatement
    <3> QED
      BY <3>1, InsertingIs DEF StoreInv
  <2>5. row.url \in Urls /\ (row.url = callsBar[t].url \/ failedBar)
    <3>1. cur.repos[args.ret] \in Urls
      BY <1>1, <1>6 DEF HasRepo, Database
    <3>2. failures = 0 => cur.repos[args.ret] = args.url
      BY <1>3 DEF Repo
    <3>3. failures = 0 \/ failedBar
      BY Common
    <3>4. row.url = cur.repos[args.ret] /\ callsBar[t].url = args.url
      BY <2>2
    <3> QED
      BY <3>1, <3>2, <3>3, <3>4
  <2>6. /\ Store!Stands(t, "create", "asked") /\ callsBar[t].rev = args.rev
    BY <2>2 DEF Store!Stands
  <2>7. \E url \in Urls :
            /\ url = callsBar[t].url \/ failedBar
            /\ rowsBar' = Append(rowsBar, [url |-> url, rev |-> callsBar[t].rev, ec |-> None])
    BY <1>6, <2>5, <2>6
  <2>8. UNCHANGED <<keptBar, returned, reported, failedBar>>
    BY <1>2, <1>6, Common DEF keptBar
  <2> QED
    BY <2>3, <2>4, <2>6, <2>7, <2>8 DEF Store!Insert
<1> QED
  BY <1>4, <1>5, <1>6, RunInsertStepped DEF StoreInv

LEMMA RunFinishedFinishes ==
    ASSUME StoreInv, [Next]_vars, NEW t \in Threads, StepRunFinished(t)
    PROVE  Store!Finish(t) \/ Store!Refuse(t)
<1> DEFINE id == thread[t].args.id
           ec == thread[t].args.ec
<1>1. /\ thread \in [Threads -> ThreadState] /\ thread' \in [Threads -> ThreadState]
      /\ active \in SUBSET {"run_insert"}
  BY Common DEF StoreInv, Inv, TypeOK
<1>2. thread[t].pc = "step" /\ thread[t].at = "run_finished" /\ UNCHANGED <<returned, reported>>
  BY DEF StepRunFinished, Stepping
<1>3. PICK db \in Database :
        /\ RowsOf(db) = IF id \in DOMAIN rowsBar THEN [rowsBar EXCEPT ![id].ec = ec] ELSE rowsBar
        /\ Done(t, db, 0)
  BY RunFinishedDone DEF StoreInv
<1>4. CASE GotoWith(t, "reset", -1) /\ Fail /\ cur' \in {cur, disk} /\ disk' = disk
  BY <1>2, <1>4, RefuseStep
<1>5. CASE GotoWith(t, "reset", 0) /\ Fine /\ cur' = db /\ disk' = IF active = {} THEN db ELSE disk
  <2>1. /\ thread'[t].pc = "reset" /\ thread'[t].at = "run_finished" /\ thread'[t].args.ret = 0
        /\ thread'[t].args.id = id
        /\ thread'[t].args.ec = ec
        /\ \A u \in Threads \ {t} : thread'[u] = thread[u]
    BY <1>1, <1>2, <1>5, Fields
  <2>2. thread[t] \in ThreadState /\ thread'[t] \in ThreadState
    BY <1>1
  <2>3. callsBar[t] = [what |-> "finish", phase |-> "asked", id |-> id, ec |-> ec]
    <3>1. CallOf(thread[t]) = AskedCall(thread[t])
      BY <1>2, <2>2, CallFacts
    <3> QED
      BY <1>2, <3>1 DEF callsBar, AskedCall
  <2>4. callsBar' = [callsBar EXCEPT ![t].phase = "done"]
    <3>1. CallOf(thread'[t]) = [AskedCall(thread'[t]) EXCEPT !.phase = "done"]
      BY <2>1, <2>2, CallFacts
    <3>2. AskedCall(thread'[t]) = callsBar[t]
      BY <2>1, <2>3 DEF AskedCall
    <3> QED
      BY <1>1, <2>1, <3>1, <3>2, OneCall
  <2>5. rowsBar' = IF id \in DOMAIN rowsBar THEN [rowsBar EXCEPT ![id].ec = ec] ELSE rowsBar
    BY <1>3, <1>5 DEF rowsBar
  <2>6. keptBar' = IF Store!Inserting THEN keptBar ELSE rowsBar'
    <3>1. Store!Inserting <=> active # {}
      BY InsertingIs DEF StoreInv, ActiveInv
    <3> QED
      BY <1>5, <3>1 DEF keptBar, rowsBar
  <2>7. failedBar' = failedBar
    BY <1>5, Common
  <2>8. Store!Stands(t, "finish", "asked") /\ callsBar[t].id = id /\ callsBar[t].ec = ec
    BY <2>3 DEF Store!Stands
  <2> QED
    BY <1>2, <2>4, <2>5, <2>6, <2>7, <2>8 DEF Store!Finish
<1> QED
  BY <1>3, <1>4, <1>5 DEF Done

LEMMA ResetSettles ==
    ASSUME StoreInv, [Next]_vars, NEW t \in Threads, Reset(t)
    PROVE  Invisible \/ Store!Settle(t)
<1>1. /\ thread \in [Threads -> ThreadState] /\ thread' \in [Threads -> ThreadState]
      /\ active \in SUBSET {"run_insert"} /\ OwnsStatement(t)
  BY Common DEF StoreInv, Inv, TypeOK
<1>2. /\ thread[t].pc = "reset" /\ thread'[t].pc = "unlock" /\ thread'[t].at = thread[t].at
      /\ thread'[t].args = thread[t].args
      /\ \A u \in Threads \ {t} : thread'[u] = thread[u]
      /\ UNCHANGED <<returned, reported>>
  BY <1>1, Fields DEF Reset
<1>3. thread[t] \in ThreadState /\ thread'[t] \in ThreadState /\ thread[t].args.ret \in Int
  BY <1>1 DEF ThreadState, Arguments
<1>4. CASE Inserted(t)
  <2>1. thread[t].at = "run_insert" /\ thread[t].args.ret >= 0
    BY <1>4 DEF Inserted, Writing
  <2>2. active = {"run_insert"}
    BY <1>1, <1>4 DEF StoreInv, ActiveInv
  <2>3. callsBar[t] = Placed(thread[t], "inserted")
    <3>1. CallOf(thread[t]) = Placed(thread[t], "inserted")
      BY <1>2, <1>3, <2>1, CallFacts
    <3> QED
      BY <3>1 DEF callsBar
  <2>4. CallOf(thread'[t]) = Placed(thread'[t], "done")
    BY <1>2, <1>3, <2>1, CallFacts
  <2>5. Placed(thread'[t], "done") = [callsBar[t] EXCEPT !.phase = "done"]
    BY <1>2, <2>3 DEF Placed
  <2>6. callsBar' = [callsBar EXCEPT ![t].phase = "done"]
    BY <1>1, <1>2, <2>4, <2>5, OneCall
  <2>7. Store!Stands(t, "create", "inserted")
    BY <2>3 DEF Store!Stands, Placed
  <2>8. \/ disk' = cur /\ UNCHANGED cur /\ Fine
        \/ cur' = disk /\ Fail /\ UNCHANGED disk
    BY <2>1, <2>2 DEF Reset
  <2>9. \/ keptBar' = rowsBar /\ UNCHANGED <<rowsBar, failedBar>>
        \/ rowsBar' = keptBar /\ failedBar' = TRUE /\ UNCHANGED keptBar
    BY <2>8, Common DEF keptBar, rowsBar
  <2> QED
    BY <1>2, <2>6, <2>7, <2>9 DEF Store!Settle
<1>5. CASE ~Inserted(t)
  <2>1. active # {thread[t].at}
    <3> SUFFICES ASSUME active = {thread[t].at} PROVE FALSE
      OBVIOUS
    <3>1. thread[t].at = "run_insert"
      BY <1>1
    <3>2. PICK u \in Threads : Inserted(u)
      BY DEF StoreInv, ActiveInv
    <3>3. OwnsStatement(u)
      BY DEF StoreInv, Inv
    <3> QED
      BY <1>1, <1>2, <1>5, <3>1, <3>2, <3>3 DEF OwnsStatement, Inserted, Writing
  <2>2. UNCHANGED <<rowsBar, keptBar>> /\ Fine
    BY <2>1 DEF Reset, rowsBar, keptBar
  <2>3. CallOf(thread'[t]) = CallOf(thread[t])
    <3>1. AskedCall(thread'[t]) = AskedCall(thread[t])
      BY <1>2 DEF AskedCall
    <3>2. CASE thread[t].args.ret < 0
      <4>1. CallOf(thread[t]) = [AskedCall(thread[t]) EXCEPT !.phase = "refused"]
        BY <1>2, <1>3, <3>2, CallFacts
      <4>2. CallOf(thread'[t]) = [AskedCall(thread'[t]) EXCEPT !.phase = "refused"]
        BY <1>2, <1>3, <3>2, CallFacts
      <4> QED
        BY <3>1, <4>1, <4>2
    <3>3. CASE thread[t].args.ret >= 0 /\ thread[t].at = "run_finished"
      <4>1. CallOf(thread[t]) = [AskedCall(thread[t]) EXCEPT !.phase = "done"]
        BY <1>2, <1>3, <3>3, CallFacts
      <4>2. CallOf(thread'[t]) = [AskedCall(thread'[t]) EXCEPT !.phase = "done"]
        BY <1>2, <1>3, <3>3, CallFacts
      <4> QED
        BY <3>1, <4>1, <4>2
    <3>4. CASE thread[t].args.ret >= 0 /\ thread[t].at \in {"repo_insert", "repo_find"}
      <4>1. CallOf(thread[t]) = AskedCall(thread[t])
        BY <1>2, <1>3, <3>4, CallFacts
      <4>2. CallOf(thread'[t]) = AskedCall(thread'[t])
        BY <1>2, <1>3, <3>4, CallFacts
      <4> QED
        BY <3>1, <4>1, <4>2
    <3>5. thread[t].at \in {"repo_insert", "repo_find", "run_finished"} \/ thread[t].args.ret < 0
      BY <1>2, <1>3, <1>5 DEF Inserted, Writing, ThreadState, Prepared
    <3> QED
      BY <1>3, <3>2, <3>3, <3>4, <3>5
  <2> QED
    BY <1>2, <2>2, <2>3, HiddenStep
<1> QED
  BY <1>4, <1>5

LEMMA UnlockReturns ==
    ASSUME StoreInv, [Next]_vars, NEW t \in Threads, Unlock(t)
    PROVE  Invisible \/ Store!Return(t)
<1> DEFINE at == thread[t].at
           args == thread[t].args
<1>1. /\ thread \in [Threads -> ThreadState] /\ thread' \in [Threads -> ThreadState]
      /\ UNCHANGED <<rowsBar, keptBar, failedBar>> /\ Fine
      /\ thread[t].pc = "unlock"
  BY Common DEF Unlock, rowsBar, keptBar, failedBar, Fine
<1>2. thread[t] \in ThreadState /\ thread'[t] \in ThreadState /\ args.ret \in Int /\ at \in Prepared
  BY <1>1 DEF ThreadState, Arguments
<1>3. \A u \in Threads \ {t} : thread'[u] = thread[u]
  BY <1>1 DEF Unlock
<1>4. ASSUME thread'[t] = Idle
      PROVE  callsBar' = [callsBar EXCEPT ![t] = Store!NoCall]
  <2>1. CallOf(thread'[t]) = Store!NoCall
    BY <1>2, <1>4, CallFacts DEF Idle
  <2> QED
    BY <1>1, <1>3, <2>1, OneCall
<1>5. callsBar[t] = CallOf(thread[t])
  BY DEF callsBar
<1>6. CASE args.ret < 0
  <2>1. callsBar[t] = [AskedCall(thread[t]) EXCEPT !.phase = "refused"]
    BY <1>1, <1>2, <1>5, <1>6, CallFacts
  <2>2. callsBar[t].phase = "refused"
    BY <2>1 DEF AskedCall
  <2>3. ~(args.ret >= 0) /\ thread'[t] = Idle
    BY <1>1, <1>2, <1>6 DEF Unlock
  <2>4. UNCHANGED <<returned, reported>>
    BY <2>3 DEF Unlock
  <2> QED
    BY <1>1, <1>4, <2>2, <2>3, <2>4 DEF Store!Return, Store!Stands
<1>7. CASE args.ret >= 0 /\ at = "run_insert"
  <2>1. callsBar[t] = Placed(thread[t], "done")
    BY <1>1, <1>2, <1>5, <1>7, CallFacts
  <2>2. /\ callsBar[t].what = "create" /\ callsBar[t].phase = "done"
        /\ callsBar[t].url = args.url /\ callsBar[t].rev = args.rev /\ callsBar[t].id = args.ret
    BY <2>1 DEF Placed
  <2>3. thread'[t] = Idle
    BY <1>1, <1>7 DEF Unlock
  <2>4. /\ returned' = returned \union {[url |-> args.url, rev |-> args.rev, id |-> args.ret]}
        /\ reported' = reported
    BY <1>7 DEF Unlock
  <2> QED
    BY <1>1, <1>4, <2>2, <2>3, <2>4 DEF Store!Return, Store!Stands
<1>8. CASE args.ret >= 0 /\ at = "run_finished"
  <2>1. callsBar[t] = [AskedCall(thread[t]) EXCEPT !.phase = "done"]
    BY <1>1, <1>2, <1>5, <1>8, CallFacts
  <2>2. /\ callsBar[t].what = "finish" /\ callsBar[t].phase = "done"
        /\ callsBar[t].id = args.id /\ callsBar[t].ec = args.ec
    BY <1>8, <2>1 DEF AskedCall
  <2>3. thread'[t] = Idle
    BY <1>1, <1>8 DEF Unlock
  <2>4. returned' = returned /\ reported' = reported \union {[id |-> args.id, ec |-> args.ec]}
    BY <1>8 DEF Unlock
  <2> QED
    BY <1>1, <1>4, <2>2, <2>3, <2>4 DEF Store!Return, Store!Stands
<1>9. CASE args.ret >= 0 /\ at \in {"repo_insert", "repo_find"}
  <2>1. callsBar[t] = AskedCall(thread[t])
    BY <1>1, <1>2, <1>5, <1>9, CallFacts
  <2>2. ~(args.ret < 0 \/ at \in {"run_insert", "run_finished"})
    BY <1>2, <1>9
  <2>3. thread'[t] = [thread[t] EXCEPT !.pc = "lock", !.at = Following(at)]
    BY <1>1, <2>2 DEF Unlock
  <2>4. /\ thread'[t].pc = "lock" /\ thread'[t].args = args
        /\ thread'[t].at # "run_finished"
    BY <1>2, <1>9, <2>3 DEF ThreadState, Following
  <2>5. CallOf(thread'[t]) = AskedCall(thread'[t])
    BY <1>2, <2>4, CallFacts
  <2>6. AskedCall(thread'[t]) = AskedCall(thread[t])
    BY <1>9, <2>4 DEF AskedCall
  <2>7. UNCHANGED <<returned, reported>>
    BY <1>9 DEF Unlock
  <2> QED
    BY <1>1, <1>3, <1>5, <2>1, <2>5, <2>6, <2>7, HiddenStep
<1> QED
  BY <1>2, <1>6, <1>7, <1>8, <1>9 DEF Prepared

\* What the threads were told of survives the process, as far as it is durable.
LEMMA ServerSteps ==
    ASSUME StoreInv, [Next]_vars, ServerStart \/ UpgradeStatement \/ ServerCrash
    PROVE  Invisible \/ Store!Fail \/ Store!Crash
<1>1. Inv /\ disk \in Database /\ Referential(disk)
  BY DEF StoreInv, Inv, TypeOK
<1>2. CASE ServerStart
  BY <1>2 DEF ServerStart, Invisible, rowsBar, keptBar, callsBar, failedBar
<1>3. CASE UpgradeStatement
  <2>1. cur = disk /\ \A t \in Threads : thread[t].pc = "idle"
    BY <1>3 DEF UpgradeStatement, StoreInv, PendingInv, Writing, AskedInv, QuietInv
  <2>2. /\ cur' = disk' /\ UNCHANGED <<thread, returned, reported>>
        /\ disk'.runs = disk.runs /\ disk'.repos = disk.repos
    BY <1>1, <1>3 DEF UpgradeStatement, Database
  <2>3. RowsOf(disk') = RowsOf(disk)
    BY <2>2 DEF RowsOf
  <2>4. UNCHANGED <<rowsBar, keptBar, callsBar>>
    BY <2>1, <2>2, <2>3 DEF rowsBar, keptBar, callsBar
  <2>5. Fine \/ Fail
    BY <1>3 DEF UpgradeStatement
  <2>6. failedBar' = failedBar \/ failedBar' = TRUE
    BY <2>5, Common
  <2> QED
    BY <2>2, <2>4, <2>6 DEF Invisible, Store!Fail
<1>4. CASE ServerCrash
  <2>1. rowsBar' = keptBar /\ keptBar' = keptBar /\ failedBar' = failedBar
    BY <1>4 DEF ServerCrash, rowsBar, keptBar, failedBar
  <2>2. callsBar' = [c \in Threads |-> Store!NoCall]
    <3>1. CallOf(Idle) = Store!NoCall
      BY IdleTyped, CallFacts DEF Idle
    <3>2. thread' = [t \in Threads |-> Idle]
      BY <1>4 DEF ServerCrash
    <3> QED
      BY <3>1, <3>2 DEF callsBar
  <2>3. /\ DOMAIN keptBar = 1 .. Len(disk.runs) /\ Len(disk.runs) \in Nat
        /\ \A i \in 1 .. Len(disk.runs) : keptBar[i].ec = disk.runs[i].ec
    BY <1>1 DEF keptBar, RowsOf, Database
  <2>4. returned' = {r \in returned : r.id \in DOMAIN keptBar}
    <3>1. returned' = {r \in returned : r.id <= Len(disk.runs)}
      BY <1>4 DEF ServerCrash
    <3>2. \A r \in returned : r.id \in Nat /\ r.id # 0
      BY DEF StoreInv, IdInv, Inv, TypeOK
    <3> QED
      BY <2>3, <3>1, <3>2
  <2>5. reported' = {r \in reported : r.id \in DOMAIN keptBar /\ keptBar[r.id].ec = r.ec}
    <3>1. reported' = {r \in reported : r.id <= Len(disk.runs) /\ disk.runs[r.id].ec = r.ec}
      BY <1>4 DEF ServerCrash
    <3>2. \A r \in reported : r.id \in Nat /\ r.id # 0
      BY DEF StoreInv, IdInv, Inv, TypeOK
    <3>3. \A r \in reported : /\ r.id <= Len(disk.runs) <=> r.id \in DOMAIN keptBar
                              /\ r.id \in DOMAIN keptBar => keptBar[r.id].ec = disk.runs[r.id].ec
      BY <2>3, <3>2
    <3> QED
      BY <3>1, <3>3
  <2>6. ~failedBar => returned' = returned
    <3>1. ~failedBar => failures = 0
      BY Common
    <3>2. failures = 0 => \A r \in returned : r.id \in DOMAIN disk.runs
      BY DEF StoreInv, DurableInv, Asked
    <3>3. DOMAIN disk.runs = DOMAIN keptBar
      BY <1>1, RowsTyped DEF keptBar
    <3> QED
      BY <2>4, <3>1, <3>2, <3>3
  <2> QED
    BY <2>1, <2>2, <2>4, <2>5, <2>6 DEF Store!Crash
<1> QED
  BY <1>2, <1>3, <1>4

LEMMA StoreStep == StoreInv /\ [Next]_vars => [Store!Next]_(Store!vars)
<1> SUFFICES ASSUME StoreInv, [Next]_vars PROVE Store!Next \/ Invisible
  BY InvisibleStutters
<1>1. CASE ServerStart \/ UpgradeStatement \/ ServerCrash
  BY <1>1, ServerSteps DEF Store!Next
<1>2. ASSUME NEW t \in Threads, Call(t) \/ ThreadStep(t)
      PROVE  Store!Next \/ Invisible
  <2>1. \/ Store!Ask(t) \/ Store!Insert(t) \/ Store!Settle(t) \/ Store!Finish(t)
        \/ Store!Refuse(t) \/ Store!Return(t) \/ Invisible
    BY <1>2, CallAsks, LockHidden, BindStep, RepoInsertHidden, RepoFindHidden, RunInsertInserts,
       RunFinishedFinishes, ResetSettles, UnlockReturns
    DEF ThreadStep
  <2> QED
    BY <2>1 DEF Store!Next
<1>3. CASE UNCHANGED vars
  BY <1>3 DEF vars, Invisible, rowsBar, keptBar, callsBar, failedBar
<1> QED
  BY <1>1, <1>2, <1>3 DEF Next

LEMMA InitStore == Init => Store!Init
<1> SUFFICES ASSUME Init PROVE Store!Init
  OBVIOUS
<1>1. rowsBar = << >> /\ keptBar = << >>
  BY DEF Init, rowsBar, keptBar, RowsOf
<1>2. CallOf(Idle) = Store!NoCall
  BY IdleTyped, CallFacts DEF Idle
<1>3. callsBar = [c \in Threads |-> Store!NoCall]
  BY <1>2 DEF Init, callsBar
<1>4. failedBar = FALSE
  BY DEF Init, failedBar
<1> QED
  BY <1>1, <1>3, <1>4 DEF Init, Store!Init

\* ImplementsRunStore (storage.h): however the statements of its threads are
\* interleaved, fail, or are cut short by the end of the process, the storage
\* serves them as one list of runs with a durable part.
THEOREM StoreRefinement == Spec => ImplementsRunStore
  BY InitStore, StoreStep, StoreInvariance, PTL DEF Spec, ImplementsRunStore, Store!Spec
=============================================================================
