-------------------------------- MODULE Storage --------------------------------
(***************************************************************************)
(* The server's SQLite database: the upgrade of its schema at every start, *)
(* and the statements prepared once and shared by all client threads over  *)
(* one connection, each with a mutex of its own.                           *)
(*                                                                         *)
(* A connection has one transaction.  A writing statement begins it, and   *)
(* it is committed when a statement ends while no other is writing: thus   *)
(* the rows of one thread may be committed, or rolled back, by another.    *)
(* The library is modelled from how the code calls it: in the default      *)
(* build each of its functions is atomic.                                  *)
(***************************************************************************)
EXTENDS Integers, Sequences

CONSTANTS
    Threads,        \* client threads of the server
    Urls, Revs,     \* repositories and revisions asked for
    ExitCodes,      \* what runs end with
    None,           \* the holder of a free mutex, the argument that is not given,
                    \* the exit code of a run that has not finished
    Statements,     \* how many statements v01.sql has
    MaxRows,        \* bound: with so many runs no thread asks for another
    MaxStarts,      \* bound: how often the server is started
    MaxFailures     \* bound: how many library calls fail

ASSUME NumbersAssumption ==
    /\ Statements \in Nat \ {0}
    /\ MaxRows \in Nat /\ MaxStarts \in Nat /\ MaxFailures \in Nat

ASSUME NoneAssumption == None \notin Threads \union Urls \union Revs \union ExitCodes

VARIABLES
    server,         \* "down", "upgrading", "serving"
    next,           \* the statement of the upgrade to execute next
    disk,           \* the database as committed
    cur,            \* the database as the connection sees it
    holder,         \* who has the mutex of each prepared statement
    bound,          \* the arguments bound to it
    active,         \* the writing statements that were stepped and not reset
    thread,         \* what each thread does
    returned,       \* runs that storage_run_create returned
    reported,       \* runs and exit codes that storage_run_finished returned 0 for
    failures,
    starts

vars == <<server, next, disk, cur, holder, bound, active, thread, returned, reported, failures, starts>>
upgradeVars == <<server, next, starts>>

Prepared == {"repo_find", "repo_insert", "run_insert", "run_finished"}

\* Seeded fault: the version is set before the schema is complete.
script_VersionFirst == [k \in 1 .. Statements + 1 |-> IF k = 1 THEN "version" ELSE "object"]

\* v01.sql, then PRAGMA user_version.
script == [k \in 1 .. Statements + 1 |-> IF k <= Statements THEN "object" ELSE "version"]

Schema == {k \in DOMAIN script : script[k] = "object"}

\* status and exit_code are set together, by the one UPDATE there is.
Run == [repo : Nat, rev : Revs, ec : ExitCodes \union {None}]
Database == [objects : SUBSET (1 .. Statements + 1), version : {0, 1}, repos : Seq(Urls), runs : Seq(Run)]

\* The arguments of a call, and the result of its previous statement in `ret`.
Arguments == [url : Urls \union {None}, rev : Revs \union {None}, ret : Int, id : Nat,
              ec : ExitCodes \union {None}]

\* Those of a thread without a call, and of a statement whose bindings are
\* cleared.
NoArguments == [url |-> None, rev |-> None, ret |-> 0, id |-> 0, ec |-> None]
Idle == [pc |-> "idle", at |-> "repo_insert", args |-> NoArguments]

TypeOK ==
    /\ server \in {"down", "upgrading", "serving"}
    /\ next \in 1 .. Statements + 1
    /\ disk \in Database
    /\ cur \in Database
    /\ holder \in [Prepared -> Threads \union {None}]
    /\ bound \in [Prepared -> Arguments]
    /\ active \in SUBSET {"run_insert"}
    /\ thread \in [Threads -> [pc : {"idle", "lock", "bind", "step", "reset", "unlock"},
                               at : Prepared, args : Arguments]]
    /\ returned \subseteq [url : Urls, rev : Revs, id : Nat]
    /\ reported \subseteq [id : Nat, ec : ExitCodes]
    /\ failures \in 0 .. MaxFailures
    /\ starts \in 0 .. MaxStarts

Init ==
    /\ server = "down"
    /\ next = 1
    /\ disk = [objects |-> {}, version |-> 0, repos |-> <<>>, runs |-> <<>>]
    /\ cur = disk
    /\ holder = [s \in Prepared |-> None]
    /\ bound = [s \in Prepared |-> NoArguments]
    /\ active = {}
    /\ thread = [t \in Threads |-> Idle]
    /\ returned = {}
    /\ reported = {}
    /\ failures = 0
    /\ starts = 0

Fail ==
    /\ failures < MaxFailures
    /\ failures' = failures + 1

Fine == UNCHANGED failures

-----------------------------------------------------------------------------
(* Start of the server *)

\* storage_sqlite_upgrade: a database at the newest version is left alone.
ServerStart ==
    /\ server = "down"
    /\ starts < MaxStarts
    /\ starts' = starts + 1
    /\ server' = IF disk.version = 1 THEN "serving" ELSE "upgrading"
    /\ next' = 1
    /\ UNCHANGED <<disk, cur, holder, bound, active, thread, returned, reported, failures>>

\* sqlite_exec_as_transaction executes the script without BEGIN and COMMIT:
\* each statement is a transaction.  What exists cannot be created again.
UpgradeStatement ==
    /\ server = "upgrading"
    /\ \/ /\ next \notin disk.objects
          /\ disk' = IF script[next] = "version" THEN [disk EXCEPT !.version = 1]
                                                 ELSE [disk EXCEPT !.objects = @ \union {next}]
          /\ server' = IF next = Len(script) THEN "serving" ELSE "upgrading"
          /\ next' = IF next = Len(script) THEN 1 ELSE next + 1
          /\ Fine
       \/ /\ (next \in disk.objects /\ Fine) \/ Fail
          /\ server' = "down"
          /\ UNCHANGED <<next, disk>>
    /\ cur' = disk'
    /\ UNCHANGED <<holder, bound, active, thread, returned, reported, starts>>

\* The process ends, or is killed, with its mutexes and its transaction.
ServerCrash ==
    /\ server # "down"
    /\ server' = "down"
    /\ next' = 1
    /\ cur' = disk
    /\ holder' = [s \in Prepared |-> None]
    /\ bound' = [s \in Prepared |-> NoArguments]
    /\ active' = {}
    /\ thread' = [t \in Threads |-> Idle]
    /\ returned' = {r \in returned : r.id <= Len(disk.runs)}
    /\ reported' = {r \in reported : r.id <= Len(disk.runs) /\ disk.runs[r.id].ec = r.ec}
    /\ UNCHANGED <<disk, failures, starts>>

-----------------------------------------------------------------------------
(* The statements *)

Goto(t, pc) == thread' = [thread EXCEPT ![t].pc = pc]
GotoWith(t, pc, ret) == thread' = [thread EXCEPT ![t].pc = pc, ![t].args.ret = ret]

\* The id is neither reported nor being reported.
Unreported(id) ==
    /\ \A r \in reported : r.id # id
    /\ \A t \in Threads : thread[t].pc # "idle" /\ thread[t].at = "run_finished" => thread[t].args.id # id

\* A commit failed, and the id of its run was given to another.
GivenAgain(run) == \E other \in returned : other.id = run.id /\ other # run

\* server_handle_cmd_queue_run, and the report of a run that was returned.  A
\* run is begun and reported once (see Cimple).  Two runs with one id are
\* reported with that id, but (a bound) not with the same exit code.
Call(t) ==
    /\ server = "serving"
    /\ thread[t].pc = "idle"
    /\ \/ /\ \E u \in Urls, r \in Revs :
                thread' = [thread EXCEPT ![t] = [pc |-> "lock", at |-> "repo_insert",
                            args |-> [url |-> u, rev |-> r, ret |-> 0, id |-> 0, ec |-> None]]]
          /\ Len(cur.runs) < MaxRows
       \/ \E run \in returned, ec \in ExitCodes :
            /\ Unreported(run.id) \/ (GivenAgain(run) /\ [id |-> run.id, ec |-> ec] \notin reported)
            /\ thread' = [thread EXCEPT ![t] = [pc |-> "lock", at |-> "run_finished",
                            args |-> [url |-> None, rev |-> None, ret |-> 0, id |-> run.id, ec |-> ec]]]
    /\ UNCHANGED <<upgradeVars, disk, cur, holder, bound, active, returned, reported, failures>>

\* Seeded fault: the mutex is not waited for.
Lock_None(t) ==
    /\ thread[t].pc = "lock"
    /\ holder' = [holder EXCEPT ![thread[t].at] = t]
    /\ Goto(t, "bind")
    /\ UNCHANGED <<upgradeVars, disk, cur, bound, active, returned, reported, failures>>

Lock(t) ==
    /\ thread[t].pc = "lock"
    /\ holder[thread[t].at] = None
    /\ holder' = [holder EXCEPT ![thread[t].at] = t]
    /\ Goto(t, "bind")
    /\ UNCHANGED <<upgradeVars, disk, cur, bound, active, returned, reported, failures>>

\* Seeded fault: an error returns with the mutex locked.
Bind_ReturnsLocked(t) ==
    /\ thread[t].pc = "bind"
    /\ \/ /\ bound' = [bound EXCEPT ![thread[t].at] = thread[t].args]
          /\ Goto(t, "step")
          /\ Fine
       \/ Fail /\ GotoWith(t, "idle", -1) /\ UNCHANGED bound
    /\ UNCHANGED <<upgradeVars, disk, cur, holder, active, returned, reported>>

\* A statement in the middle of its execution takes no arguments.
Bind(t) ==
    /\ thread[t].pc = "bind"
    /\ \/ /\ thread[t].at \notin active
          /\ bound' = [bound EXCEPT ![thread[t].at] = thread[t].args]
          /\ Goto(t, "step")
          /\ Fine
       \/ /\ (thread[t].at \in active /\ Fine) \/ Fail
          /\ GotoWith(t, "reset", -1)
          /\ UNCHANGED bound
    /\ UNCHANGED <<upgradeVars, disk, cur, holder, active, returned, reported>>

\* A writing statement is done and leaves db: it is committed with all that
\* waited for it if no other is writing.  An error, of the statement or of its
\* commit, rolls back the statement or the whole transaction.
Done(t, db, ret) ==
    /\ \/ /\ cur' = db
          /\ disk' = IF active = {} THEN db ELSE disk
          /\ GotoWith(t, "reset", ret)
          /\ Fine
       \/ /\ cur' \in {cur, disk}
          /\ GotoWith(t, "reset", -1)
          /\ Fail
          /\ UNCHANGED disk
    /\ UNCHANGED active

Stepping(t, s) ==
    /\ thread[t].pc = "step"
    /\ thread[t].at = s

IdsOf(url) == {i \in DOMAIN cur.repos : cur.repos[i] = url}

\* Seeded fault: no ON CONFLICT clause.
StepRepoInsert_Conflict(t) ==
    /\ Stepping(t, "repo_insert")
    /\ \/ /\ IdsOf(bound["repo_insert"].url) = {}
          /\ Done(t, [cur EXCEPT !.repos = Append(@, bound["repo_insert"].url)], 0)
       \/ /\ IdsOf(bound["repo_insert"].url) # {}
          /\ GotoWith(t, "reset", -1)
          /\ UNCHANGED <<disk, cur, active, failures>>
    /\ UNCHANGED <<upgradeVars, holder, bound, returned, reported>>

\* INSERT INTO cimple_repos(url) ... ON CONFLICT(url) DO NOTHING
StepRepoInsert(t) ==
    /\ Stepping(t, "repo_insert")
    /\ LET url == bound["repo_insert"].url
       IN  Done(t, IF IdsOf(url) = {} THEN [cur EXCEPT !.repos = Append(@, url)] ELSE cur, 0)
    /\ UNCHANGED <<upgradeVars, holder, bound, returned, reported>>

\* Seeded fault: the id is the one the connection inserted last.
StepRepoFind_LastInserted(t) ==
    /\ Stepping(t, "repo_find")
    /\ GotoWith(t, "reset", Len(cur.repos))
    /\ UNCHANGED <<upgradeVars, disk, cur, holder, bound, active, returned, reported, failures>>

\* SELECT id FROM cimple_repos WHERE url = ?: 0 if there is no such row.  An
\* error of the library's may take the transaction with it here too.
StepRepoFind(t) ==
    /\ Stepping(t, "repo_find")
    /\ LET ids == IdsOf(bound["repo_find"].url)
       IN  \/ ids = {} /\ GotoWith(t, "reset", 0) /\ Fine /\ UNCHANGED cur
           \/ \E id \in ids : GotoWith(t, "reset", id) /\ Fine /\ UNCHANGED cur
           \/ GotoWith(t, "reset", -1) /\ Fail /\ cur' \in {cur, disk}
    /\ UNCHANGED <<upgradeVars, disk, holder, bound, active, returned, reported>>

\* Seeded fault: foreign keys are not enforced (the library's default).
HasRepo_Unchecked(repo) == TRUE

\* PRAGMA foreign_keys = ON
HasRepo(repo) == repo \in DOMAIN cur.repos

\* INSERT INTO cimple_runs ... RETURNING id: the row is there, the statement
\* is not done, and nothing is committed, before it is reset.
StepRunInsert(t) ==
    /\ Stepping(t, "run_insert")
    /\ LET args == bound["run_insert"]
           row == [repo |-> args.ret, rev |-> args.rev, ec |-> None]
       IN  \/ /\ HasRepo(args.ret)
              /\ cur' = [cur EXCEPT !.runs = Append(@, row)]
              /\ active' = active \union {"run_insert"}
              /\ GotoWith(t, "reset", Len(cur'.runs))
              /\ Fine
           \/ /\ ~HasRepo(args.ret)
              /\ GotoWith(t, "reset", -1)
              /\ UNCHANGED <<cur, active>>
              /\ Fine
           \/ /\ cur' \in {cur, disk}
              /\ GotoWith(t, "reset", -1)
              /\ UNCHANGED active
              /\ Fail
    /\ UNCHANGED <<upgradeVars, disk, holder, bound, returned, reported>>

\* UPDATE cimple_runs ... WHERE id = ?: no row is no error.
StepRunFinished(t) ==
    /\ Stepping(t, "run_finished")
    /\ LET id == bound["run_finished"].id
           ec == bound["run_finished"].ec
       IN  Done(t, IF id \in DOMAIN cur.runs THEN [cur EXCEPT !.runs[id].ec = ec] ELSE cur, 0)
    /\ UNCHANGED <<upgradeVars, holder, bound, returned, reported>>

\* Seeded fault: the success path of the insertion leaves the row unread.
Reset_ErrorsOnly(t) ==
    /\ thread[t].pc = "reset"
    /\ Goto(t, "unlock")
    /\ IF thread[t].args.ret < 0
       THEN active' = active \ {thread[t].at} /\ bound' = [bound EXCEPT ![thread[t].at] = NoArguments]
       ELSE UNCHANGED <<active, bound>>
    /\ UNCHANGED <<upgradeVars, disk, cur, holder, returned, reported, failures>>

\* sqlite_reset: ends a statement that is not done, and commits; an error of
\* the commit is logged and the transaction rolled back.
Reset(t) ==
    /\ thread[t].pc = "reset"
    /\ Goto(t, "unlock")
    /\ bound' = [bound EXCEPT ![thread[t].at] = NoArguments]
    /\ active' = active \ {thread[t].at}
    /\ \/ /\ disk' = IF active = {thread[t].at} THEN cur ELSE disk
          /\ UNCHANGED cur
          /\ Fine
       \/ /\ active = {thread[t].at}
          /\ cur' = disk
          /\ Fail
          /\ UNCHANGED disk
    /\ UNCHANGED <<upgradeVars, holder, returned, reported>>

\* storage_sqlite_run_create goes on to the next statement, unless one failed.
Following(s) == IF s = "repo_insert" THEN "repo_find" ELSE "run_insert"

Unlock(t) ==
    /\ thread[t].pc = "unlock"
    /\ holder' = [holder EXCEPT ![thread[t].at] = None]
    /\ LET at == thread[t].at
           args == thread[t].args
           last == args.ret < 0 \/ at \in {"run_insert", "run_finished"}
       IN  /\ thread' = [thread EXCEPT ![t] = IF last THEN Idle ELSE [@ EXCEPT !.pc = "lock", !.at = Following(at)]]
           /\ returned' = IF at = "run_insert" /\ args.ret >= 0
                          THEN returned \union {[url |-> args.url, rev |-> args.rev, id |-> args.ret]}
                          ELSE returned
           /\ reported' = IF at = "run_finished" /\ args.ret >= 0
                          THEN reported \union {[id |-> args.id, ec |-> args.ec]}
                          ELSE reported
    /\ UNCHANGED <<upgradeVars, disk, cur, bound, active, failures>>

-----------------------------------------------------------------------------
ThreadStep(t) ==
    \/ Lock(t)
    \/ Bind(t)
    \/ StepRepoInsert(t)
    \/ StepRepoFind(t)
    \/ StepRunInsert(t)
    \/ StepRunFinished(t)
    \/ Reset(t)
    \/ Unlock(t)

Next ==
    \/ ServerStart
    \/ UpgradeStatement
    \/ ServerCrash
    \/ \E t \in Threads : Call(t) \/ ThreadStep(t)

Spec == Init /\ [][Next]_vars

\* Every thread is scheduled while the server runs.
Fairness == \A t \in Threads : WF_vars(ThreadStep(t))

FairSpec == Spec /\ Fairness

-----------------------------------------------------------------------------
(* Properties *)

\* storage_sqlite_setup: threads are served by a database whose schema is
\* complete, wherever an earlier start was interrupted.
ServesWholeSchema == server = "serving" => disk.objects = Schema /\ disk.version = 1

\* v01.sql, cimple_runs: every run refers to a repository that exists, also
\* after another thread's failure has rolled back the one that was found.
RunsHaveRepos == \A i \in DOMAIN cur.runs : cur.runs[i].repo \in DOMAIN cur.repos

\* storage_sqlite_run_create: unless a call failed, the run that was returned
\* is the one that was asked for, in the repository that was asked for, and the
\* runs reported are finished with the exit codes that were reported, whatever
\* other threads did in between.
RowsAreAsAsked ==
    failures = 0 =>
        /\ \A r \in returned :
            /\ r.id \in DOMAIN cur.runs
            /\ cur.runs[r.id].rev = r.rev
            /\ cur.repos[cur.runs[r.id].repo] = r.url
        /\ \A r \in reported : cur.runs[r.id].ec = r.ec

\* storage_sqlite_insert_repo: no statement fails because of what another
\* thread did.
ErrorNeedsFailure == failures = 0 => \A t \in Threads : thread[t].args.ret >= 0

\* sqlite_reset: what is not committed belongs to a call that is not over.
NothingPends ==
    cur # disk => \E t \in Threads : thread[t].at = "run_insert" /\ thread[t].pc = "reset"

-----------------------------------------------------------------------------
(* What the storage promises *)

\* The runs of a database, each with the name of its repository.
RowsOf(db) == [i \in 1 .. Len(db.runs) |->
    [url |-> db.repos[db.runs[i].repo], rev |-> db.runs[i].rev, ec |-> db.runs[i].ec]]

\* What a thread that is at th has asked for, and how far that is.
PhaseOf(th) ==
    CASE th.pc = "idle" -> "none"
      [] th.pc \in {"reset", "unlock"} /\ th.args.ret < 0 -> "refused"
      [] th.pc = "reset" /\ th.at = "run_insert" /\ th.args.ret >= 0 -> "inserted"
      [] th.pc = "unlock" /\ th.at = "run_insert" /\ th.args.ret >= 0 -> "done"
      [] th.pc \in {"reset", "unlock"} /\ th.at = "run_finished" /\ th.args.ret >= 0 -> "done"
      [] OTHER -> "asked"

CallOf(th) ==
    LET phase == PhaseOf(th)
    IN  IF phase = "none" THEN [what |-> "nothing", phase |-> phase]
        ELSE IF th.at = "run_finished" THEN [what |-> "finish", phase |-> phase, id |-> th.args.id, ec |-> th.args.ec]
        ELSE [what |-> "create", phase |-> phase, url |-> th.args.url, rev |-> th.args.rev,
              id |-> IF phase \in {"inserted", "done"} THEN th.args.ret ELSE 0]

rowsBar == RowsOf(cur)
keptBar == RowsOf(disk)
callsBar == [t \in Threads |-> CallOf(thread[t])]
failedBar == failures > 0

Store == INSTANCE RunStore WITH
    Callers <- Threads, rows <- rowsBar, kept <- keptBar, calls <- callsBar, failed <- failedBar

\* storage.h: threads that share one connection and one transaction are served
\* as by one list of runs; who was given the id of a run has a durable run.
ImplementsRunStore == Store!Spec

\* prepared_stmt_lock: every call gets its mutexes and returns.
CallReturns == \A t \in Threads : thread[t].pc = "lock" ~> thread[t].pc = "idle"

\* sqlite.c:237 "BEGIN; %s COMMIT;": the upgrade is one transaction.
AllOrNothing == disk.version = 0 => disk.objects = {}
=============================================================================
