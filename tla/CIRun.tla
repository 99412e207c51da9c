--------------------------------- MODULE CIRun ---------------------------------
(***************************************************************************)
(* A worker executing the runs it is given, one after another: the clone,  *)
(* the script as a child process, and the pipe its output comes through.   *)
(* The script, and what it leaves in the background, run concurrently with *)
(* the worker.  Every library or system call whose failure the code looks  *)
(* at may fail, from a budget of MaxFailures.                              *)
(***************************************************************************)
EXTENDS Integers

CONSTANTS
    MaxRuns,        \* bound: how many runs the worker is given
    MaxOutput,      \* bound: how many bytes a script writes
    PipeSize,       \* capacity of the pipe
    FirstAlloc,     \* what file_read allocates at first
    ExitStatuses,   \* what a script may call exit with
    Signals,        \* what may kill it
    MaxFailures     \* bound: how many calls fail

ASSUME NumbersAssumption ==
    /\ MaxRuns \in Nat /\ MaxOutput \in Nat /\ MaxFailures \in Nat
    /\ PipeSize \in Nat \ {0} /\ FirstAlloc \in Nat \ {0}
    /\ ExitStatuses \subseteq Nat
    /\ Signals \subseteq Nat \ {0}

\* A script that comes to its end ends with something.
ASSUME ScriptsExitAssumption == ExitStatuses # {}

VARIABLES
    pc,          \* the next call of the worker
    run,         \* number of the current run
    ret,         \* what the functions return: 0, or -1 once something failed
    ec,          \* result->ec
    size, alloc, \* bytes of output so far, and room for them
    dirs,        \* runs whose temporary directory exists
    cwd, oldpwd, \* 0 is where the worker was started, else a run's directory
    pipe,        \* bytes in the pipe
    rd, wr,      \* are the worker's ends of it open
    child,       \* "none", "running", "zombie", "reaped"
    holding,     \* does the script hold the pipe
    background,  \* does something it started hold the pipe
    left,        \* bytes the script has yet to write
    written,     \* bytes it wrote
    status,      \* how it ended
    failures

workerVars == <<pc, run, ret, ec, size, alloc, dirs, cwd, oldpwd>>
childVars == <<child, holding, background, left, written, status>>
vars == <<workerVars, pipe, rd, wr, childVars, failures>>

Status == [how : {"exited", "killed"}, n : Nat]

TypeOK ==
    /\ pc \in {"idle", "clone", "checkout", "chdir", "find", "pipe", "fork", "parent", "read",
               "wait", "close", "chdir_back", "rm", "done", "exited"}
    /\ run \in Nat
    /\ ret \in {0, -1}
    /\ ec \in Int
    /\ alloc \in Nat
    /\ size \in 0 .. alloc
    /\ dirs \subseteq Nat
    /\ cwd \in Nat
    /\ oldpwd \in Nat
    /\ pipe \in 0 .. PipeSize
    /\ rd \in BOOLEAN
    /\ wr \in BOOLEAN
    /\ child \in {"none", "running", "zombie", "reaped"}
    /\ holding \in BOOLEAN
    /\ background \in BOOLEAN
    /\ left \in 0 .. MaxOutput
    /\ written \in 0 .. MaxOutput
    /\ status \in Status
    /\ failures \in Nat

Init ==
    /\ pc = "idle"
    /\ run = 0
    /\ ret = 0
    /\ ec = 0
    /\ size = 0
    /\ alloc = FirstAlloc
    /\ dirs = {}
    /\ cwd = 0
    /\ oldpwd = 0
    /\ pipe = 0
    /\ rd = FALSE
    /\ wr = FALSE
    /\ child = "none"
    /\ holding = FALSE
    /\ background = FALSE
    /\ left = 0
    /\ written = 0
    /\ status = [how |-> "exited", n |-> 0]
    /\ failures = 0

Fail ==
    /\ failures < MaxFailures
    /\ failures' = failures + 1

Fine == UNCHANGED failures

\* A call at `at` succeeds; it fails; it has a reason of its own to fail.  The
\* code goes on at `next`.
Succeed(at, next) == pc = at /\ pc' = next /\ Fine /\ UNCHANGED ret
GiveUp(at, next) == pc = at /\ pc' = next /\ Fail /\ ret' = -1
Refuse(at, next) == pc = at /\ pc' = next /\ Fine /\ ret' = -1

-----------------------------------------------------------------------------
(* ci_run_git_repo *)

\* worker_do_run: the next run, with an output of its own.
Begin ==
    /\ pc = "idle"
    /\ run < MaxRuns
    /\ pc' = "clone"
    /\ run' = run + 1
    /\ ret' = 0
    /\ ec' = 0
    /\ size' = 0
    /\ alloc' = FirstAlloc
    /\ child' = "none"
    /\ written' = 0
    /\ UNCHANGED <<dirs, cwd, oldpwd, pipe, rd, wr, holding, background, left, status, failures>>

\* mkdtemp may fail, and git_clone, after which the directory stays.
Clone ==
    /\ \/ Succeed("clone", "checkout") /\ dirs' = dirs \union {run}
       \/ GiveUp("clone", "done") /\ dirs' \in {dirs, dirs \union {run}}
    /\ UNCHANGED <<run, ec, size, alloc, cwd, oldpwd, pipe, rd, wr, childVars>>

\* A revision that does not exist is refused.
libgit_checkout(found, missing) == Succeed("checkout", found) \/ Refuse("checkout", missing)

\* ci_prepare_git_repo: the clone is removed again.
Checkout ==
    /\ libgit_checkout("chdir", "rm")
    /\ UNCHANGED <<run, ec, size, alloc, dirs, cwd, oldpwd, pipe, rd, wr, childVars>>

\* A working directory that was removed has no name to come back to.
ChDir ==
    /\ \/ /\ Succeed("chdir", "find")
          /\ cwd \in dirs \union {0}
          /\ oldpwd' = cwd
          /\ cwd' = run
       \/ GiveUp("chdir", "rm") /\ UNCHANGED <<cwd, oldpwd>>
       \/ /\ Refuse("chdir", "rm")
          /\ cwd \notin dirs \union {0}
          /\ UNCHANGED <<cwd, oldpwd>>
    /\ UNCHANGED <<run, ec, size, alloc, dirs, pipe, rd, wr, childVars>>

\* ci_run: the first of ci_scripts that is a regular file, if there is one.
Find ==
    /\ Succeed("find", "pipe") \/ Refuse("find", "chdir_back")
    /\ UNCHANGED <<run, ec, size, alloc, dirs, cwd, oldpwd, pipe, rd, wr, childVars>>

\* Neither the way back nor the removal can fail the run.
ChDirBack ==
    /\ pc = "chdir_back"
    /\ pc' = "rm"
    /\ \/ cwd' = oldpwd /\ Fine
       \/ UNCHANGED cwd /\ Fail
    /\ UNCHANGED <<run, ret, ec, size, alloc, dirs, oldpwd, pipe, rd, wr, childVars>>

RmRf ==
    /\ pc = "rm"
    /\ pc' = "done"
    /\ \/ dirs' = dirs \ {run} /\ Fine
       \/ UNCHANGED dirs /\ Fail
    /\ UNCHANGED <<run, ret, ec, size, alloc, cwd, oldpwd, pipe, rd, wr, childVars>>

\* worker_main: a run that failed ends the worker.
Return ==
    /\ pc = "done"
    /\ pc' = IF ret < 0 THEN "exited" ELSE "idle"
    /\ UNCHANGED <<run, ret, ec, size, alloc, dirs, cwd, oldpwd, pipe, rd, wr, childVars, failures>>

-----------------------------------------------------------------------------
(* process_execute_and_capture *)

Pipe2 ==
    /\ \/ Succeed("pipe", "fork") /\ rd' = TRUE /\ wr' = TRUE
       \/ GiveUp("pipe", "chdir_back") /\ UNCHANGED <<rd, wr>>
    /\ UNCHANGED <<run, ec, size, alloc, dirs, cwd, oldpwd, pipe, childVars>>

\* When fork fails, ret is still what pipe2 returned.
Fork ==
    /\ pc = "fork"
    /\ \/ /\ pc' = "parent"
          /\ child' = "running"
          /\ holding' = TRUE
          /\ left' \in 0 .. MaxOutput
          /\ Fine
       \/ /\ pc' = "close"
          /\ Fail
          /\ UNCHANGED <<child, holding, left>>
    /\ UNCHANGED <<run, ret, ec, size, alloc, dirs, cwd, oldpwd, pipe, rd, wr, background, written, status>>

\* Seeded fault: the child is waited for before its output is read.
CloseWriteEnd_WaitFirst ==
    /\ pc = "parent"
    /\ wr' = FALSE
    /\ pc' = "wait"
    /\ UNCHANGED <<run, ret, ec, size, alloc, dirs, cwd, oldpwd, pipe, rd, childVars, failures>>

CloseWriteEnd ==
    /\ pc = "parent"
    /\ wr' = FALSE
    /\ pc' = "read"
    /\ UNCHANGED <<run, ret, ec, size, alloc, dirs, cwd, oldpwd, pipe, rd, childVars, failures>>

\* Seeded fault: read is given the size of the buffer.
room_Whole == alloc

room == alloc - size

\* Seeded fault: the buffer grows only when it is too small already.
grown_Late(filled) == IF filled > alloc THEN 2 * alloc ELSE alloc

\* file_read: the buffer is doubled as soon as it is full.
grown(filled) == IF filled = alloc THEN 2 * alloc ELSE alloc

\* read returns what there is, and 0 at the end of the file or when it is
\* asked for nothing.  It blocks while somebody may still write.
Read ==
    /\ pc = "read"
    /\ \/ /\ \E n \in 1 .. pipe :
                /\ n <= room
                /\ pipe' = pipe - n
                /\ size' = size + n
                /\ alloc' = grown(size + n)
          /\ UNCHANGED <<pc, ret, failures>>
       \/ /\ room = 0 \/ (pipe = 0 /\ ~wr /\ ~holding /\ ~background)
          /\ Succeed("read", "wait")
          /\ UNCHANGED <<pipe, size, alloc>>
       \/ GiveUp("read", "close") /\ UNCHANGED <<pipe, size, alloc>>
    /\ UNCHANGED <<run, ec, dirs, cwd, oldpwd, rd, wr, childVars>>

\* The kernel passes on the lowest 8 bits of the exit code.
ExitCode(s) == IF s.how = "exited" THEN s.n % 256 ELSE -s.n

\* Seeded fault: waitpid does not block.
Wait_NoHang ==
    /\ pc = "wait"
    /\ ec' = IF child = "zombie" THEN ExitCode(status) ELSE ec
    /\ child' = IF child = "zombie" THEN "reaped" ELSE child
    /\ Succeed("wait", "close")
    /\ UNCHANGED <<run, size, alloc, dirs, cwd, oldpwd, pipe, rd, wr, holding, background,
                   left, written, status>>

\* wait_for_child
Wait ==
    /\ \/ /\ child = "zombie"
          /\ child' = "reaped"
          /\ ec' = ExitCode(status)
          /\ Succeed("wait", "close")
       \/ GiveUp("wait", "close") /\ UNCHANGED <<child, ec>>
    /\ UNCHANGED <<run, size, alloc, dirs, cwd, oldpwd, pipe, rd, wr, holding, background,
                   left, written, status>>

\* Seeded fault: only the end that is known to be open is closed.
ClosePipe_ReadEnd ==
    /\ pc = "close"
    /\ pc' = "chdir_back"
    /\ rd' = FALSE
    /\ UNCHANGED <<run, ret, ec, size, alloc, dirs, cwd, oldpwd, pipe, wr, childVars, failures>>

\* The write end may have been closed before; nothing else was opened since.
ClosePipe ==
    /\ pc = "close"
    /\ pc' = "chdir_back"
    /\ rd' = FALSE
    /\ wr' = FALSE
    /\ UNCHANGED <<run, ret, ec, size, alloc, dirs, cwd, oldpwd, pipe, childVars, failures>>

-----------------------------------------------------------------------------
(* The script *)

Write ==
    /\ child = "running" /\ holding
    /\ left > 0
    /\ rd
    /\ pipe < PipeSize
    /\ pipe' = pipe + 1
    /\ left' = left - 1
    /\ written' = written + 1
    /\ UNCHANGED <<workerVars, rd, wr, child, holding, background, status, failures>>

End(how) ==
    /\ child' = "zombie"
    /\ holding' = FALSE
    /\ left' = 0
    /\ status' = how
    /\ UNCHANGED <<workerVars, pipe, rd, wr, background, written, failures>>

\* It exits when it has written what it has to write; what cannot be executed
\* exits too (exec_child returns -1).
ScriptExits ==
    /\ child = "running"
    /\ left = 0
    /\ \E n \in ExitStatuses : End([how |-> "exited", n |-> n])

\* Killed by somebody, or by SIGPIPE when the worker reads no more.
ScriptKilled ==
    /\ child = "running"
    /\ \E n \in Signals : End([how |-> "killed", n |-> n])

\* It may close its output, or leave a process behind that keeps it open.
ScriptLetsGo ==
    /\ child = "running" /\ holding
    /\ \/ holding' = FALSE /\ left' = 0 /\ UNCHANGED background
       \/ background' = TRUE /\ UNCHANGED <<holding, left>>
    /\ UNCHANGED <<workerVars, pipe, rd, wr, child, written, status, failures>>

BackgroundEnds ==
    /\ background
    /\ background' = FALSE
    /\ UNCHANGED <<workerVars, pipe, rd, wr, child, holding, left, written, status, failures>>

-----------------------------------------------------------------------------
WorkerStep ==
    \/ Begin
    \/ Clone
    \/ Checkout
    \/ ChDir
    \/ Find
    \/ Pipe2
    \/ Fork
    \/ CloseWriteEnd
    \/ Read
    \/ Wait
    \/ ClosePipe
    \/ ChDirBack
    \/ RmRf
    \/ Return

Next == WorkerStep \/ Write \/ ScriptExits \/ ScriptKilled \/ ScriptLetsGo \/ BackgroundEnds

Spec == Init /\ [][Next]_vars

\* The worker and its children are scheduled; a script, and what it started,
\* comes to its end unless it is blocked writing.
Fairness ==
    /\ WF_vars(WorkerStep)
    /\ WF_vars(Write \/ ScriptExits)
    /\ WF_vars(BackgroundEnds)

FairSpec == Spec /\ Fairness

-----------------------------------------------------------------------------
(* Properties *)

\* process.h: the result is valid if the return value is not negative.  Where
\* a script was started, it has ended, its exit code is the one returned (a
\* negative one if it was killed), and all it wrote was read.
ResultIsScripts ==
    pc = "done" /\ ret = 0 /\ child # "none" =>
        /\ child = "reaped"
        /\ status.how = "exited" => ec \in 0 .. 255 /\ (status.n - ec) % 256 = 0
        /\ status.how = "killed" => ec = -status.n
        /\ size = written

\* ci.c, ci_cleanup_git_repo: the directory is not removed under a script the
\* worker has not given up.
ScriptHasDirectory == child = "running" /\ ret = 0 => run \in dirs /\ cwd = run

\* After ci_run_git_repo nothing is left of the pipe; nor, unless a call
\* failed, of the directories, and the worker is where it was.
NothingLeft ==
    pc = "done" =>
        /\ ~rd /\ ~wr
        /\ failures = 0 => dirs = {} /\ cwd = 0 /\ pipe = 0

\* file_read goes on until the script closes its output, so neither waits for
\* the other for ever (process.c: read, then wait).
RunEnds == pc = "clone" ~> pc = "done"

\* process.h:19-23 as they stand: a run that returns a result has had a script,
\* which has ended.
ValidResult == pc = "done" /\ ret = 0 => child = "reaped"
=============================================================================
