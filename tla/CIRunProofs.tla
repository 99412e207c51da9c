------------------------------ MODULE CIRunProofs ------------------------------
(***************************************************************************)
(* Proofs about CIRun, for any size of the pipe and of the buffer, any     *)
(* amount of output, any exit codes and signals: a run that succeeds       *)
(* returns its script's result, a script keeps its directory, and nothing  *)
(* is left behind by a run in which no call failed.                        *)
(***************************************************************************)
EXTENDS CIRun, TLAPS

BeforeFork == {"clone", "checkout", "chdir", "find", "pipe", "fork"}
AfterRead == {"wait", "close", "chdir_back", "rm", "done", "idle"}
AfterWait == {"close", "chdir_back", "rm", "done", "idle"}

\* What was written is in the pipe or in the buffer, and there is room for more.
Conserved ==
    /\ written = size + pipe
    /\ left + written <= MaxOutput
    /\ size < alloc

\* Where the worker is fits what the script has done; before there is one,
\* nothing has happened.
InStep ==
    /\ child = "none" => written = 0 /\ size = 0 /\ pipe = 0 /\ left = 0 /\ ~holding
    /\ child \in {"zombie", "reaped"} => left = 0 /\ ~holding
    /\ pc \in BeforeFork => child = "none" /\ ret = 0
    /\ pc \in {"parent", "read", "idle"} => ret = 0
    /\ pc \in {"parent", "read", "wait"} => child # "none" /\ child # "reaped"
    /\ pc = "wait" => ret = 0
    /\ pc = "exited" => ret = -1

\* The worker knows the end of a script's output when it goes on to wait for it,
\* and its end when it goes on from there.
Known ==
    ret = 0 =>
        /\ pc \in AfterRead => pipe = 0 /\ ~holding
        /\ pc \in AfterWait /\ child # "none" => child = "reaped" /\ ec = ExitCode(status)

\* The script's directory exists and is the current one.
Placed ==
    /\ pc \in {"checkout", "chdir"} => run \in dirs
    /\ pc \in {"find", "pipe", "fork", "parent", "read", "wait"} => run \in dirs /\ cwd = run

Inv ==
    /\ TypeOK
    /\ Conserved
    /\ InStep
    /\ Known
    /\ Placed

LEMMA InvInit == Init => Inv
<1> SUFFICES ASSUME Init PROVE Inv
  OBVIOUS
<1>1. TypeOK
  <2>1. status \in Status
    BY DEF Init, Status
  <2>2. size \in 0 .. alloc /\ alloc \in Nat /\ pipe \in 0 .. PipeSize
    BY NumbersAssumption DEF Init
  <2>3. left \in 0 .. MaxOutput /\ written \in 0 .. MaxOutput
    BY NumbersAssumption DEF Init
  <2>4. rd \in BOOLEAN /\ wr \in BOOLEAN /\ holding \in BOOLEAN /\ background \in BOOLEAN
    BY DEF Init
  <2>5. /\ pc = "idle" /\ child = "none" /\ dirs = {}
        /\ run = 0 /\ ret = 0 /\ ec = 0 /\ cwd = 0 /\ oldpwd = 0 /\ failures = 0
    BY DEF Init
  <2> QED
    BY <2>1, <2>2, <2>3, <2>4, <2>5 DEF TypeOK
<1>2. Conserved /\ InStep /\ Known /\ Placed
  BY NumbersAssumption
  DEF Init, Conserved, InStep, Known, Placed, BeforeFork, AfterRead, AfterWait
<1> QED
  BY <1>1, <1>2 DEF Inv

\* An exit code is a number.
LEMMA ExitCodeInt == ASSUME NEW s \in Status PROVE ExitCode(s) \in Int
  BY DEF Status, ExitCode

\* The worker's calls before there is a script.
LEMMA BeginKeeps ==
    ASSUME Inv, Begin \/ Clone \/ Checkout \/ ChDir \/ Find \/ Pipe2
    PROVE  Inv'
<1> USE NumbersAssumption DEF Inv
<1>1. CASE Begin
  <2>1. child \in {"none", "reaped"} /\ pipe = 0 /\ ~holding /\ left = 0
    BY <1>1 DEF Begin, TypeOK, InStep, Known, AfterRead, AfterWait
  <2>2. TypeOK'
    BY <1>1 DEF Begin, TypeOK
  <2>3. Conserved' /\ InStep'
    BY <1>1, <2>1 DEF Begin, TypeOK, Conserved, InStep, BeforeFork
  <2>4. Known' /\ Placed'
    BY <1>1 DEF Begin, Known, Placed, AfterRead, AfterWait
  <2> QED
    BY <2>2, <2>3, <2>4
<1>2. ASSUME Clone \/ Checkout \/ ChDir \/ Find \/ Pipe2
      PROVE  Inv'
  <2> USE <1>2 DEF Clone, Checkout, libgit_checkout, ChDir, Find, Pipe2, Succeed, GiveUp, Refuse, Fine, Fail
  <2>1. TypeOK'
    <3>1. UNCHANGED <<run, ec, size, alloc, pipe, childVars>>
      OBVIOUS
    <3>2. pc' \in {"checkout", "chdir", "find", "pipe", "fork", "chdir_back", "rm", "done"}
      OBVIOUS
    <3>3. ret' \in {0, -1} /\ failures' \in Nat
      BY DEF TypeOK
    <3>4. dirs' \subseteq Nat /\ cwd' \in Nat /\ oldpwd' \in Nat
      BY DEF TypeOK
    <3>5. rd' \in BOOLEAN /\ wr' \in BOOLEAN
      BY DEF TypeOK
    <3> QED
      BY <3>1, <3>2, <3>3, <3>4, <3>5 DEF TypeOK, childVars
  <2>2. Conserved'
    BY DEF Conserved, childVars
  <2>3. InStep'
    BY DEF InStep, BeforeFork, childVars
  <2>4. Known'
    BY DEF Known, InStep, BeforeFork, AfterRead, AfterWait, childVars
  <2>5. Placed'
    BY DEF Placed, childVars
  <2> QED
    BY <2>1, <2>2, <2>3, <2>4, <2>5
<1> QED
  BY <1>1, <1>2

\* The start of a script.
LEMMA ForkKeeps ==
    ASSUME Inv, Fork \/ CloseWriteEnd
    PROVE  Inv'
<1> USE NumbersAssumption DEF Inv
<1>1. CASE Fork
  <2> USE <1>1 DEF Fork, Fine, Fail
  <2>1. TypeOK'
    <3>1. pc' \in {"parent", "close"} /\ child' \in {"none", "running", "zombie", "reaped"}
      BY DEF TypeOK
    <3>2. left' \in 0 .. MaxOutput /\ failures' \in Nat
      BY DEF TypeOK
    <3>3. holding' \in BOOLEAN
      BY DEF TypeOK
    <3>4. UNCHANGED <<run, ret, ec, size, alloc, dirs, cwd, oldpwd, pipe, rd, wr, background, written, status>>
      OBVIOUS
    <3> QED
      BY <3>1, <3>2, <3>3, <3>4 DEF TypeOK
  <2>2. Conserved' /\ InStep'
    BY DEF TypeOK, Conserved, InStep, BeforeFork
  <2>3. Known' /\ Placed'
    BY DEF Known, InStep, Placed, BeforeFork, AfterRead, AfterWait
  <2> QED
    BY <2>1, <2>2, <2>3
<1>2. CASE CloseWriteEnd
  <2> USE <1>2 DEF CloseWriteEnd, childVars
  <2>1. TypeOK'
    BY DEF TypeOK
  <2>2. Conserved' /\ InStep'
    BY DEF Conserved, InStep, BeforeFork
  <2>3. Known' /\ Placed'
    BY DEF Known, Placed, AfterRead, AfterWait
  <2> QED
    BY <2>1, <2>2, <2>3
<1> QED
  BY <1>1, <1>2

\* file_read: the buffer never fills up, so the end of the file is the end of
\* the script's output.
LEMMA ReadKeeps ==
    ASSUME Inv, Read
    PROVE  Inv'
<1> USE NumbersAssumption DEF Inv
<1>1. pc = "read" /\ UNCHANGED <<run, ec, dirs, cwd, oldpwd, rd, wr, childVars>>
  BY DEF Read, Succeed, GiveUp
<1>2. room > 0 /\ alloc \in Nat /\ size \in Nat /\ pipe \in Nat
  BY DEF room, Conserved, TypeOK
<1>3. ASSUME NEW n \in 1 .. pipe, n <= room, pipe' = pipe - n, size' = size + n, alloc' = grown(size + n),
             UNCHANGED <<pc, ret, failures>>
      PROVE  Inv'
  <2>1. alloc' \in Nat /\ size' < alloc' /\ size' \in Nat
    BY <1>2, <1>3 DEF room, grown
  <2>2. TypeOK'
    BY <1>1, <1>2, <1>3, <2>1 DEF TypeOK, childVars
  <2>3. Conserved' /\ InStep'
    BY <1>1, <1>2, <1>3, <2>1 DEF Conserved, InStep, BeforeFork, childVars
  <2>4. Known' /\ Placed'
    BY <1>1, <1>3 DEF Known, Placed, AfterRead, AfterWait, childVars
  <2> QED
    BY <2>2, <2>3, <2>4
<1>4. ASSUME Succeed("read", "wait"), pipe = 0, ~holding, UNCHANGED <<pipe, size, alloc>>
      PROVE  Inv'
  <2> USE <1>1, <1>4 DEF Succeed, Fine, childVars
  <2>1. TypeOK'
    BY DEF TypeOK
  <2>2. Conserved' /\ InStep'
    BY DEF Conserved, InStep, BeforeFork
  <2>3. Known' /\ Placed'
    BY DEF Known, Placed, AfterRead, AfterWait
  <2> QED
    BY <2>1, <2>2, <2>3
<1>5. ASSUME GiveUp("read", "close"), UNCHANGED <<pipe, size, alloc>>
      PROVE  Inv'
  <2> USE <1>1, <1>5 DEF GiveUp, Fail, childVars
  <2>1. TypeOK'
    BY DEF TypeOK
  <2>2. Conserved' /\ InStep'
    BY DEF Conserved, InStep, BeforeFork
  <2>3. Known' /\ Placed'
    BY DEF Known, Placed
  <2> QED
    BY <2>1, <2>2, <2>3
<1> QED
  BY <1>2, <1>3, <1>4, <1>5 DEF Read

\* From the end of the output to the next run.
LEMMA AfterwardsKeeps ==
    ASSUME Inv, Wait \/ ClosePipe \/ ChDirBack \/ RmRf \/ Return
    PROVE  Inv'
<1> USE NumbersAssumption DEF Inv
<1>1. CASE Wait
  <2>1. ec' \in Int
    BY <1>1, ExitCodeInt DEF Wait, TypeOK
  <2> USE <1>1 DEF Wait, Succeed, GiveUp, Fine, Fail
  <2>2. TypeOK'
    BY <2>1 DEF TypeOK
  <2>3. Conserved' /\ InStep'
    BY DEF Conserved, InStep, BeforeFork
  <2>4. Known'
    BY DEF Known, InStep, AfterRead, AfterWait, ExitCode
  <2>5. Placed'
    BY DEF Placed
  <2> QED
    BY <2>2, <2>3, <2>4, <2>5
<1>2. ASSUME ClosePipe \/ ChDirBack \/ RmRf \/ Return
      PROVE  Inv'
  <2> USE <1>2 DEF ClosePipe, ChDirBack, RmRf, Return, Fine, Fail, childVars
  <2>1. TypeOK'
    <3>1. pc' \in {"chdir_back", "rm", "done", "exited", "idle"}
      OBVIOUS
    <3>2. dirs' \subseteq Nat /\ cwd' \in Nat
      BY DEF TypeOK
    <3>3. failures' \in Nat
      BY DEF TypeOK
    <3>4. rd' \in BOOLEAN /\ wr' \in BOOLEAN
      BY DEF TypeOK
    <3>5. UNCHANGED <<run, ret, ec, size, alloc, oldpwd, pipe, childVars>>
      OBVIOUS
    <3> QED
      BY <3>1, <3>2, <3>3, <3>4, <3>5 DEF TypeOK
  <2>2. Conserved'
    BY DEF Conserved
  <2>3. InStep'
    BY DEF InStep, BeforeFork, TypeOK
  <2>4. Known' /\ Placed'
    BY DEF Known, Placed, AfterRead, AfterWait, ExitCode, TypeOK
  <2> QED
    BY <2>1, <2>2, <2>3, <2>4
<1> QED
  BY <1>1, <1>2

\* What the script does, and what it leaves running.
LEMMA ScriptKeeps ==
    ASSUME Inv, Write \/ ScriptExits \/ ScriptKilled \/ ScriptLetsGo \/ BackgroundEnds
    PROVE  Inv'
<1> USE NumbersAssumption DEF Inv
<1>1. CASE Write
  <2> USE <1>1 DEF Write, workerVars
  <2>1. TypeOK'
    BY DEF TypeOK, Conserved
  <2>2. Conserved' /\ InStep'
    BY DEF TypeOK, Conserved, InStep, BeforeFork
  <2>3. Known' /\ Placed'
    BY DEF Known, Placed, AfterRead, AfterWait
  <2> QED
    BY <2>1, <2>2, <2>3
<1>2. ASSUME NEW how \in Status, child = "running", End(how)
      PROVE  Inv'
  <2> USE <1>2 DEF End, workerVars
  <2>1. TypeOK'
    <3>1. child' = "zombie" /\ status' \in Status /\ left' \in 0 .. MaxOutput
      BY DEF TypeOK
    <3>2. holding' \in BOOLEAN
      OBVIOUS
    <3>3. UNCHANGED <<workerVars, pipe, rd, wr, background, written, failures>>
      OBVIOUS
    <3> QED
      BY <3>1, <3>2, <3>3 DEF TypeOK
  <2>2. Conserved' /\ InStep'
    BY DEF TypeOK, Conserved, InStep, BeforeFork
  <2>3. Known' /\ Placed'
    BY DEF Known, Placed, AfterRead, AfterWait
  <2> QED
    BY <2>1, <2>2, <2>3
<1>3. CASE ScriptExits
  BY <1>2, <1>3 DEF ScriptExits, Status
<1>4. CASE ScriptKilled
  BY <1>2, <1>4 DEF ScriptKilled, Status
<1>5. CASE ScriptLetsGo \/ BackgroundEnds
  <2> USE <1>5 DEF ScriptLetsGo, BackgroundEnds, workerVars
  <2>1. TypeOK'
    <3>1. holding' \in BOOLEAN /\ background' \in BOOLEAN
      BY DEF TypeOK
    <3>2. left' \in 0 .. MaxOutput
      BY DEF TypeOK
    <3>3. UNCHANGED <<workerVars, pipe, rd, wr, child, written, status, failures>>
      OBVIOUS
    <3> QED
      BY <3>1, <3>2, <3>3 DEF TypeOK
  <2>2. Conserved' /\ InStep'
    BY DEF TypeOK, Conserved, InStep, BeforeFork
  <2>3. Known' /\ Placed'
    BY DEF Known, Placed, AfterRead, AfterWait, ExitCode
  <2> QED
    BY <2>1, <2>2, <2>3
<1> QED
  BY <1>1, <1>3, <1>4, <1>5

LEMMA InvStep == Inv /\ [Next]_vars => Inv'
<1>1. CASE UNCHANGED vars
  BY <1>1
  DEF vars, workerVars, childVars, Inv, TypeOK, Conserved, InStep, Known, Placed, ExitCode
<1> QED
  BY <1>1, BeginKeeps, ForkKeeps, ReadKeeps, AfterwardsKeeps, ScriptKeeps DEF Next, WorkerStep

-----------------------------------------------------------------------------
(* What is left behind *)

\* The worker's ends of the pipe are open between pipe2 and close.
Ends ==
    /\ rd => pc \in {"fork", "parent", "read", "wait", "close"}
    /\ wr => pc \in {"fork", "parent", "close"}

\* Without a failed call, a run is given up only before it has a script, there
\* is a directory only during a run, and the worker goes back where it was.
Quiet ==
    failures = 0 =>
        /\ ret = -1 => child = "none"
        /\ dirs = IF pc \in {"idle", "clone", "done", "exited"} THEN {} ELSE {run}
        /\ pc \in {"idle", "clone", "done", "exited", "checkout", "chdir", "rm"} => cwd = 0
        /\ pc \in {"find", "pipe", "fork", "parent", "read", "wait", "close", "chdir_back"} =>
               oldpwd = 0

Tidy == Ends /\ Quiet

LEMMA TidyInit == Init => Tidy
  BY DEF Init, Tidy, Ends, Quiet

LEMMA SetupTidy ==
    ASSUME Inv, Tidy, Begin \/ Clone \/ Checkout \/ ChDir \/ Find \/ Pipe2 \/ Fork
    PROVE  Tidy'
<1> USE DEF Tidy
<1>0. failures \in Nat /\ (failures' = 0 => failures = 0)
  BY DEF Inv, TypeOK, Begin, Clone, Checkout, libgit_checkout, ChDir, Find, Pipe2, Fork,
         Succeed, GiveUp, Refuse, Fine, Fail
<1>1. Ends'
  BY DEF Ends, Begin, Clone, Checkout, libgit_checkout, ChDir, Find, Pipe2, Fork,
         Succeed, GiveUp, Refuse
<1>2. CASE Begin
  BY <1>1, <1>2 DEF Begin, Quiet
<1>3. CASE Clone
  BY <1>0, <1>1, <1>3 DEF Clone, Succeed, GiveUp, Fail, Fine, Quiet, childVars
<1>4. CASE Checkout
  BY <1>0, <1>1, <1>4
  DEF Checkout, libgit_checkout, Succeed, Refuse, Fine, Quiet, childVars, Inv, InStep, BeforeFork
<1>5. CASE ChDir
  BY <1>0, <1>1, <1>5
  DEF ChDir, Succeed, GiveUp, Refuse, Fail, Fine, Quiet, childVars, Inv, InStep, BeforeFork
<1>6. CASE Find \/ Pipe2
  BY <1>0, <1>1, <1>6
  DEF Find, Pipe2, Succeed, GiveUp, Refuse, Fail, Fine, Quiet, childVars, Inv, InStep, BeforeFork
<1>7. CASE Fork
  BY <1>0, <1>1, <1>7 DEF Fork, Fail, Fine, Quiet, Inv, InStep, BeforeFork
<1> QED
  BY <1>2, <1>3, <1>4, <1>5, <1>6, <1>7

LEMMA TeardownTidy ==
    ASSUME Inv, Tidy, CloseWriteEnd \/ Read \/ Wait \/ ClosePipe \/ ChDirBack \/ RmRf \/ Return
    PROVE  Tidy'
<1> USE DEF Tidy
<1>0. failures \in Nat /\ (failures' = 0 => failures = 0)
  BY DEF Inv, TypeOK, CloseWriteEnd, Read, Wait, ClosePipe, ChDirBack, RmRf, Return,
         Succeed, GiveUp, Fine, Fail
<1>1. Ends'
  BY DEF Ends, CloseWriteEnd, Read, Wait, ClosePipe, ChDirBack, RmRf, Return, Succeed, GiveUp
<1>2. CASE CloseWriteEnd
  BY <1>1, <1>2 DEF CloseWriteEnd, Quiet, childVars
<1>3. CASE Read \/ Wait
  BY <1>0, <1>1, <1>3 DEF Read, Wait, Succeed, GiveUp, Fail, Fine, Quiet, childVars, Inv, InStep
<1>4. CASE ClosePipe \/ ChDirBack
  BY <1>0, <1>1, <1>4 DEF ClosePipe, ChDirBack, Fail, Fine, Quiet, childVars
<1>5. CASE RmRf \/ Return
  BY <1>0, <1>1, <1>5 DEF RmRf, Return, Fail, Fine, Quiet, childVars
<1> QED
  BY <1>2, <1>3, <1>4, <1>5

LEMMA TidyStep == Inv /\ Tidy /\ [Next]_vars => Tidy'
<1> SUFFICES ASSUME Inv, Tidy, [Next]_vars PROVE Tidy'
  OBVIOUS
<1>1. CASE Write \/ ScriptExits \/ ScriptKilled \/ ScriptLetsGo \/ BackgroundEnds
  <2>1. UNCHANGED <<workerVars, rd, wr, failures>>
    BY <1>1 DEF Write, ScriptExits, ScriptKilled, End, ScriptLetsGo, BackgroundEnds
  <2>2. child = "none" => child' = "none"
    BY <1>1 DEF Write, ScriptExits, ScriptKilled, End, ScriptLetsGo, BackgroundEnds
  <2> QED
    BY <2>1, <2>2 DEF Tidy, Ends, Quiet, workerVars
<1>2. CASE UNCHANGED vars
  BY <1>2 DEF Tidy, Ends, Quiet, vars, workerVars, childVars
<1> QED
  BY <1>1, <1>2, SetupTidy, TeardownTidy DEF Next, WorkerStep

-----------------------------------------------------------------------------
(* Who waits for whom *)

\* The guards of the worker, of a script and of what it left running, without
\* the failures of a call: the worker waits for output and for the script's
\* end, the script for room in the pipe.
WorkerCanGo ==
    \/ pc \in BeforeFork \union {"parent", "close", "chdir_back", "rm", "done"}
    \/ pc = "read" /\ (room = 0 \/ pipe > 0 \/ (~wr /\ ~holding /\ ~background))
    \/ pc = "wait" /\ child = "zombie"

ScriptCanGo ==
    /\ child = "running"
    /\ \/ left > 0 /\ holding /\ rd /\ pipe < PipeSize
       \/ left = 0 /\ ExitStatuses # {}

BackgroundCanGo == background

\* A script that has something to write holds the pipe, whose other end is
\* open as long as the worker wants to know.  Without a script, there is no
\* result, unless a call failed.
Attended ==
    /\ left > 0 => holding
    /\ pc \in {"fork", "parent", "read", "wait"} => rd
    /\ child = "none" => ec = 0
    /\ child = "none" /\ ret = 0 /\ pc \in {"close", "chdir_back", "rm", "done"} => failures > 0

LEMMA AttendedInit == Init => Attended
  BY DEF Init, Attended

LEMMA WorkerAttends == ASSUME Inv, Attended, WorkerStep PROVE Attended'
<1> USE DEF Inv
<1>0. failures \in Nat /\ failures' \in Nat /\ (failures > 0 => failures' > 0)
  BY DEF TypeOK, WorkerStep, Begin, Clone, Checkout, libgit_checkout, ChDir, Find, Pipe2, Fork,
         CloseWriteEnd, Read, Wait, ClosePipe, ChDirBack, RmRf, Return,
         Succeed, GiveUp, Refuse, Fine, Fail
<1>1. CASE Begin
  BY <1>1 DEF Begin, Attended
<1>2. CASE Clone \/ Checkout \/ ChDir \/ Find
  BY <1>0, <1>2
  DEF Clone, Checkout, libgit_checkout, ChDir, Find, Succeed, GiveUp, Refuse, Attended, childVars
<1>3. CASE Pipe2
  BY <1>0, <1>3 DEF Pipe2, Succeed, GiveUp, Attended, childVars
<1>4. CASE Fork
  BY <1>0, <1>4 DEF Fork, Fine, Fail, Attended, TypeOK
<1>5. CASE CloseWriteEnd \/ Read
  BY <1>0, <1>5 DEF CloseWriteEnd, Read, Succeed, GiveUp, Attended, childVars, InStep
<1>6. CASE Wait
  BY <1>0, <1>6 DEF Wait, Succeed, GiveUp, Attended, InStep
<1>7. CASE ClosePipe \/ ChDirBack \/ RmRf \/ Return
  BY <1>0, <1>7 DEF ClosePipe, ChDirBack, RmRf, Return, Attended, childVars
<1> QED
  BY <1>1, <1>2, <1>3, <1>4, <1>5, <1>6, <1>7 DEF WorkerStep

LEMMA AttendedStep == Inv /\ Attended /\ [Next]_vars => Attended'
<1> SUFFICES ASSUME Inv, Attended, [Next]_vars PROVE Attended'
  OBVIOUS
<1>1. CASE Write \/ ScriptExits \/ ScriptKilled \/ ScriptLetsGo \/ BackgroundEnds
  <2>1. UNCHANGED <<workerVars, rd, failures>>
    BY <1>1 DEF Write, ScriptExits, ScriptKilled, End, ScriptLetsGo, BackgroundEnds
  <2>2. child' = "none" => child = "none"
    BY <1>1 DEF Write, ScriptExits, ScriptKilled, End, ScriptLetsGo, BackgroundEnds
  <2>3. left' > 0 => holding'
    BY <1>1 DEF Write, ScriptExits, ScriptKilled, End, ScriptLetsGo, BackgroundEnds,
                Attended, Inv, TypeOK
  <2> QED
    BY <2>1, <2>2, <2>3 DEF Attended, workerVars
<1>2. CASE UNCHANGED vars
  BY <1>2 DEF Attended, vars, workerVars, childVars
<1> QED
  BY <1>1, <1>2, WorkerAttends DEF Next

\* A script that is running either can write what is left, or can end.
LEMMA ScriptGoes ==
    ASSUME Inv, Attended, child = "running", rd, pipe = 0
    PROVE  ScriptCanGo
<1>1. left \in Nat /\ (left > 0 => holding)
  BY NumbersAssumption DEF Inv, TypeOK, Attended
<1>2. PipeSize > 0
  BY NumbersAssumption
<1> QED
  BY <1>1, <1>2, ScriptsExitAssumption DEF ScriptCanGo

LEMMA SomebodyGoes ==
    ASSUME Inv, Tidy, Attended, pc \notin {"idle", "exited"}
    PROVE  WorkerCanGo \/ ScriptCanGo \/ BackgroundCanGo
<1> USE DEF Inv
<1>1. CASE pc = "read"
  <2>1. rd /\ ~wr /\ child \in {"running", "zombie"} /\ (child = "zombie" => ~holding)
    BY <1>1 DEF Attended, Tidy, Ends, InStep, TypeOK
  <2>2. CASE pipe = 0 /\ child = "running"
    BY <2>1, <2>2, ScriptGoes
  <2>3. CASE pipe = 0 /\ child = "zombie"
    BY <1>1, <2>1, <2>3 DEF WorkerCanGo, BackgroundCanGo
  <2>4. CASE pipe # 0
    BY <1>1, <2>4, NumbersAssumption DEF WorkerCanGo, TypeOK
  <2> QED
    BY <2>1, <2>2, <2>3, <2>4
<1>2. CASE pc = "wait"
  <2>1. rd /\ pipe = 0 /\ child \in {"running", "zombie"}
    BY <1>2 DEF Attended, InStep, Known, AfterRead, TypeOK
  <2> QED
    BY <1>2, <2>1, ScriptGoes DEF WorkerCanGo
<1> QED
  BY <1>1, <1>2 DEF WorkerCanGo, BeforeFork, TypeOK

-----------------------------------------------------------------------------
(* How much of a run is left *)

\* The calls the worker has before it, however they turn out.
CallsLeft ==
    CASE pc = "clone" -> 13 [] pc = "checkout" -> 12 [] pc = "chdir" -> 11 [] pc = "find" -> 10
      [] pc = "pipe" -> 9 [] pc = "fork" -> 8 [] pc = "parent" -> 7 [] pc = "read" -> 6
      [] pc = "wait" -> 5 [] pc = "close" -> 4 [] pc = "chdir_back" -> 3 [] pc = "rm" -> 2
      [] pc = "done" -> 1 [] OTHER -> 0

\* What the script has to do, and the worker to read: a byte is written, then
\* read.
WorkLeft == 2 * left + pipe + IF child = "running" THEN 1 ELSE 0

Shorter == CallsLeft' < CallsLeft \/ (CallsLeft' = CallsLeft /\ WorkLeft' < WorkLeft)

LEMMA MeasureTyped == Inv => CallsLeft \in Nat /\ WorkLeft \in Nat
<1> SUFFICES ASSUME Inv PROVE CallsLeft \in Nat /\ WorkLeft \in Nat
  OBVIOUS
<1>1. CallsLeft \in Nat
  BY DEF CallsLeft
<1>2. left \in Nat /\ pipe \in Nat
  BY NumbersAssumption DEF Inv, TypeOK
<1> QED
  BY <1>1, <1>2 DEF WorkLeft

LEMMA WorkerShortens == ASSUME Inv, WorkerStep, ~Begin PROVE Shorter
<1>1. CASE Clone \/ Checkout \/ ChDir \/ Find \/ Pipe2
  BY <1>1 DEF Clone, Checkout, libgit_checkout, ChDir, Find, Pipe2, Succeed, GiveUp, Refuse,
              Shorter, CallsLeft
<1>2. CASE Fork \/ CloseWriteEnd
  BY <1>2 DEF Fork, CloseWriteEnd, Shorter, CallsLeft
<1>3. CASE Read
  <2>1. ASSUME NEW n \in 1 .. pipe, pipe' = pipe - n, UNCHANGED <<pc, childVars>>
        PROVE  Shorter
    <3>1. CallsLeft' = CallsLeft
      BY <2>1 DEF CallsLeft
    <3>2. left \in Nat /\ pipe \in Nat /\ UNCHANGED <<left, child>>
      BY <2>1, NumbersAssumption DEF Inv, TypeOK, childVars
    <3>3. WorkLeft' < WorkLeft
      BY <2>1, <3>2 DEF WorkLeft
    <3> QED
      BY <3>1, <3>3 DEF Shorter
  <2>2. CASE Succeed("read", "wait") \/ GiveUp("read", "close")
    BY <2>2 DEF Succeed, GiveUp, Shorter, CallsLeft
  <2> QED
    BY <1>3, <2>1, <2>2 DEF Read
<1>4. CASE Wait \/ ClosePipe \/ ChDirBack \/ RmRf \/ Return
  BY <1>4 DEF Wait, ClosePipe, ChDirBack, RmRf, Return, Succeed, GiveUp, Shorter, CallsLeft
<1> QED
  BY <1>1, <1>2, <1>3, <1>4 DEF WorkerStep

LEMMA ScriptShortens ==
    ASSUME Inv, Write \/ ScriptExits \/ ScriptKilled
    PROVE  Shorter
<1>1. CallsLeft' = CallsLeft
  BY DEF Write, ScriptExits, ScriptKilled, End, workerVars, CallsLeft
<1>2. left \in Nat /\ pipe \in Nat
  BY NumbersAssumption DEF Inv, TypeOK
<1>3. CASE Write
  BY <1>1, <1>2, <1>3 DEF Write, Shorter, WorkLeft
<1>4. CASE ScriptExits \/ ScriptKilled
  BY <1>1, <1>2, <1>4 DEF ScriptExits, ScriptKilled, End, Shorter, WorkLeft
<1> QED
  BY <1>3, <1>4

LEMMA NeverLonger ==
    ASSUME Inv, ScriptLetsGo \/ BackgroundEnds
    PROVE  CallsLeft' = CallsLeft /\ WorkLeft' <= WorkLeft
<1>1. CallsLeft' = CallsLeft
  BY DEF ScriptLetsGo, BackgroundEnds, workerVars, CallsLeft
<1>2. left \in Nat /\ pipe \in Nat
  BY NumbersAssumption DEF Inv, TypeOK
<1> QED
  BY <1>1, <1>2 DEF ScriptLetsGo, BackgroundEnds, WorkLeft

-----------------------------------------------------------------------------
(* The theorems *)

THEOREM Invariance == Spec => []Inv
  BY InvInit, InvStep, PTL DEF Spec

\* TypeOK: in particular, file_read's buffer is never overrun.
THEOREM Typing == Spec => []TypeOK
<1>1. Inv => TypeOK
  BY DEF Inv
<1> QED
  BY <1>1, Invariance, PTL

\* ResultIsScripts (process_execute_and_capture): a run that succeeds with a
\* script returns the exit code the script ended with and all of its output.
THEOREM ResultsAreScripts == Spec => []ResultIsScripts
<1>1. Inv => ResultIsScripts
  <2> SUFFICES ASSUME Inv, pc = "done", ret = 0, child # "none"
               PROVE  /\ child = "reaped"
                      /\ status.how = "exited" => ec \in 0 .. 255 /\ (status.n - ec) % 256 = 0
                      /\ status.how = "killed" => ec = -status.n
                      /\ size = written
    BY DEF ResultIsScripts
  <2>1. child = "reaped" /\ ec = ExitCode(status) /\ pipe = 0
    BY DEF Inv, Known, AfterRead, AfterWait
  <2>2. size = written
    BY <2>1 DEF Inv, Conserved, TypeOK
  <2>3. status.n \in Nat
    BY DEF Inv, TypeOK, Status
  <2>4. status.how = "exited" => ec \in 0 .. 255 /\ (status.n - ec) % 256 = 0
    BY <2>1, <2>3 DEF ExitCode
  <2>5. status.how = "killed" => ec = -status.n
    BY <2>1 DEF ExitCode
  <2> QED
    BY <2>1, <2>2, <2>4, <2>5
<1> QED
  BY <1>1, Invariance, PTL

\* ScriptHasDirectory (ci_run_git_repo): unless the run was given up, a script
\* that is running runs in the directory of its repository, which exists.
THEOREM DirectoryStays == Spec => []ScriptHasDirectory
<1>1. Inv => ScriptHasDirectory
  BY DEF Inv, TypeOK, InStep, Known, Placed, BeforeFork, AfterRead, AfterWait, ScriptHasDirectory
<1> QED
  BY <1>1, Invariance, PTL

\* NothingLeft (ci_run_git_repo, process_execute_and_capture): whatever failed,
\* both ends of the pipe are closed after a run; if nothing did, no directory
\* and no unread output is left, and the worker is where it was.
THEOREM RunsLeaveNothing == Spec => []NothingLeft
<1>1. Init => Inv /\ Tidy
  BY InvInit, TidyInit
<1>2. Inv /\ Tidy /\ [Next]_vars => (Inv /\ Tidy)'
  BY InvStep, TidyStep
<1>3. Inv /\ Tidy => NothingLeft
  BY DEF NothingLeft, Inv, TypeOK, InStep, Known, Tidy, Ends, Quiet, AfterRead
<1> QED
  BY <1>1, <1>2, <1>3, PTL DEF Spec

LEMMA Attendance == Spec => [](Inv /\ Tidy /\ Attended)
<1>1. Init => Inv /\ Tidy /\ Attended
  BY InvInit, TidyInit, AttendedInit
<1>2. Inv /\ Tidy /\ Attended /\ [Next]_vars => (Inv /\ Tidy /\ Attended)'
  BY InvStep, TidyStep, AttendedStep
<1> QED
  BY <1>1, <1>2, PTL DEF Spec

\* The worker and its script never wait for each other (process.c reads the
\* output before it waits, and grows the buffer before it reads): in the
\* middle of a run the worker can go on, or its script or what that left
\* running can, without any call failing and nobody being killed.
THEOREM NeverStuck ==
    Spec => [](pc \notin {"idle", "exited"} => WorkerCanGo \/ ScriptCanGo \/ BackgroundCanGo)
<1>1. Inv /\ Tidy /\ Attended =>
          (pc \notin {"idle", "exited"} => WorkerCanGo \/ ScriptCanGo \/ BackgroundCanGo)
  BY SomebodyGoes
<1> QED
  BY <1>1, Attendance, PTL

\* ValidResult, process.h's contract, fails only after a call has failed, and
\* only for a script that never started (process.c:111): what is returned then
\* is an exit code of 0 and no output.
THEOREM OnlyForkInventsResults ==
    Spec => [](~ValidResult => failures > 0 /\ child = "none" /\ ec = 0 /\ size = 0)
<1>1. Inv /\ Tidy /\ Attended =>
          (~ValidResult => failures > 0 /\ child = "none" /\ ec = 0 /\ size = 0)
  BY DEF ValidResult, Inv, TypeOK, InStep, Known, Attended, AfterWait
<1> QED
  BY <1>1, Attendance, PTL

\* RunEnds rests on this and on NeverStuck (ci_run_git_repo, file_read): every
\* step of the worker in a run, and of its script, leaves less of the run to
\* do, failures and signals included; what the script does with its output does
\* not bring any of it back.  The two measures are natural numbers.
THEOREM RunsShorten ==
    /\ Spec => [](CallsLeft \in Nat /\ WorkLeft \in Nat)
    /\ Spec => [][ \/ Begin
                   \/ Shorter
                   \/ (ScriptLetsGo \/ BackgroundEnds) /\ CallsLeft' = CallsLeft /\ WorkLeft' <= WorkLeft
                 ]_vars
<1>1. Inv /\ [Next]_vars =>
          [ \/ Begin
            \/ Shorter
            \/ (ScriptLetsGo \/ BackgroundEnds) /\ CallsLeft' = CallsLeft /\ WorkLeft' <= WorkLeft ]_vars
  BY WorkerShortens, ScriptShortens, NeverLonger DEF Next
<1>2. Spec => [](CallsLeft \in Nat /\ WorkLeft \in Nat)
  BY MeasureTyped, Invariance, PTL
<1> QED
  BY <1>1, <1>2, Invariance, PTL DEF Spec

=============================================================================
