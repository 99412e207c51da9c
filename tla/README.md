# A verification of Cimple

Cimple is a small continuous-integration system in C.  A *server* keeps CI runs
in SQLite and a queue of those to be executed; *workers* wait for a run, clone
the repository, execute its CI script and report the exit code; a *client*
queues runs and lists them.  This directory holds TLA+ specifications of it, the
TLC configurations that check them, and proofs for TLAPS.  Source paths below
are relative to the repository's `src/` directory.

    tlc  -workers 2 -config MCCimple_safety.cfg MCCimple.tla
    tlc  -workers 2 -config MCCIRun_safety.cfg CIRun.tla
    tlc  -workers 2 -config MCExchange.cfg MCExchange.tla
    tlapm CimpleProofs.tla
    tlapm ExchangeProofs.tla

and likewise for the other `MC*.cfg` (section 3), `*Proofs.tla` and `*Refinement.tla` (section 4).

`PROJECT.json` lists components, runs, the source lines each definition stands
for, the hazards the properties are aimed at, and the theorems.

## 1. The system

### Processes and messages

| message | from -> to | answered | carried on |
|---|---|---|---|
| `queue-run` | client -> server | yes, the id of the run | a connection of its own |
| `get-runs` | client -> server | yes, all runs | a connection of its own |
| `new-worker` | worker -> server | no | a connection the server keeps |
| `start-run` | server -> worker | no | the `new-worker` connection, then closed |
| `finished-run` | worker -> server | no | a connection of its own |

Three of the five are notifications: their sender learns that `send` succeeded,
not that anybody read them.  Almost everything that is hard about Cimple follows
from that, from the absence of any timeout, and from the fact that only rows of
the database survive a process.

### Components

| component | state | operations | what makes it correct |
|---|---|---|---|
| server (`server.c`, `run_queue.c`, `worker_queue.c`) | run queue, worker queue, `stopping`, under `server_mtx`/`server_cv` | the handlers of the four messages it receives, assignment of the two heads, start, stop | a run is in one place; it is begun once; order is kept; nothing to do is slept through |
| TCP server (`tcp_server.c`) | list of clients, one thread and one eventfd each | accept, tell the event loop, join, tear down | every thread is joined before what it uses is freed; the loop never waits for a peer |
| event loop (`event_loop.c`) | list of descriptors with handlers | add, remove, one pass over `poll`'s result | pass and list stay in step while handlers change the list |
| worker (`worker.c`) | the run it was given, `stopping` | register, take a run, execute, report, stop | one run at a time; the exit code reported is that run's; it stops when told |
| client (`client.c`) | none | `queue-run`, `get-runs` | what it is told of its call is true |
| run storage (`storage*.c`, `sqlite/*.sql`) | rows of repositories and runs; prepared statements with a mutex each | create, finish, list, queue; schema upgrade | a finished row is final and true; a row is the one asked for; a half-done upgrade is undone |
| SQLite wrapper (`sqlite.c`) | one connection with its transaction | bind, step, reset, transaction | what was stepped is reset, and committed |
| messages and dispatch (`protocol.c`, `command.c`, `json_rpc.c`, `json.c`) | none | parse, check, find the handler, answer | exactly one answer to a request, none to a notification |
| framing (`net.c`, `buf.c`) | none | size-prefixed send and receive | a message arrives whole or not at all |
| CI runs (`ci.c`, `git.c`, `process.c`) | a temporary directory, a child | clone, checkout, choose the script, fork, read, wait | the exit code is the script's; the directory stays while it runs, then goes |
| signals (`signal.c`) | masks | signalfd; all signals blocked around the creation of threads | a SIGTERM is seen by the event loop only |
| the rest (`file.c`, `string.c`, `base64.c`, `log.c`, `cmd_line.c`) | none | wrappers, formatting | - |

### How they interact, and what is hard

* A connection is accepted by the listening thread and handed to a thread of its
  own.  That thread does the storage calls without `server_mtx`, takes it for the
  queue, and signals `server_cv`.  The main thread waits on `server_cv`, takes a
  run and a worker from their queues, and sends `start-run` while it holds
  `server_mtx`.
* The client thread's end is announced over an eventfd to the event loop, whose
  handler joins the thread from within a pass over the descriptors.
* SIGTERM is read by the event loop, which sets `stopping`; the listening thread
  then joins the main thread, and every client thread.
* A worker that stops, or is gone, stays in the worker queue until it is the head.
* A failed send puts the run back first; a send to a process that is gone usually
  does not fail.
* When the server starts it reads the runs it should queue from the database.
* All client threads share one database connection, hence one transaction: rows
  of one thread are committed, or rolled back, by a statement of another.
* A worker and its script run concurrently, with a pipe of limited size between
  them; what the script started may hold the pipe longer than the script.

## 2. The modules

| module | what it is |
|---|---|
| `RunLedger` | what Cimple promises about runs: recorded, attempted at most once, finished once with what the attempt produced, but for an id whose record was not kept |
| `Cimple` | the system at the grain of its messages: server, rows, workers, clients, connections |
| `CimpleProperties` | safety, action and liveness properties of `Cimple`; the instance of `RunLedger` it implements |
| `CimpleProofs` | theorems about `Cimple` and their proofs |
| `CimpleRefinement` | that `Cimple` implements `RunLedger`, with its proof |
| `CimpleLossProofs` | which steps of `Cimple` lose a run, and that none does without a failure |
| `ServerThreads` | one server process at the grain of its lock operations |
| `ServerThreadsProofs` | theorems about `ServerThreads` and their proofs |
| `NetFrame` | one message over a connection: its size, then its text, in parts |
| `Exchange` | calls of the server over connections of `NetFrame`: receive, check, handle, answer |
| `RemoteCall` | what a call promises its caller: executed at most once, and the truth or silence |
| `ExchangeProofs` | theorems about `Exchange`, and that it implements `RemoteCall` |
| `CIRun` | a worker executing runs: clone, script, pipe, clean-up, call by call |
| `CIRunProofs` | theorems about `CIRun` and their proofs |
| `Storage` | the database of the server: upgrade, shared statements, the connection's transaction |
| `StorageProofs` | theorems about `Storage` and their proofs |
| `RunStore` | what the storage promises its callers: a list of runs and its durable part |
| `StorageRefinement` | that `Storage` implements `RunStore`, with its proof |
| `MCCimple`, `MCServerThreads`, `MCStorage`, `MCExchange` | symmetry sets and messages for TLC |

### `Cimple`

*State.*  `db` is the table of runs, indexed by id (an `INTEGER PRIMARY KEY` of a
table from which no committed row is ever deleted), and the only variable
a crash leaves alone.  `srv` is the server process, with `"deaf"` for one whose event loop has ended although nobody asked it to.  `runQueue` and
`workerQueue` are the queues.  `backlog` holds requests of workers in connections
that nobody has accepted, `threads` those that a client thread is handling.  A
client is its program counter `cpc`, which also stands for the server thread
that handles it, and the id of its run.  A worker has a program counter, the
run in its socket (`inbox`), the run it executes (`wrun`), and a pending signal.  A
connection of a worker is the worker and a session number, so that a worker that
registers anew is not mistaken for its earlier self.  `attempts` and `outcomes` are
history: what workers did, heard of or not.  So is `unkept`: the ids that were given out for a row
that was rolled back.

*Actions.*  One per handler; a handler that enters two critical sections is two
actions (`InsertRun`, then `EnqueueRun`, are the halves of `server_enqueue_run`).
`server_assign_run` is one action because it holds `server_mtx` throughout.  Its
three disjuncts are: delivered, swallowed by the kernel for a worker that is gone,
and failed, where the run goes back first.  A `finished-run` is one action for its
one `UPDATE`.  What is not there is abstracted: repository, revision and output of
a run have no influence on the steps.

*The failed commit.*  `storage_sqlite_insert_run` has the id of its row from `RETURNING`, before the
row is committed by the reset of the statement, and `sqlite_reset` only logs an error
(`sqlite.c:113`).  So there are two ways to fail: one that is noticed, after which the client gets an
error, and one that is not, after which the id is queued and acknowledged like any other, has no row, and is
the id of the next row too (`Inserts`).  Two workers may then begin a run with
one id, two clients may be told of it, and the report of the one run may overwrite the other's row; a report that
comes before the next row is made updates nothing.  The safety properties say so: what they promise they
promise of every id but those in `unkept`, and `RunLedger` has a step, `Misplace`, by
which an id gets there.  They still say that nothing else is touched: an id of `unkept` was given
out when its commit failed, and other runs are as safe as before.  A report that waits for that
commit and is lost with it (see `Storage`) is in `Cimple` a report that could not be stored.

*The query at start-up* is modelled by what it computes.  The view's `status` is
the label (`'created'`), the value bound is the number 1; SQLite compares a number
with a TEXT column by its digits, and no label is `'1'`.

*Failures* are spent from a budget, `MaxDisruptions`: a signal, a crash of server or
worker, a failing system call, a CI run that cannot be carried out.  What happens as
a consequence - the refused connection of a worker whose server is down - is free.

### `ServerThreads`

Three kinds of thread share `server_mtx`, `server_cv` and the event loop's list.
Each lock, unlock, signal, wait, join and eventfd write is an action; of the queues
only the lengths matter.  The pass of `event_loop_run` is modelled with the index
into the array `poll` filled and, apart from it, the element of the list that is
walked alongside.  `poll`, `accept` and `pthread_create` may fail, `MaxFailures`
times.  `MainSpurious` is the wake-up without a reason that POSIX allows.
A peer may send its request, hang up, or (`Silent`) do neither for ever.

Sends block as well as reads, when the kernel does not take the whole message: the response of
`command.c:189` (`cpc` is `"reply"`), and the `start-run` of `server.c:175`, which is sent with `server_mtx` held (`mpc` is
`"sending"`).  Whether a send blocks is left open; it is over when the peer has read enough or hung up
(`ThreadReply`, `MainSent`), which a silent peer need not do.

### `CIRun`

One action per call whose failure the code looks at.  `ret` is the value the functions
hand to one another - 0, or -1 once something has failed - and `pc` the next call,
so that a `goto` is the value `pc` takes.  The script is a child with what it has yet to
write and whether it holds the pipe; `background` stands for what it leaves running.
`Read` is `file_read`'s loop: it returns any part of what is in the pipe, and "end of file"
also when it is asked for no bytes, as `read` does.  `Cimple!WorkerRun` is the abstract
view: a run ends with an exit code or fails, and one that was never started may end with 0.

### `Storage`

`disk` is what is committed, `cur` what the connection sees.  A thread goes through the
statements of its call: lock, bind, step, reset, unlock.  A statement that is done when it is
stepped commits at once unless another is writing (`Done`); `INSERT ... RETURNING` has its row
first and ends with its reset (`active`).  A failed statement rolls back itself or the whole
transaction, at SQLite's choice.  What SQLite does is modelled for the default build, in
which each of its functions is atomic.  The upgrade executes one statement of `v01.sql` at a
time, each a transaction of its own, and may be killed after any of them.  A run that has finished has an
exit code, `ec`, which the one `UPDATE` sets together with the status.  A run that was returned is reported
once; when a failed commit has given its id to another run as well, both are reported under it, with different
exit codes (a bound: the same report twice would show nothing new).

`Cimple` inserts and commits a row, or fails to, in one step.  `Storage` shows what that leaves out: between
`RETURNING` and reset the row is visible to all and committed by nobody.  `get-runs` may then
show a run that is never committed, and a result that another thread stores in between is
committed only with that row, or lost with it.

`RunStore` is what is left when repository ids, statements, mutexes and schema are taken away:
one list of runs, its durable part `kept`, and what each caller asked for and was told.  A run
is durable before its caller has its id.  One that was finished is
durable unless another call's run has been inserted and not yet settled; then it waits for that one, and the end of the
process, or a failure, undoes both.  Once a call of the library has failed, a run may
have another call's repository: when what a failed commit takes back includes a row of
`cimple_repos` whose id its thread still carries, the id may be given to the next repository.
The refinement mapping reads the list off `cur` and `disk`, with urls for ids, and the callers
off the threads' program counters.

### `NetFrame` and `Exchange`

`NetFrame` has the loops of `net_send_all` and `net_recv`: a connection has two ends, and an
end is in one call (`io`), has sent `sent` bytes and read `taken`.  The kernel holds `Capacity`
bytes between the ends; a send or read moves any part of what is left.  The text is
abstracted to its length, the four bytes of its size are not: `size` is what the
receiver makes of the bytes it has when it stops reading, so that a read that stops early, or an
order of bytes that differs, shows.  A call fails out of a budget, `MaxFailures`, or for
free when the other end has closed.

`Exchange` puts a peer on one end and a client thread of the server on the other.  A message
is a JSON object abstracted to what `jsonrpc_request_from_json` and the handlers look at: its
version, the type of its `id`, its method, and whether `params` is complete.
`Dispatch` includes the default answers, which are made before the handler is called; a handler
returns `ret` and a `response`, and `ActualResponse` chooses among the three as
`cmd_dispatcher_handle_conn_internal` does.  Handlers share the table of runs.  `get-runs` is three
actions, since the statement that lists runs is stepped once for each row while other
threads write: `BeginList` takes the statement's mutex, `ListRow` reads one row,
`EndList` unlocks.  A `queue-run` whose commit fails unnoticed is queued and answered `ok` without a row
being made; `queue` therefore holds the calls whose runs were queued, not ids.  `OldRows` rows are there from earlier servers.  A worker's
`finished-run` names a run that has a row and that no other has named (`Reportable`): that no run is executed
twice is `Cimple!AtMostOnce`, and an id that two runs share is left to `Cimple`.

The grain differs from `Cimple`, where a call is received, handled and answered in up to four steps and
a failed answer is a failure of its own.  `RemoteCall` is the interface between the two: what
a client of `Cimple` assumes when it goes from `"sent"` to `"ok"` or `"failed"`.  A notification
is told nothing, like a caller left in silence.

Definitions with a suffix and the comment "Seeded fault" are mutations: no
specification uses them.  Each property of a passing run is shown to fail when
one of them replaces the definition it mutates.

## 3. What is checked

| run | bounds | question |
|---|---|---|
| `custody` (`MCCimple_safety`) | 2 workers, 2 clients, 2 exit codes, 2 server starts, 2 sessions, 1 failure; symmetry | is a run ever begun twice, held twice, lost by a handler, overtaken, or finished with a foreign result? Does the system implement `RunLedger`? |
| `recovery` (`MCCimple_recovery`) | 2 workers, 1 client, 2 server starts, 3 sessions, 2 failures | do queued runs leave the queue, stopping servers and signalled workers exit, in spite of failures? Is a request that reached the server answered and its run finished, unless something failed? |
| `threads` (`MCServerThreads_safety`) | 3 connections, 1 failed call; symmetry | lost wake-ups, the pass against the list, joins that could block, threads that outlive the server |
| `shutdown` (`MCServerThreads_live`) | 2 connections, no failed call | SIGTERM ends the process; threads are joined; pairs are assigned; no deadlock |
| `ci` (`MCCIRun_safety`) | 2 runs, 5 bytes through a pipe of 3 into a buffer of 2, exits 0, 1, 256, one signal, 2 failures | is the result the script's and complete, does the directory outlast the script, is anything left, does the run end? |
| `storage` (`MCStorage_safety`) | 2 threads, 2 repositories, 2 exit codes, 10 statements, 2 starts, 2 failures | are rows those asked for, do they refer to repositories that exist, is anything left uncommitted, is a partial schema ever served, do calls return? Does the database implement `RunStore`? |
| `exchange` (`MCExchange`) | 2 connections, 11 pairs of messages, texts of 1 byte, 2 bytes in the kernel and in a partial move, 1 old row, 1 failure | do messages arrive whole, is a caller told the truth, is a list of runs true, does every call end? Do connections and handlers implement `RemoteCall`? |
| `restart` | 1 worker, 2 clients, 1 failure | *violated*, see below |
| `silent_client` | 1 connection that stays silent | *violated*, see below |
| `deaf_server` | 1 connection, 1 failed call | *violated*, see below |
| `ci_fork` | 1 run, 1 failure | *violated*, see below |
| `storage_upgrade` | 1 start, no failed call | *violated*, see below |

*Why the bounds are enough.*  Two workers and two clients give every pair of
handlers that can interleave, two runs to confuse or overtake one another, and a
dead worker ahead of a live one.  Two starts give a restart with what the first
server left behind.  A session per registration: two let a worker
report and register again while its first connection is still queued.  One
failure meets every state of the two-by-two instance - a commit that fails for the first client lets the second
have its id - and two meet each other in the smaller ones.  Three connections are needed for a handler of `ServerThreads` to
append and unlink around a third entry in one pass.  Five bytes fill `CIRun`'s pipe and
double its buffer with output to come; two runs show what the first leaves to the second.
In `Storage`, `MaxRows = 1` stops threads from asking for a run once there is one: two are
inserted, by the two threads at the same time, and reported afterwards; after a failed commit a second
one may be asked for and get the id of the first.  A run that ends up with
another call's repository is beyond these bounds (it takes a third repository); the proof of `StoreRefinement`
covers it.  Two connections
of `Exchange` let one call write what the other is reading or listing; `MCInit` pairs
the messages that read or write runs with one another, and every other shape of
a message - an unknown method, an `id` of a wrong type, a notification where a
request is usual - with a `queue-run`, once per unordered pair.  The size takes four bytes and moves in twos, with
two in the kernel: a sender waits in the middle of the size, and a receiver reads half of it.  One
old row lets a list begin with something in it, and a report change it half-way.  The actions'
guards name every bound; nothing else is cut off.

*Deadlock* is checked in `ServerThreads`' fair runs, whose only final state is the
exit of the process.  It is not checked in the runs of `Cimple`: when the bounds
on starts and sessions are used up, the modelled processes stay down.  `threads`
turns it off for the state in which a failed event loop waits for the main
thread for ever, which `deaf_server` reports.  `CIRun`, `Storage` and `Exchange` come to rest when
their runs, starts and calls are used up; that a call does not rest half-way is `CallsEnd`.

*Fairness.*  `Cimple!Fairness`: weak fairness of each process's and thread's own
steps (they are scheduled, and none waits for another while its step is enabled),
of starting server and workers (`docker-compose.yml`: `restart: always`), and of
the end of a CI run (there is no time limit in the code: the scripts are assumed to
end).  No failure, no signal and no client invocation is ever owed.
`ServerThreads!Fairness`: weak fairness of the main thread and strong fairness of
client threads and listening thread.  Strong, because a main thread that is woken
over and over without a reason takes `server_mtx` each time and so disables the
others infinitely often; a mutex that never lets a waiter in again is not what the
code runs on.  Peers that are not in `Silent` get around to sending or hanging up, and to reading their
answer (`ThreadReply`) or hanging up; a `start-run` that blocks goes on (`MainSent`) unless there are silent peers, since
the counts of the queues do not tell whose it is.
`CIRun!Fairness`: the worker and its script are scheduled; a script ends, unless it is blocked
writing, and so does what it left in the background: the code has no time limit, and a
process that keeps the pipe open for ever does keep the worker for ever.
`Storage!Fairness`: weak fairness of each thread; no thread asks for a mutex without end
within the bounds.  `Exchange!Fairness`: weak fairness of what goes on on each connection, thread, peer
and network together; no peer has to connect, and no call to fail.

### What the violated runs show

* `restart`: `server_create` fills the run queue from `storage_get_run_queue`, whose
  query compares a label with a number (`storage_sqlite.c:201`, `:515`), so that a
  restarted server has an empty queue whatever the database holds.  The unfinished
  runs are never executed.  The same query, "repaired" to compare labels, would
  execute runs twice: nothing in a row tells a run that was given to a worker
  from one that was not.  That is the seeded fault `storage_get_run_queue_ByLabel`,
  and `AtMostOnce` and `FinishedIsFinal` are violated under it.
* `silent_client`: `client_destroy` joins the client's thread before it closes its
  connection (`tcp_server.c:91`), and the thread is blocked reading.  A peer that
  connects and says nothing keeps the server from exiting.  So does, by the same join, one that asks for
  something and does not read a long answer; and a worker that does not read a long `start-run` stops the main
  thread with `server_mtx` held.
* `deaf_server`: when the event loop fails, `server_destroy` joins a main thread that
  nobody has told to stop (`server.c:474`), and signals are no longer read.

* `ci_fork`: when `fork` fails, `process_execute_and_capture` returns what `pipe2` returned
  (`process.c:111`): 0.  The run is reported, and recorded, as finished with exit code 0 and
  without output, although nothing was executed.
* `storage_upgrade`: `sqlite_exec_as_transaction` builds `BEGIN; ... COMMIT;` and executes the
  script without them (`sqlite.c:251`).  An upgrade that is interrupted leaves part of the
  schema with `user_version` 0, and no later start succeeds.  `ServesWholeSchema` holds
  nevertheless: the database is then never served at all.

## 4. What is proved

`CimpleProofs` proves, for any sets of workers and clients, any exit codes and any
bounds (`ExitCodesAssumption`: exit codes are integers, 0 among them, which a failed `fork`
reports; `BoundsAssumption`: bounds are natural numbers):

| theorem | states |
|---|---|
| `Typing` | `Spec => []TypeOK` |
| `CustodyHolds` | `Spec => []Custody` |
| `NoRunTwice` | `Spec => []AtMostOnce` |
| `ResultsTrue` | `Spec => []FinishedTruthful` |
| `FinishedStays` | `Spec => FinishedIsFinal` |
| `Refinement` (`CimpleRefinement`) | `Spec => ImplementsLedger` |

*The argument.*  `AtMostOnce` is not inductive: a worker may begin the run in its
socket only if nobody has begun it, so a run in a socket must be unattempted and in
no other socket; so must a run in the queue, since it will be in a socket; so
must a run that a client's thread is about to enqueue; and the id of a new row must
be named by nothing yet, unless it is in `unkept`: whatever is named has a row, or is the one id whose
row was rolled back (`Known`).  These are `InboxCustody`, `QueueCustody`, `ClientCustody`
and `IdsExist`.  `FinishedTruthful` needs that a report on its way is about a real
outcome (`OutcomeCustody`), and that a worker which reports has produced it
(`WorkerCustody`).  That a run has one outcome only - which makes a finished row final
although the `UPDATE` looks at nothing - takes `AtMostOnce` again.  All of it is about ids
outside `unkept`, a set that only grows, and only by the id of the next row; for those inside it
`OutcomeCustody` still says that what is reported was produced by an execution under that id.  `Inv` is the
conjunction, and `TypeOK` with it.

*The proof* divides the steps in two.  Most of them, and all that lose
something, are steps after which nobody holds what he did not hold before
(`NothingGained`); one lemma shows that such a step preserves `Inv`.  The seven steps
by which a run changes hands have a lemma each.  `NothingRecovered` - the start-up
query finds no row - is what makes `ServerStart` a step of the first kind: the
proof of `NoRunTwice` rests on the very defect that `restart` shows.

*The refinement* takes a little more (`Owned`): a client's run is its own, and exit
codes are members of `ExitCodes`.  Of the steps of `Cimple`, `InsertRun` records, or misplaces when its commit fails,
`TakeRun` attempts, `WorkerRun` produces an outcome and `HandleFinishedRun` finishes;
all others, failures included, leave the ledger alone.

*What is lost.*  `CimpleLossProofs` proves the rest of the safety properties of `Cimple`:

| theorem | states |
|---|---|
| `OrderIsKept` | `Spec => QueueOrderKept` |
| `NoRunDropped` | `Spec => RunNotDropped` |
| `LossesAreFailures` | `Spec => []LossNeedsDisruption` |
| `LostStaysLost` | a recorded run that nobody holds is held by nobody ever after, and its row stays as it is |

`OrderIsKept` follows from what a step may do to the queue, and from a run being in it
once.  `NoRunDropped` needs that a worker which waits on a registered connection has no run in its
socket that a second one would overwrite: a connection is registered in one place, unread,
being handled or queued (`Registry`).  `LossesAreFailures` shows that none of the excuses of
`RunNotDropped` applies before the first failure: the server is not going down, nobody is
signalled, and whoever is registered still listens (`Untroubled`); so whoever holds a run
does not exit.  `LostStaysLost` closes the account: hands are changed among holders only, and the
start-up query recovers nothing, so that a lost run is lost for good, and harmless.

`StorageProofs` proves, for any threads, repositories, revisions, length of the script and
bounds (`NumbersAssumption`, and `NoneAssumption`: `None` is no thread, repository, revision or exit code):

| theorem | states |
|---|---|
| `Typing` | `Spec => []TypeOK` |
| `ReferencesHold` | `Spec => []RunsHaveRepos` |
| `CommitFollows` | `Spec => []NothingPends` |
| `SchemaWhole` | `Spec => []ServesWholeSchema` |
| `RowsAsAsked` | `Spec => []RowsAreAsAsked` |
| `ErrorsNeedFailure` | `Spec => []ErrorNeedsFailure`: a call returns an error only if a library call has failed |
| `StatementsAreExclusive` | one thread at a time executes a statement, and binds it only when it is not active |
| `NeverStuck` | a thread in a call can go on, or waits for a mutex whose holder can |
| `CallsShorten` | each step of a thread leaves fewer steps of its call; others add none |

`RunsHaveRepos` is about what the connection sees; since a rollback returns to what is
committed, both databases must be referential.  The type of a row depends on the
arguments stepped being those of the call, so `OwnsStatement` - between lock and unlock the
mutex of a statement and its bindings are one thread's - is part of the invariant
already for `Typing`.  `CommitFollows` adds that only a thread about to reset the insertion
of a run leaves something uncommitted (`PendingInv`), and needs `OwnsStatement` for there to
be one such thread.  `SchemaWhole` rests on `SchemaInv`: while the script runs, the statements
before the next one have been executed and the version is still 0.  The last two are about
behaviours in which nothing has failed (`AskedInv`): then what is committed is an earlier form of what the
connection sees, so that what a thread looked up in one statement still holds in its next.  For the
exit codes `RowsAsAsked` takes `ExitInv`: of one run, one report is on its way or has been stored, and the row holds it.  `NeverStuck` needs that the thread
a mutex names is inside that statement (`HeldInv`); since no thread has two mutexes, and between
lock and unlock there is nothing to wait for, there is no circle.

`StorageRefinement` proves, from the same assumptions:

| theorem | states |
|---|---|
| `StoreInvariance` | `Spec => []StoreInv` |
| `DurableIsFinal` | what is committed stays: no run is changed or removed, except that it becomes finished, and then it stays finished |
| `ReturnedIsDurable` | unless a call failed, a run is committed, as asked for, before its caller has its id |
| `StoreRefinement` | `Spec => ImplementsRunStore` |

`StoreInv` adds to the invariants of `StorageProofs` what the mapping needs: the connection's database is
later than the committed one (`Later`), whatever failed; an insertion in progress is one
thread's (`ActiveInv`); what was returned is committed (`DurableInv`); ids begin at 1 (`IdInv`), so that
no run is mistaken for the 0 of a call without one.  There is one lemma for each step of `RunStore` and the step of
`Storage` that takes it: `Call` asks, `StepRunInsert` inserts, its reset settles,
`StepRunFinished` finishes, unlocking returns.  Everything else - the two statements about
repositories, locks, bindings, upgrade - stutters, or refuses.

`CIRunProofs` proves, for any number of runs, amount of output, size of pipe and buffer, exit
codes and signals (`CIRun!NumbersAssumption`: numbers are natural, pipe and buffer not empty):

| theorem | states |
|---|---|
| `Typing` | `Spec => []TypeOK` |
| `ResultsAreScripts` | `Spec => []ResultIsScripts` |
| `DirectoryStays` | `Spec => []ScriptHasDirectory` |
| `RunsLeaveNothing` | `Spec => []NothingLeft` |
| `NeverStuck` | in the middle of a run, the worker, its script, or what that left running can go on |
| `OnlyForkInventsResults` | `ValidResult` fails only for a script that never started, after a failed call, with exit code 0 and no output |
| `RunsShorten` | every step of a run leaves less of it to do |

The invariant says that what was written is in the pipe or in the buffer, and that the buffer
has room (`Conserved`): `read` then returns 0 only at the end of the file, when nobody can
write any more (`Known`).  `InStep` relates the worker's next call to the state of its child,
and lets a run begin with an empty pipe although the last one may have failed to fork.
`RunsLeaveNothing` adds where the ends of the pipe may be open, whatever fails, and where the worker
and its directory are as long as nothing does (`Tidy`).  `NeverStuck` is about a pipe that is full and a
buffer that is full at the same time, and about a read whose pipe somebody else holds: a worker that waits has
somebody to wait for (`Attended`), and one that does not read has no child that could be blocked.
A script that is to exit needs a status to exit with (`ScriptsExitAssumption`).  `OnlyForkInventsResults` is the
complement of the finding `ci_fork`: it is the only way to a result that nobody produced.

`ServerThreadsProofs` proves, for any connections, silent or not, and any failures:

| theorem | states |
|---|---|
| `Typing` | `Spec => []TypeOK` |
| `Exclusion` | at most one thread is inside `server_mtx`, and it is its holder |
| `NoWakeupLost` | `Spec => []NoLostWakeup` |
| `PassInStep` | `Spec => []PassFollowsPoll` |
| `JoinsAreShort` | `Spec => []JoinIsShort` |
| `ThreadsEndFirst` | `Spec => []NoThreadOutlivesServer` |
| `NeverStuck` | if no thread can go on, the server is idle, has ended, is deaf, or waits for a peer that does not send or does not read |

The holder of the mutex determines the program counters (`MtxInv`), hence who may change what
the main thread has tested before it sleeps.  `PassInStep` needs that descriptors
are in the list once and which ones are (`ListInv`), and that what is left of the
pass runs along a part of the list (`PassInv`, `Follows`): an entry is removed only by its own
handler, and appended only behind the last.  `QueueInv` bounds the counts by what
threads have yet to hand over.  `NeverStuck` is what `StopExits` and `PairIsAssigned` need besides
fairness: that a thread which waits - for the mutex, the condition, another thread's end, or `poll` - waits
for one that can go on.  It takes that whoever has the mutex can go on, that what a thread tells by its eventfd
is in the list until it is joined, and that the listening thread sleeps in `poll` only with
nothing to read (`WaitInv`), and that a `start-run` is being sent only while there is a pair (`PairInv`).  Apart from a server that is idle or has
ended, it lists the following waits, and proves that the model has no other: the
listening thread joins a main thread that was not told to stop (`Deaf`, the finding `deaf_server`); at shutdown it
joins a client thread whose peer has sent nothing (the finding `silent_client`) or does not read its answer; and the
main thread, with `server_mtx`, sends to a worker that does not read (`AwaitsPeer`).  Storage calls and CI
runs, which other modules are about, are not waits of this one.

`ExchangeProofs` proves, for any connections, messages, exit codes, capacity and parts, and any
size of a text (`SizesAssumption`: it fits 32 bits):

| theorem | states |
|---|---|
| `Typing` | `Spec => []TypeOK` |
| `MessagesWhole` | `Spec => []WholeOrNothing` |
| `NotificationsUnanswered` | `Spec => []OnlyRequestsAnswered` |
| `AnswersAreTrue` | `Spec => []AnswersTrue` |
| `ListsAreTrue` | `Spec => []ListingTrue` |
| `CallRefinement` | `Spec => ImplementsRemoteCall` |
| `NeverStuck` | as long as a call is not over, an end or the thread can go on, or waits for a lister that can |
| `CallsShorten` | what happens on a connection leaves less of its call; what happens elsewhere adds nothing |

The invariant places each end in the streams it has a part in (`Frame`), with a lemma that
`ntohl` undoes `htonl` (`SizeSurvives`), and relates the thread's stage to its
connection.  `OutcomeInv` says at which stage a call's run is in the queue: when the handler has
returned `ok`, and for nobody else.  `ListInv` follows a list that is being made: the rows already
read, and the cursor, fit the table when the list began, because rows are only
appended and a finished one is not written again (`ReportInv`).  The refinement has one lemma per
step of `RemoteCall`; all steps of the network stutter.

`NeverStuck` says that both ends never read, or never write, at the same time: a sender's pipe is full
only while its receiver reads, and a reader has bytes to come or an end that will close (`Alive`).  It
holds for all messages but one.  A peer that sends `new-worker` as a request and whose answer is lost waits for ever
(`WaitsOnKept`), since the server keeps the connection of a worker; the worker of the repository sends a notification,
and the run has no such message.  `CallsShorten` counts the stages that peer and
thread have before them, then bytes and rows.

*What is proved of termination.*  `RunEnds`, `CallReturns`, `CallsEnd`, `StopExits` each say that something ends.
Fairness apart, that has two halves: as long as it has not ended, somebody can go on (`NeverStuck`), and whatever is done
leaves less to do (`RunsShorten`, `CallsShorten`).  Both are proved, for every value of the constants;
for the shutdown of the server, the first.  `NeverStuck` writes out the guards
of the steps that need no failure, because `ENABLED` is beyond the prover; that they are those of the actions is seen by
comparing them (in `Exchange`, 1 must be in `Parts`).  What joins the halves, fairness, is left to TLC.

*Only model-checked*: liveness (`EveryRunFinishes`, `QueuedRunLeaves`, `StopEnds`,
`SignalledWorkerEnds`, `StopExits`, `ConnectionsReaped`, `PairIsAssigned`, `RunEnds`, `CallReturns`,
`CallsEnd`), which is out of the prover's reach.  Every invariant and action property of a
passing run is proved, and so are the three refinements.

## 5. What is not modelled, and what is left

Not modelled by intent:

* log messages and the formatting of events for them, the command line, base64,
  strings and JSON text: formatting without state of its own;
* what happens before anything runs: allocation failures at start-up, name resolution, bind and
  listen, the set-up of SQLite and libgit2.  A process in which they fail exits;
* libgit2 and SQLite themselves, except for what the code relies on;
* the masks that keep signals away from threads and children (`signal.c`): a pending
  SIGTERM is seen by the event loop alone;
* the copying of column values (`sqlite.c`), and `readlink_wrapper` and
  `process_execute`, which start-up or tests use;
* memory: the two error paths that free twice, or free what was not set
  (`process.c:130`, `storage_sqlite.c:278`), are hazards without a property.

What would add most:

1. A composition of `Cimple` and `ServerThreads`: the queue operations of the
   threads as the actions of the server.
2. An interface between `CIRun` and the workers of `Cimple`: what the latter assumes of an execution, as a
   specification that the former implements, the way `RemoteCall` stands between `Exchange` and the clients.
3. A measure for the shutdown of `ServerThreads`, as there is for calls and runs.
