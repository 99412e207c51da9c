---------------------------- MODULE ServerThreads ----------------------------
(***************************************************************************)
(* The threads of one cimple-server process, at the grain of their lock    *)
(* operations: the listening thread that runs the event loop, the main     *)
(* thread that assigns runs, and one thread per accepted connection.  They *)
(* share server_mtx, server_cv, the queues (of which only the lengths      *)
(* matter here), `stopping`, and the event loop's list of descriptors.     *)
(***************************************************************************)
EXTENDS Integers, Sequences, FiniteSets

CONSTANTS
    Conns,         \* the connections made to the server
    Silent,        \* those whose peer need never send anything, read anything
                   \* nor hang up
    MaxFailures    \* bound: how many system calls of the event loop fail

ASSUME SilentAssumption == Silent \subseteq Conns
ASSUME FailuresAssumption == MaxFailures \in Nat

\* Descriptors of the event loop: the signalfd, the listening socket, and for
\* every client thread its eventfd, named by the connection.
Fixed == {"signal", "accept"}
ASSUME FdsAssumption == (Fixed \union {"null", "free", "main", "listen"}) \intersect Conns = {}

VARIABLES
    \* struct server
    mtx,          \* who holds server_mtx: "free", "main", "listen" or a connection
    stopping,
    runs,         \* length of run_queue
    workers,      \* length of worker_queue
    mpc,          \* main thread: "lock", "check", "sending", "waiting",
                  \* "relock", "exited"
    \* the listening thread and struct event_loop
    lpc,          \* "loop", "pass", "set_stopping", "stop_notify",
                  \* "stop_unlock", "reap", "join_main", "join_clients", "exited"
    entries,      \* the list of descriptors
    polled,       \* what was given to poll: the list as it was then
    revents,      \* the descriptors poll found ready
    i, entry,     \* index and list element of the pass over them
    failed,       \* some handler of this pass failed
    failures,     \* failed calls so far
    \* struct tcp_server
    clientQueue,
    \* client threads
    cpc,          \* "none", "recv", "lock", "add", "notify", "unlock",
                  \* "reply", "finish", "returning", "returned", "reaped"
    item,         \* what the request is going to add: "none", "run" or "worker"
    eventfd,      \* has the thread written to its eventfd
    \* outside
    peer,         \* "new", "connected", "sent", "closed"
    sigterm       \* a SIGTERM is pending on the signalfd

serverVars == <<mtx, stopping, runs, workers>>
loopVars == <<entries, polled, revents, i, entry, failed, failures>>
clientVars == <<clientQueue, cpc, item, eventfd>>
vars == <<serverVars, mpc, lpc, loopVars, clientVars, peer, sigterm>>

TypeOK ==
    /\ mtx \in {"free", "main", "listen"} \union Conns
    /\ stopping \in BOOLEAN
    /\ runs \in Nat
    /\ workers \in Nat
    /\ mpc \in {"lock", "check", "sending", "waiting", "relock", "exited"}
    /\ lpc \in {"loop", "pass", "set_stopping", "stop_notify",
                "stop_unlock", "reap", "join_main", "join_clients", "exited"}
    /\ entries \in Seq(Fixed \union Conns)
    /\ polled \in Seq(Fixed \union Conns)
    /\ revents \subseteq Fixed \union Conns
    /\ i \in Nat
    /\ entry \in Fixed \union Conns \union {"null"}
    /\ failed \in BOOLEAN
    /\ failures \in Nat
    /\ clientQueue \in Seq(Conns)
    /\ cpc \in [Conns -> {"none", "recv", "lock", "add", "notify", "unlock",
                          "reply", "finish", "returning", "returned", "reaped"}]
    /\ item \in [Conns -> {"none", "run", "worker"}]
    /\ eventfd \in [Conns -> BOOLEAN]
    /\ peer \in [Conns -> {"new", "connected", "sent", "closed"}]
    /\ sigterm \in BOOLEAN

\* server_create: signalfd first, then the listening socket, then the main
\* thread.  The run queue that the database gives is empty (see Cimple).
Init ==
    /\ mtx = "free"
    /\ stopping = FALSE
    /\ runs = 0
    /\ workers = 0
    /\ mpc = "lock"
    /\ lpc = "loop"
    /\ entries = <<"signal", "accept">>
    /\ polled = << >>
    /\ revents = {}
    /\ i = 1
    /\ entry = "null"
    /\ failed = FALSE
    /\ failures = 0
    /\ clientQueue = << >>
    /\ cpc = [c \in Conns |-> "none"]
    /\ item = [c \in Conns |-> "none"]
    /\ eventfd = [c \in Conns |-> FALSE]
    /\ peer = [c \in Conns |-> "new"]
    /\ sigterm = FALSE

-----------------------------------------------------------------------------
(* server_mtx and server_cv *)

Lock(t) == mtx = "free" /\ mtx' = t
Unlock(t) == mtx = t /\ mtx' = "free"

\* pthread_cond_signal: only the main thread ever waits.
server_notify == mpc' = IF mpc = "waiting" THEN "relock" ELSE mpc

\* Seeded fault: the last run in the queue is not seen.
server_ready_for_action_NotLast == stopping \/ (runs > 1 /\ workers > 0)

server_ready_for_action == stopping \/ (runs > 0 /\ workers > 0)

-----------------------------------------------------------------------------
(* Main thread *)

MainLock ==
    /\ mpc \in {"lock", "relock"}
    /\ Lock("main")
    /\ mpc' = "check"
    /\ UNCHANGED <<stopping, runs, workers, lpc, loopVars, clientVars, peer, sigterm>>

\* server_wait_for_action finds nothing to do: pthread_cond_wait.
MainWait ==
    /\ mpc = "check"
    /\ ~server_ready_for_action
    /\ Unlock("main")
    /\ mpc' = "waiting"
    /\ UNCHANGED <<stopping, runs, workers, lpc, loopVars, clientVars, peer, sigterm>>

\* A condition variable may wake its waiter for no reason.
MainSpurious ==
    /\ mpc = "waiting"
    /\ mpc' = "relock"
    /\ UNCHANGED <<serverVars, lpc, loopVars, clientVars, peer, sigterm>>

\* Seeded fault: one of the two queues is enough.
MainAssign_Either ==
    /\ mpc = "check"
    /\ ~stopping
    /\ runs > 0 \/ workers > 0
    /\ workers' = workers - 1
    /\ runs' \in {runs - 1, runs}
    /\ UNCHANGED <<mtx, stopping, mpc, lpc, loopVars, clientVars, peer, sigterm>>

\* The end of server_assign_run: the worker has left its queue, and so has the
\* run if it was sent.
Assigned ==
    /\ workers' = workers - 1
    /\ runs' \in {runs - 1, runs}

\* server_assign_run when the kernel takes the whole "start-run" at once, or
\* refuses it.
MainAssign ==
    /\ mpc = "check"
    /\ ~stopping
    /\ server_ready_for_action
    /\ Assigned
    /\ UNCHANGED <<mtx, stopping, mpc, lpc, loopVars, clientVars, peer, sigterm>>

\* Otherwise net_send blocks, with server_mtx held: nobody sees the queues
\* before it is over.
MainSend ==
    /\ mpc = "check"
    /\ ~stopping
    /\ server_ready_for_action
    /\ mpc' = "sending"
    /\ UNCHANGED <<serverVars, lpc, loopVars, clientVars, peer, sigterm>>

\* The worker has read what the kernel would not take, or hung up.
MainSent ==
    /\ mpc = "sending"
    /\ Assigned
    /\ mpc' = "check"
    /\ UNCHANGED <<mtx, stopping, lpc, loopVars, clientVars, peer, sigterm>>

MainExit ==
    /\ mpc = "check"
    /\ stopping
    /\ Unlock("main")
    /\ mpc' = "exited"
    /\ UNCHANGED <<stopping, runs, workers, lpc, loopVars, clientVars, peer, sigterm>>

-----------------------------------------------------------------------------
(* Client threads *)

\* Seeded fault: the eventfd is written before the request is handled.
ThreadRecv_SignalFirst(c) ==
    /\ cpc[c] = "recv"
    /\ peer[c] = "sent"
    /\ \E added \in {"run", "worker"} : item' = [item EXCEPT ![c] = added]
    /\ cpc' = [cpc EXCEPT ![c] = "lock"]
    /\ eventfd' = [eventfd EXCEPT ![c] = TRUE]
    /\ UNCHANGED <<serverVars, mpc, lpc, loopVars, clientQueue, peer, sigterm>>

\* jsonrpc_request_recv blocks until the peer has sent its request or hung up.
\* "queue-run" and "new-worker" go on to their queue; "finished-run",
\* "get-runs" and everything that fails does not touch the server's state.
\* What was asked in a request is answered: net_send may block.
ThreadRecv(c) ==
    /\ cpc[c] = "recv"
    /\ peer[c] \in {"sent", "closed"}
    /\ \/ /\ peer[c] = "sent"
          /\ \E added \in {"run", "worker"} : item' = [item EXCEPT ![c] = added]
          /\ cpc' = [cpc EXCEPT ![c] = "lock"]
       \/ /\ peer[c] = "sent"
          /\ cpc' = [cpc EXCEPT ![c] = "reply"]
          /\ UNCHANGED item
       \/ /\ cpc' = [cpc EXCEPT ![c] = "finish"]
          /\ UNCHANGED item
    /\ UNCHANGED <<serverVars, mpc, lpc, loopVars, clientQueue, eventfd, peer, sigterm>>

ThreadLock(c) ==
    /\ cpc[c] = "lock"
    /\ Lock(c)
    /\ cpc' = [cpc EXCEPT ![c] = "add"]
    /\ UNCHANGED <<stopping, runs, workers, mpc, lpc, loopVars, clientQueue, item, eventfd, peer, sigterm>>

\* run_queue_add_last or worker_queue_add_last.
ThreadAdd(c) ==
    /\ cpc[c] = "add"
    /\ \/ item[c] = "run" /\ runs' = runs + 1 /\ UNCHANGED workers
       \/ item[c] = "worker" /\ workers' = workers + 1 /\ UNCHANGED runs
    /\ cpc' = [cpc EXCEPT ![c] = "notify"]
    /\ item' = [item EXCEPT ![c] = "none"]
    /\ UNCHANGED <<mtx, stopping, mpc, lpc, loopVars, clientQueue, eventfd, peer, sigterm>>

\* Seeded fault: signal only when both queues have just become non-empty.
ThreadNotify_FirstPair(c) ==
    /\ cpc[c] = "notify"
    /\ IF runs = 1 /\ workers = 1 THEN server_notify ELSE UNCHANGED mpc
    /\ cpc' = [cpc EXCEPT ![c] = "unlock"]
    /\ UNCHANGED <<serverVars, lpc, loopVars, clientQueue, item, eventfd, peer, sigterm>>

ThreadNotify(c) ==
    /\ cpc[c] = "notify"
    /\ server_notify
    /\ cpc' = [cpc EXCEPT ![c] = "unlock"]
    /\ UNCHANGED <<serverVars, lpc, loopVars, clientQueue, item, eventfd, peer, sigterm>>

\* Then the response is sent: net_send blocks, unless there is none to send or
\* the kernel takes it, or refuses it, at once.
ThreadUnlock(c) ==
    /\ cpc[c] = "unlock"
    /\ Unlock(c)
    /\ \E next \in {"reply", "finish"} : cpc' = [cpc EXCEPT ![c] = next]
    /\ UNCHANGED <<stopping, runs, workers, mpc, lpc, loopVars, clientQueue, item, eventfd, peer, sigterm>>

\* The peer has read what the kernel would not take, or hung up.
ThreadReply(c) ==
    /\ cpc[c] = "reply"
    /\ cpc' = [cpc EXCEPT ![c] = "finish"]
    /\ UNCHANGED <<serverVars, mpc, lpc, loopVars, clientQueue, item, eventfd, peer, sigterm>>

\* The last thing the thread does with the client: tell the event loop.
ThreadFinish(c) ==
    /\ cpc[c] = "finish"
    /\ eventfd' = [eventfd EXCEPT ![c] = TRUE]
    /\ cpc' = [cpc EXCEPT ![c] = "returning"]
    /\ UNCHANGED <<serverVars, mpc, lpc, loopVars, clientQueue, item, peer, sigterm>>

ThreadReturn(c) ==
    /\ cpc[c] = "returning"
    /\ cpc' = [cpc EXCEPT ![c] = "returned"]
    /\ UNCHANGED <<serverVars, mpc, lpc, loopVars, clientQueue, item, eventfd, peer, sigterm>>

-----------------------------------------------------------------------------
(* Listening thread: the event loop *)

Range_(s) == {s[k] : k \in DOMAIN s}

\* Connections the kernel has established and nobody has accepted.
Pending == {c \in Conns : peer[c] # "new" /\ cpc[c] = "none"}

Readable(fd) ==
    \/ fd = "signal" /\ sigterm
    \/ fd = "accept" /\ Pending # {}
    \/ fd \in Conns /\ eventfd[fd]

Fail ==
    /\ failures < MaxFailures
    /\ failures' = failures + 1

\* while (!server->stopping); the flag is set by this same thread.
LoopEnd ==
    /\ lpc = "loop"
    /\ stopping
    /\ lpc' = "join_main"
    /\ UNCHANGED <<serverVars, mpc, loopVars, clientVars, peer, sigterm>>

Poll ==
    /\ lpc = "loop"
    /\ ~stopping
    /\ revents' = {fd \in Range_(entries) : Readable(fd)}
    /\ revents' # {}
    /\ polled' = entries
    /\ i' = 1
    /\ entry' = Head(entries)
    /\ failed' = FALSE
    /\ lpc' = "pass"
    /\ UNCHANGED <<serverVars, mpc, entries, failures, clientVars, peer, sigterm>>

\* make_pollfds or poll fails (EINTR is not retried).
PollFail ==
    /\ lpc = "loop"
    /\ ~stopping
    /\ Fail
    /\ lpc' = "join_main"
    /\ UNCHANGED <<serverVars, mpc, entries, polled, revents, i, entry, failed, clientVars, peer, sigterm>>

Position(list, e) == CHOOSE k \in DOMAIN list : list[k] = e

\* SIMPLEQ_NEXT
Successor(list, e) ==
    IF \E k \in DOMAIN list : list[k] = e /\ k < Len(list)
    THEN list[Position(list, e) + 1]
    ELSE "null"

\* SIMPLEQ_REMOVE
Without(list, e) ==
    [k \in 1 .. Len(list) - 1 |-> IF k < Position(list, e) THEN list[k] ELSE list[k + 1]]

\* Seeded fault: the successor is read when the entry is already unlinked.
Advance_Late == i' = i + 1 /\ entry' = Successor(entries', entry)

\* The successor was read before the handler ran.
Advance == i' = i + 1 /\ entry' = Successor(entries, entry)

InPass == lpc = "pass" /\ i <= Len(polled)

PassSkip ==
    /\ InPass
    /\ entry \notin revents
    /\ UNCHANGED <<serverVars, mpc, lpc, entries, polled, revents, failed, failures, clientVars, peer, sigterm>>
    /\ Advance

\* The array goes; a failed handler makes the whole call fail.
PassEnd ==
    /\ lpc = "pass"
    /\ i > Len(polled)
    /\ lpc' = IF failed THEN "join_main" ELSE "loop"
    /\ polled' = << >>
    /\ revents' = {}
    /\ entry' = "null"
    /\ i' = 1
    /\ UNCHANGED <<serverVars, mpc, entries, failed, failures, clientVars, peer, sigterm>>

\* server_set_stopping, from server_lock to server_unlock.
StopLock ==
    /\ InPass
    /\ entry = "signal" /\ entry \in revents
    /\ Lock("listen")
    /\ lpc' = "set_stopping"
    /\ UNCHANGED <<stopping, runs, workers, mpc, loopVars, clientVars, peer, sigterm>>

StopSet ==
    /\ lpc = "set_stopping"
    /\ stopping' = TRUE
    /\ lpc' = "stop_notify"
    /\ UNCHANGED <<mtx, runs, workers, mpc, loopVars, clientVars, peer, sigterm>>

\* Seeded fault: stopping does not wake the main thread.
StopNotify_Silent ==
    /\ lpc = "stop_notify"
    /\ lpc' = "stop_unlock"
    /\ UNCHANGED <<serverVars, mpc, loopVars, clientVars, peer, sigterm>>

StopNotify ==
    /\ lpc = "stop_notify"
    /\ server_notify
    /\ lpc' = "stop_unlock"
    /\ UNCHANGED <<serverVars, loopVars, clientVars, peer, sigterm>>

StopUnlock ==
    /\ lpc = "stop_unlock"
    /\ Unlock("listen")
    /\ lpc' = "pass"
    /\ UNCHANGED <<stopping, runs, workers, mpc, entries, polled, revents, failed, failures, clientVars, peer, sigterm>>
    /\ Advance

\* tcp_server_accept.  When pthread_create fails, the eventfd stays in the list
\* and the connection is closed; when an earlier call does, it never got there.
PassAccept ==
    /\ InPass
    /\ entry = "accept" /\ entry \in revents
    /\ \/ \E c \in Pending :
            /\ entries' = Append(entries, c)
            /\ clientQueue' = Append(clientQueue, c)
            /\ cpc' = [cpc EXCEPT ![c] = "recv"]
            /\ UNCHANGED <<failed, failures>>
       \/ \E c \in Pending :
            /\ Fail
            /\ failed' = TRUE
            /\ entries' \in {entries, Append(entries, c)}
            /\ cpc' = [cpc EXCEPT ![c] = "reaped"]
            /\ UNCHANGED clientQueue
       \/ /\ Fail
          /\ failed' = TRUE
          /\ UNCHANGED <<entries, clientQueue, cpc>>
    /\ UNCHANGED <<serverVars, mpc, lpc, polled, revents, item, eventfd, peer, sigterm>>
    /\ Advance

\* client_destroy_handler: pthread_join, after which descriptors are closed.
PassReap ==
    /\ InPass
    /\ entry \in Conns /\ entry \in revents
    /\ lpc' = "reap"
    /\ UNCHANGED <<serverVars, mpc, loopVars, clientVars, peer, sigterm>>

Reap ==
    /\ lpc = "reap"
    /\ cpc[entry] = "returned"
    /\ cpc' = [cpc EXCEPT ![entry] = "reaped"]
    /\ clientQueue' = Without(clientQueue, entry)
    /\ entries' = Without(entries, entry)
    /\ lpc' = "pass"
    /\ UNCHANGED <<serverVars, mpc, polled, revents, failed, failures, item, eventfd, peer, sigterm>>
    /\ Advance

-----------------------------------------------------------------------------
(* Listening thread: server_destroy *)

JoinMain ==
    /\ lpc = "join_main"
    /\ mpc = "exited"
    /\ lpc' = "join_clients"
    /\ UNCHANGED <<serverVars, mpc, loopVars, clientVars, peer, sigterm>>

\* tcp_server_destroy: the listening socket is closed, then every client left
\* is joined before its connection is closed.
JoinClient ==
    /\ lpc = "join_clients"
    /\ clientQueue # << >>
    /\ cpc[Head(clientQueue)] = "returned"
    /\ cpc' = [cpc EXCEPT ![Head(clientQueue)] = "reaped"]
    /\ clientQueue' = Tail(clientQueue)
    /\ UNCHANGED <<serverVars, mpc, lpc, loopVars, item, eventfd, peer, sigterm>>

\* Seeded fault: detached client threads, which nobody joins.
Exit_Detached ==
    /\ lpc = "join_clients"
    /\ lpc' = "exited"
    /\ UNCHANGED <<serverVars, mpc, loopVars, clientVars, peer, sigterm>>

\* Queues, event loop, condition variable and mutex are destroyed.
Exit ==
    /\ lpc = "join_clients"
    /\ clientQueue = << >>
    /\ lpc' = "exited"
    /\ UNCHANGED <<serverVars, mpc, loopVars, clientVars, peer, sigterm>>

-----------------------------------------------------------------------------
(* Outside the process *)

Connect(c) ==
    /\ peer[c] = "new"
    /\ lpc \notin {"join_clients", "exited"}
    /\ peer' = [peer EXCEPT ![c] = "connected"]
    /\ UNCHANGED <<serverVars, mpc, lpc, loopVars, clientVars, sigterm>>

\* The peer sends its one request, or hangs up without one.
Speak(c) ==
    /\ peer[c] = "connected"
    /\ \E said \in {"sent", "closed"} : peer' = [peer EXCEPT ![c] = said]
    /\ UNCHANGED <<serverVars, mpc, lpc, loopVars, clientVars, sigterm>>

Signal ==
    /\ ~sigterm
    /\ lpc # "exited"
    /\ sigterm' = TRUE
    /\ UNCHANGED <<serverVars, mpc, lpc, loopVars, clientVars, peer>>

\* The process is gone: nothing is left to do.
Terminated == lpc = "exited" /\ UNCHANGED vars

-----------------------------------------------------------------------------
MainStep == MainLock \/ MainWait \/ MainAssign \/ MainSend \/ MainExit

ThreadStep(c) ==
    \/ ThreadRecv(c)
    \/ ThreadLock(c)
    \/ ThreadAdd(c)
    \/ ThreadNotify(c)
    \/ ThreadUnlock(c)
    \/ ThreadFinish(c)
    \/ ThreadReturn(c)

ListenStep ==
    \/ LoopEnd
    \/ Poll
    \/ PassSkip
    \/ PassEnd
    \/ StopLock
    \/ StopSet
    \/ StopNotify
    \/ StopUnlock
    \/ PassAccept
    \/ PassReap
    \/ Reap
    \/ JoinMain
    \/ JoinClient
    \/ Exit

Next ==
    \/ MainStep
    \/ MainSent
    \/ MainSpurious
    \/ ListenStep
    \/ PollFail
    \/ \E c \in Conns : ThreadStep(c) \/ ThreadReply(c) \/ Connect(c) \/ Speak(c)
    \/ Signal
    \/ Terminated

Spec == Init /\ [][Next]_vars

\* Threads are scheduled, and server_mtx is not withheld for ever from a thread
\* that asks for it again and again: strong fairness, because a main thread that
\* is woken for no reason over and over takes the lock each time.  The peers
\* that are not silent get around to sending, to reading what they are sent, or
\* to hanging up; which of them "start-run" goes to is not told apart.
Fairness ==
    /\ WF_vars(MainStep)
    /\ SF_vars(ListenStep)
    /\ \A c \in Conns : SF_vars(ThreadStep(c))
    /\ \A c \in Conns \ Silent : WF_vars(Speak(c)) /\ WF_vars(ThreadReply(c))
    /\ Silent = {} => WF_vars(MainSent)

FairSpec == Spec /\ Fairness

-----------------------------------------------------------------------------
(* Properties *)

\* server.c, server_wait_for_action: the main thread never sleeps through
\* something to do.  Whoever made it so holds the lock and is about to signal.
NoLostWakeup ==
    mpc = "waiting" /\ server_ready_for_action =>
        lpc = "stop_notify" \/ \E c \in Conns : cpc[c] = "notify"

\* event_loop.c, event_loop_run walks a list that handlers append to and
\* entries are unlinked from while it indexes an array made before: both stay
\* at the same descriptor.
PassFollowsPoll ==
    lpc \in {"pass", "set_stopping", "stop_notify", "stop_unlock", "reap"} /\ i <= Len(polled)
        => entry = polled[i]

\* tcp_server.c, client_destroy_handler: when the event loop joins a client
\* thread, that thread has nothing left to wait for, so neither has the loop.
JoinIsShort == lpc = "reap" => cpc[entry] \in {"returning", "returned"}

\* server.c, server_destroy frees what the other threads use: no thread is
\* alive any more, nor one that the client queue has lost track of.
NoThreadOutlivesServer ==
    /\ lpc = "exited" => mpc = "exited" /\ \A c \in Conns : cpc[c] \in {"none", "reaped"}
    /\ \A c \in Conns : cpc[c] \notin {"none", "reaped"} => c \in Range_(clientQueue)

\* The comment of tcp_server.c: on shutdown, the TCP server cleans up the
\* client threads still working; with it, SIGTERM ends the process.
StopExits == sigterm ~> lpc = "exited"

\* tcp_server.c: a client thread that was started is joined and its
\* connection closed, whether the server goes on or stops.
ConnectionsReaped == \A c \in Conns : cpc[c] = "recv" ~> cpc[c] = "reaped"

\* server.c, server_main_thread: a run and a worker do not wait side by side.
PairIsAssigned == runs > 0 /\ workers > 0 ~> runs = 0 \/ workers = 0 \/ stopping
=============================================================================
