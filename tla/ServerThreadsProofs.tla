------------------------- MODULE ServerThreadsProofs -------------------------
(***************************************************************************)
(* Proofs about ServerThreads, for any number of connections, silent or    *)
(* not, and any failures: the mutex excludes, no wake-up is lost, the      *)
(* event loop's pass stays in step with its poll, and no thread outlives   *)
(* the server.                                                             *)
(***************************************************************************)
EXTENDS ServerThreads, TLAPS

Fds == Fixed \union Conns

-----------------------------------------------------------------------------
(* Linked lists *)

Distinct(s) == \A k, l \in DOMAIN s : s[k] = s[l] => k = l

\* From its n-th element on, m runs along s.
Follows(s, m, n) ==
    \E p \in Int : \A k \in n .. Len(m) : p + k \in DOMAIN s /\ s[p + k] = m[k]

LEMMA WithoutFacts ==
    ASSUME NEW S, NEW s \in Seq(S), NEW x \in Range_(s)
    PROVE  \E q \in DOMAIN s :
            /\ s[q] = x
            /\ Without(s, x) \in Seq(S)
            /\ DOMAIN Without(s, x) = 1 .. Len(s) - 1
            /\ \A k \in 1 .. Len(s) - 1 : Without(s, x)[k] = IF k < q THEN s[k] ELSE s[k + 1]
<1> DEFINE q == Position(s, x)
           w == Without(s, x)
<1>1. q \in DOMAIN s /\ s[q] = x
  BY DEF Range_, Position
<1>2. w = [k \in 1 .. Len(s) - 1 |-> IF k < q THEN s[k] ELSE s[k + 1]]
  BY DEF Without
<1> HIDE DEF q, w
<1>3. Len(s) \in Nat \ {0} /\ s \in [1 .. Len(s) -> S]
  BY <1>1
<1>4. \A k \in 1 .. Len(s) - 1 : s[k] \in S /\ s[k + 1] \in S
  BY <1>3
<1>5. w \in [1 .. Len(s) - 1 -> S]
  BY <1>2, <1>4
<1>6. Len(s) - 1 \in Nat
  BY <1>3
<1>7. w \in Seq(S)
  BY <1>5, <1>6
<1> QED
  BY <1>1, <1>2, <1>7 DEF q, w

LEMMA OthersRemain ==
    ASSUME NEW S, NEW s \in Seq(S), NEW x \in Range_(s), NEW y \in Range_(s), y # x
    PROVE  y \in Range_(Without(s, x))
<1>1. PICK q \in DOMAIN s :
            /\ s[q] = x
            /\ DOMAIN Without(s, x) = 1 .. Len(s) - 1
            /\ \A k \in 1 .. Len(s) - 1 : Without(s, x)[k] = IF k < q THEN s[k] ELSE s[k + 1]
  BY WithoutFacts
<1>2. PICK l \in DOMAIN s : s[l] = y
  BY DEF Range_
<1>3. Len(s) \in Nat /\ DOMAIN s = 1 .. Len(s) /\ l # q
  BY <1>1, <1>2
<1>4. CASE l < q
  <2>1. l \in 1 .. Len(s) - 1 /\ Without(s, x)[l] = y
    BY <1>1, <1>2, <1>3, <1>4
  <2> QED
    BY <1>1, <2>1 DEF Range_
<1>5. CASE l > q
  <2>1. l - 1 \in 1 .. Len(s) - 1 /\ Without(s, x)[l - 1] = s[l - 1 + 1]
    BY <1>1, <1>2, <1>3, <1>5
  <2>2. l - 1 + 1 = l
    BY <1>3
  <2> QED
    BY <1>1, <1>2, <2>1, <2>2 DEF Range_
<1> QED
  BY <1>1, <1>3, <1>4, <1>5

LEMMA NothingNew ==
    ASSUME NEW S, NEW s \in Seq(S), NEW x \in Range_(s), Distinct(s)
    PROVE  /\ Distinct(Without(s, x))
           /\ Range_(Without(s, x)) \subseteq Range_(s) \ {x}
<1>1. PICK q \in DOMAIN s :
            /\ s[q] = x
            /\ DOMAIN Without(s, x) = 1 .. Len(s) - 1
            /\ \A k \in 1 .. Len(s) - 1 : Without(s, x)[k] = IF k < q THEN s[k] ELSE s[k + 1]
  BY WithoutFacts
<1>2. Len(s) \in Nat /\ DOMAIN s = 1 .. Len(s)
  OBVIOUS
<1> DEFINE at(k) == IF k < q THEN k ELSE k + 1
<1>3. \A k \in 1 .. Len(s) - 1 :
        at(k) \in DOMAIN s /\ at(k) # q /\ Without(s, x)[k] = s[at(k)]
  BY <1>1, <1>2
<1>4. \A k, l \in 1 .. Len(s) - 1 : at(k) = at(l) => k = l
  BY <1>1, <1>2
<1> HIDE DEF at
<1>5. Distinct(Without(s, x))
  BY <1>1, <1>3, <1>4 DEF Distinct
<1>6. \A k \in 1 .. Len(s) - 1 : s[at(k)] # x
  BY <1>1, <1>3 DEF Distinct
<1> QED
  BY <1>1, <1>3, <1>5, <1>6 DEF Range_

LEMMA SuccessorFacts ==
    ASSUME NEW S, NEW s \in Seq(S), Distinct(s)
    PROVE  /\ \A e : Successor(s, e) \in S \union {"null"}
           /\ \A k \in DOMAIN s : k + 1 \in DOMAIN s => Successor(s, s[k]) = s[k + 1]
<1>1. Len(s) \in Nat /\ DOMAIN s = 1 .. Len(s) /\ s \in [1 .. Len(s) -> S]
  OBVIOUS
<1>2. \A k \in DOMAIN s : Position(s, s[k]) = k
  BY DEF Position, Distinct
<1>3. ASSUME NEW k \in DOMAIN s, k < Len(s)
      PROVE  Successor(s, s[k]) = s[k + 1] /\ s[k + 1] \in S
  BY <1>1, <1>2, <1>3 DEF Successor
<1>4. ASSUME NEW e, ~\E k \in DOMAIN s : s[k] = e /\ k < Len(s)
      PROVE  Successor(s, e) = "null"
  BY <1>4 DEF Successor
<1> QED
  BY <1>1, <1>3, <1>4

\* One more step along a list that is appended to, or loses the element that
\* was passed.
LEMMA Offset ==
    ASSUME NEW S, NEW s \in Seq(S), NEW t \in Seq(S), NEW m \in Seq(S), NEW n \in Nat,
           n + 1 <= Len(m), Distinct(s), Follows(s, m, n),
           t = s \/ (\E x \in S : t = Append(s, x)) \/ t = Without(s, m[n])
    PROVE  Successor(s, m[n]) = m[n + 1] /\ Follows(t, m, n + 1)
<1>1. Len(s) \in Nat /\ DOMAIN s = 1 .. Len(s) /\ Len(m) \in Nat
  OBVIOUS
<1>2. PICK p \in Int : \A k \in n .. Len(m) : p + k \in DOMAIN s /\ s[p + k] = m[k]
  BY DEF Follows
<1>3. p + n \in DOMAIN s /\ s[p + n] = m[n]
  BY <1>1, <1>2
<1>4. p + (n + 1) \in DOMAIN s /\ s[p + (n + 1)] = m[n + 1] /\ p + (n + 1) = (p + n) + 1
  BY <1>1, <1>2
<1>5. Successor(s, m[n]) = m[n + 1]
  BY <1>3, <1>4, SuccessorFacts
<1>6. \A k \in n + 1 .. Len(m) : k \in n .. Len(m)
  BY <1>1
<1>7. CASE t = s
  <2>1. \A k \in n + 1 .. Len(m) : p + k \in DOMAIN t /\ t[p + k] = m[k]
    BY <1>1, <1>2, <1>7
  <2> QED
    BY <1>5, <2>1 DEF Follows
<1>8. CASE \E x \in S : t = Append(s, x)
  <2> PICK x \in S : t = Append(s, x)
    BY <1>8
  <2>1. \A k \in DOMAIN s : k \in DOMAIN t /\ t[k] = s[k]
    OBVIOUS
  <2>2. \A k \in n + 1 .. Len(m) : p + k \in DOMAIN t /\ t[p + k] = m[k]
    BY <1>2, <1>6, <2>1, Zenon
  <2> QED
    BY <1>5, <2>2 DEF Follows
<1>9. CASE t = Without(s, m[n])
  <2>1. m[n] \in Range_(s)
    BY <1>3 DEF Range_
  <2>2. PICK q \in DOMAIN s :
            /\ s[q] = m[n]
            /\ DOMAIN t = 1 .. Len(s) - 1
            /\ \A k \in 1 .. Len(s) - 1 : t[k] = IF k < q THEN s[k] ELSE s[k + 1]
    BY <1>9, <2>1, WithoutFacts
  <2>3. q = p + n
    BY <1>3, <2>2 DEF Distinct
  <2>4. ASSUME NEW k \in n + 1 .. Len(m)
        PROVE  (p - 1) + k \in DOMAIN t /\ t[(p - 1) + k] = m[k]
    <3>1. p + k \in DOMAIN s /\ s[p + k] = m[k]
      BY <1>1, <1>2
    <3>2. (p - 1) + k \in 1 .. Len(s) - 1 /\ ~((p - 1) + k < q) /\ ((p - 1) + k) + 1 = p + k
      <4>1. p \in Int /\ k \in Int /\ k >= n + 1 /\ p + k <= Len(s) /\ p + n >= 1 /\ q = p + n /\ Len(s) \in Nat
        BY <1>1, <1>3, <2>3, <3>1
      <4> QED
        BY <4>1
    <3> QED
      BY <2>2, <3>1, <3>2
  <2>5. p - 1 \in Int
    OBVIOUS
  <2>6. Follows(t, m, n + 1)
    BY <2>4, <2>5 DEF Follows
  <2> QED
    BY <1>5, <2>6
<1> QED
  BY <1>7, <1>8, <1>9

-----------------------------------------------------------------------------
(* The invariant *)

Stopping == {"set_stopping", "stop_notify", "stop_unlock"}
Passing == {"pass", "reap"} \union Stopping
Over == {"join_clients", "exited"}
Assigning == {"check", "sending"}

\* Who holds server_mtx is in a critical section, and nobody else is.
MtxInv ==
    /\ mtx = "main" <=> mpc \in Assigning
    /\ mtx = "listen" <=> lpc \in Stopping
    /\ \A c \in Conns : mtx = c <=> cpc[c] \in {"add", "notify", "unlock"}

\* A client thread is joined only when it has said, on its eventfd, that it
\* is about to return, and its entry goes with it.
ListInv ==
    /\ Distinct(entries)
    /\ \A k \in DOMAIN entries : entries[k] \in Conns => cpc[entries[k]] # "none"
    /\ \A c \in Conns : eventfd[c] => cpc[c] \in {"returning", "returned", "reaped"}
    /\ \A c \in Conns : c \in revents => eventfd[c]
    /\ lpc \notin Over =>
        \A k \in DOMAIN entries : entries[k] \in Conns /\ cpc[entries[k]] = "reaped" => ~eventfd[entries[k]]

\* The entry and the index of a pass are at the same descriptor.
PassInv ==
    /\ lpc \in Passing /\ i <= Len(polled) => entry = polled[i] /\ Follows(entries, polled, i)
    /\ lpc \in {"reap"} \union Stopping => i <= Len(polled)
    /\ lpc = "reap" => entry \in Conns /\ entry \in revents

\* The client queue has every thread that is alive.
QueueInv ==
    /\ \A c \in Conns : cpc[c] \notin {"none", "reaped"} => c \in Range_(clientQueue)
    /\ lpc \in Over => mpc = "exited"
    /\ lpc = "exited" => clientQueue = << >>

\* A run is being sent: there are a run and a worker.
PairInv == mpc = "sending" => runs > 0 /\ workers > 0

Inv == TypeOK /\ MtxInv /\ PairInv /\ ListInv /\ PassInv /\ QueueInv /\ NoLostWakeup

LEMMA NamesDiffer ==
    /\ \A c \in Conns : c \notin {"signal", "accept", "null", "free", "main", "listen"}
  BY FdsAssumption DEF Fixed

LEMMA InvInit == Init => Inv
<1> SUFFICES ASSUME Init PROVE Inv
  OBVIOUS
<1> USE DEF Init
<1>1. entries \in Seq(Fds) /\ entries = <<"signal", "accept">> /\ DOMAIN entries = 1 .. 2
  BY DEF Fds, Fixed
<1>2. TypeOK
  <2>1. polled \in Seq(Fds) /\ clientQueue \in Seq(Conns) /\ entry \in Fds \union {"null"}
    OBVIOUS
  <2>2. /\ cpc \in [Conns -> {"none", "recv", "lock", "add", "notify", "unlock",
                             "reply", "finish", "returning", "returned", "reaped"}]
        /\ item \in [Conns -> {"none", "run", "worker"}]
        /\ eventfd \in [Conns -> BOOLEAN]
        /\ peer \in [Conns -> {"new", "connected", "sent", "closed"}]
    OBVIOUS
  <2>3. /\ runs \in Nat /\ workers \in Nat /\ i \in Nat /\ failures \in Nat
        /\ stopping \in BOOLEAN /\ failed \in BOOLEAN /\ sigterm \in BOOLEAN
        /\ mtx = "free" /\ mpc = "lock" /\ lpc = "loop" /\ revents = {}
    OBVIOUS
  <2> QED
    BY <1>1, <2>1, <2>2, <2>3 DEF TypeOK, Fds
<1>3. MtxInv /\ PairInv
  BY NamesDiffer DEF MtxInv, PairInv, Stopping, Assigning
<1>4. ListInv
  <2>1. entries[1] = "signal" /\ entries[2] = "accept"
    BY <1>1
  <2> QED
    BY <1>1, <2>1, NamesDiffer DEF ListInv, Distinct
<1>5. PassInv
  BY DEF PassInv, Passing, Stopping
<1>6. QueueInv /\ NoLostWakeup
  BY DEF QueueInv, NoLostWakeup, Over
<1> QED
  BY <1>2, <1>3, <1>4, <1>5, <1>6 DEF Inv

-----------------------------------------------------------------------------
(* The steps *)

\* What the threads of clients and the main thread leave to the event loop.
LEMMA LoopStays ==
    ASSUME ListInv, PassInv, QueueInv, UNCHANGED <<lpc, loopVars, clientQueue>>,
           \A c \in Conns :
            /\ cpc'[c] = "none" <=> cpc[c] = "none"
            /\ cpc'[c] = "reaped" <=> cpc[c] = "reaped"
            /\ cpc'[c] = "reaped" => eventfd'[c] = eventfd[c]
            /\ eventfd[c] => eventfd'[c]
            /\ eventfd'[c] => cpc'[c] \in {"returning", "returned", "reaped"},
           mpc = "exited" => mpc' = "exited"
    PROVE  ListInv' /\ PassInv' /\ QueueInv'
<1>1. ListInv'
  BY DEF ListInv, loopVars
<1>2. PassInv'
  BY DEF PassInv, loopVars
<1>3. QueueInv'
  BY DEF QueueInv, Range_
<1> QED
  BY <1>1, <1>2, <1>3

LEMMA MainKeeps ==
    ASSUME Inv, MainStep \/ MainSent \/ MainSpurious
    PROVE  Inv'
<1> USE DEF Inv
<1>1. UNCHANGED <<stopping, lpc, loopVars, clientVars, peer, sigterm>>
  BY DEF MainStep, MainLock, MainWait, MainAssign, MainSend, MainSent, Assigned, MainExit, MainSpurious, serverVars
<1>2. mpc # "exited" /\ mpc' \in {"lock", "check", "sending", "waiting", "relock", "exited"}
  BY DEF MainStep, MainLock, MainWait, MainAssign, MainSend, MainSent, Assigned, MainExit, MainSpurious, TypeOK
<1>3. runs' \in Nat /\ workers' \in Nat
  <2>1. CASE MainAssign
    <3>1. runs \in Nat /\ workers \in Nat /\ runs > 0 /\ workers > 0
      BY <2>1 DEF MainAssign, server_ready_for_action, TypeOK
    <3> QED
      BY <2>1, <3>1 DEF MainAssign, Assigned
  <2>3. CASE MainSent
    <3>1. runs \in Nat /\ workers \in Nat /\ runs > 0 /\ workers > 0
      BY <2>3 DEF MainSent, PairInv, TypeOK
    <3> QED
      BY <2>3, <3>1 DEF MainSent, Assigned
  <2>2. CASE UNCHANGED <<runs, workers>>
    BY <2>2 DEF TypeOK
  <2> QED
    BY <2>1, <2>2, <2>3 DEF MainStep, MainLock, MainWait, MainSend, MainExit, MainSpurious, serverVars
<1>4. mtx' \in {"free", "main"} \/ mtx' = mtx
  BY DEF MainStep, MainLock, MainWait, MainAssign, MainSend, MainSent, Assigned, MainExit, MainSpurious, Lock, Unlock, serverVars
<1>5. TypeOK'
  BY <1>1, <1>2, <1>3, <1>4 DEF TypeOK, loopVars, clientVars
<1>6. MtxInv' /\ PairInv'
  BY <1>1, <1>2, NamesDiffer
  DEF MtxInv, PairInv, Assigning, server_ready_for_action, MainStep, MainLock, MainWait, MainAssign, MainSend, MainSent, Assigned, MainExit, MainSpurious, Lock, Unlock, serverVars, clientVars
<1>7. ListInv' /\ PassInv' /\ QueueInv'
  BY <1>1, <1>2, LoopStays DEF ListInv, clientVars
<1>8. NoLostWakeup'
  <2>1. CASE mpc' = "waiting"
    <3>1. MainWait
      BY <1>2, <2>1 DEF MainStep, MainLock, MainAssign, MainSend, MainSent, Assigned, MainExit, MainSpurious
    <3> QED
      BY <1>1, <3>1 DEF MainWait, NoLostWakeup, server_ready_for_action
  <2> QED
    BY <2>1 DEF NoLostWakeup
<1> QED
  BY <1>5, <1>6, <1>7, <1>8

LEMMA ThreadKeeps ==
    ASSUME Inv, NEW c \in Conns, ThreadStep(c) \/ ThreadReply(c)
    PROVE  Inv'
<1> USE DEF Inv
<1>1. UNCHANGED <<stopping, lpc, loopVars, clientQueue, peer, sigterm>>
  BY DEF ThreadStep, ThreadRecv, ThreadLock, ThreadAdd, ThreadNotify, ThreadUnlock, ThreadReply, ThreadFinish, ThreadReturn,
         serverVars
<1>2. /\ cpc \in [Conns -> {"none", "recv", "lock", "add", "notify", "unlock",
                           "reply", "finish", "returning", "returned", "reaped"}]
      /\ eventfd \in [Conns -> BOOLEAN] /\ item \in [Conns -> {"none", "run", "worker"}]
      /\ runs \in Nat /\ workers \in Nat
  BY DEF TypeOK
<1>3. cpc[c] \notin {"none", "reaped"}
  BY DEF ThreadStep, ThreadRecv, ThreadLock, ThreadAdd, ThreadNotify, ThreadUnlock, ThreadReply, ThreadFinish, ThreadReturn
<1>4. \E to \in {"lock", "add", "notify", "unlock", "reply", "finish", "returning", "returned"} :
        /\ cpc' = [cpc EXCEPT ![c] = to]
        /\ cpc[c] \in {"returning", "returned"} => to = "returned"
  BY DEF ThreadStep, ThreadRecv, ThreadLock, ThreadAdd, ThreadNotify, ThreadUnlock, ThreadReply, ThreadFinish, ThreadReturn
<1>5. UNCHANGED eventfd \/ (eventfd' = [eventfd EXCEPT ![c] = TRUE] /\ cpc' = [cpc EXCEPT ![c] = "returning"])
  BY DEF ThreadStep, ThreadRecv, ThreadLock, ThreadAdd, ThreadNotify, ThreadUnlock, ThreadReply, ThreadFinish, ThreadReturn
<1>6. mpc' = mpc \/ (mpc = "waiting" /\ mpc' = "relock")
  BY DEF ThreadStep, ThreadRecv, ThreadLock, ThreadAdd, ThreadNotify, ThreadUnlock, ThreadReply, ThreadFinish, ThreadReturn,
         server_notify
<1>7. TypeOK'
  <2>1. item' \in [Conns -> {"none", "run", "worker"}]
    BY <1>2
    DEF ThreadStep, ThreadRecv, ThreadLock, ThreadAdd, ThreadNotify, ThreadUnlock, ThreadReply, ThreadFinish, ThreadReturn
  <2>2. runs' \in Nat /\ workers' \in Nat
    BY <1>2
    DEF ThreadStep, ThreadRecv, ThreadLock, ThreadAdd, ThreadNotify, ThreadUnlock, ThreadReply, ThreadFinish, ThreadReturn,
        serverVars
  <2>3. mtx' \in {mtx, c, "free"}
    BY DEF ThreadStep, ThreadRecv, ThreadLock, ThreadAdd, ThreadNotify, ThreadUnlock, ThreadReply, ThreadFinish, ThreadReturn,
           serverVars, Lock, Unlock
  <2>4. cpc' \in [Conns -> {"none", "recv", "lock", "add", "notify", "unlock",
                           "reply", "finish", "returning", "returned", "reaped"}]
        /\ eventfd' \in [Conns -> BOOLEAN]
    BY <1>2, <1>4, <1>5
  <2> QED
    BY <1>1, <1>6, <2>1, <2>2, <2>3, <2>4 DEF TypeOK, loopVars
<1>8. MtxInv'
  <2>1. mpc' \in Assigning <=> mpc \in Assigning
    BY <1>6 DEF Assigning
  <2>2. CASE UNCHANGED mtx
    <3>1. cpc'[c] \in {"add", "notify", "unlock"} <=> cpc[c] \in {"add", "notify", "unlock"}
      BY <1>2, <2>2, NamesDiffer
      DEF ThreadStep, ThreadRecv, ThreadLock, ThreadAdd, ThreadNotify, ThreadUnlock, ThreadReply, ThreadFinish, ThreadReturn,
          Lock, Unlock
    <3> QED
      BY <1>1, <1>2, <1>4, <2>1, <2>2, <3>1 DEF MtxInv
  <2>3. CASE ThreadLock(c)
    BY <1>1, <1>2, <2>1, <2>3, NamesDiffer DEF MtxInv, ThreadLock, Lock
  <2>4. CASE ThreadUnlock(c)
    BY <1>1, <1>2, <2>1, <2>4, NamesDiffer DEF MtxInv, ThreadUnlock, Unlock
  <2> QED
    BY <2>2, <2>3, <2>4 DEF ThreadStep, ThreadRecv, ThreadAdd, ThreadNotify, ThreadReply, ThreadFinish, ThreadReturn, serverVars
<1>11. PairInv'
  <2>1. runs' >= runs /\ workers' >= workers
    BY <1>2
    DEF ThreadStep, ThreadRecv, ThreadLock, ThreadAdd, ThreadNotify, ThreadUnlock, ThreadReply, ThreadFinish,
        ThreadReturn, serverVars
  <2>2. runs' \in Nat /\ workers' \in Nat
    BY <1>7 DEF TypeOK
  <2> QED
    BY <1>2, <1>6, <2>1, <2>2 DEF PairInv
<1>9. ListInv' /\ PassInv' /\ QueueInv'
  <2>1. ASSUME NEW d \in Conns
        PROVE  /\ cpc'[d] = "none" <=> cpc[d] = "none"
               /\ cpc'[d] = "reaped" <=> cpc[d] = "reaped"
               /\ cpc'[d] = "reaped" => eventfd'[d] = eventfd[d]
               /\ eventfd[d] => eventfd'[d]
               /\ eventfd'[d] => cpc'[d] \in {"returning", "returned", "reaped"}
    BY <1>2, <1>3, <1>4, <1>5 DEF ListInv
  <2> QED
    BY <1>1, <1>6, <2>1, LoopStays
<1>10. NoLostWakeup'
  <2> SUFFICES ASSUME mpc' = "waiting", server_ready_for_action'
               PROVE  lpc' = "stop_notify" \/ \E d \in Conns : cpc'[d] = "notify"
    BY DEF NoLostWakeup
  <2>1. mpc = "waiting"
    BY <1>6
  <2>2. ~ThreadNotify(c)
    BY <2>1 DEF ThreadNotify, server_notify
  <2>3. CASE ThreadAdd(c)
    BY <1>2, <2>3 DEF ThreadAdd
  <2>4. CASE ~ThreadAdd(c)
    <3>1. server_ready_for_action /\ cpc[c] # "notify"
      BY <1>1, <2>2, <2>4
      DEF server_ready_for_action, ThreadStep, ThreadRecv, ThreadLock, ThreadUnlock, ThreadReply, ThreadFinish, ThreadReturn,
          serverVars
    <3> QED
      BY <1>1, <1>2, <1>4, <2>1, <3>1 DEF NoLostWakeup
  <2> QED
    BY <2>3, <2>4
<1> QED
  BY <1>7, <1>8, <1>9, <1>10, <1>11

\* The index and the entry go on together.
LEMMA AdvanceKeeps ==
    ASSUME TypeOK, ListInv, PassInv, lpc \in Passing, i <= Len(polled), Advance, UNCHANGED polled,
           entries' \in Seq(Fds),
           \/ entries' = entries
           \/ \E x \in Fds : entries' = Append(entries, x)
           \/ entries' = Without(entries, entry)
    PROVE  /\ i' \in Nat /\ entry' \in Fds \union {"null"}
           /\ i' <= Len(polled') => entry' = polled'[i'] /\ Follows(entries', polled', i')
<1>1. entries \in Seq(Fds) /\ polled \in Seq(Fds) /\ i \in Nat /\ Distinct(entries)
  BY DEF TypeOK, Fds, ListInv
<1>2. i' = i + 1 /\ entry' = Successor(entries, entry)
  BY DEF Advance
<1>3. entry = polled[i] /\ Follows(entries, polled, i)
  BY DEF PassInv
<1>4. entry' \in Fds \union {"null"}
  BY <1>1, <1>2, SuccessorFacts
<1>5. ASSUME i + 1 <= Len(polled)
      PROVE  Successor(entries, polled[i]) = polled[i + 1] /\ Follows(entries', polled, i + 1)
  BY <1>1, <1>3, <1>5, Offset
<1> QED
  BY <1>1, <1>2, <1>3, <1>4, <1>5

\* Steps in the event loop that leave its list and its clients alone.
LEMMA QuietLoop ==
    ASSUME Inv,
           \/ LoopEnd \/ Poll \/ PollFail \/ PassSkip \/ PassEnd
           \/ StopLock \/ StopSet \/ StopNotify \/ StopUnlock
           \/ PassReap \/ JoinMain \/ Exit
    PROVE  Inv'
<1> USE DEF Inv
<1>1. UNCHANGED <<runs, workers, entries, clientVars, peer, sigterm>>
  BY DEF LoopEnd, Poll, PollFail, PassSkip, PassEnd, StopLock, StopSet, StopNotify, StopUnlock,
         PassReap, JoinMain, Exit, serverVars, loopVars
<1>2. /\ entries \in Seq(Fds) /\ polled \in Seq(Fds) /\ i \in Nat /\ entry \in Fds \union {"null"}
      /\ failures \in Nat /\ Len(polled) \in Nat /\ revents \subseteq Fds
  BY DEF TypeOK, Fds
<1>3. mpc' = mpc \/ (mpc = "waiting" /\ mpc' = "relock")
  BY DEF LoopEnd, Poll, PollFail, PassSkip, PassEnd, StopLock, StopSet, StopNotify, StopUnlock,
         PassReap, JoinMain, Exit, server_notify
<1>4. /\ lpc' \in {"loop", "pass", "set_stopping", "stop_notify", "stop_unlock", "reap", "join_main",
                   "join_clients", "exited"}
      /\ lpc' \in Over => mpc = "exited"
      /\ lpc' = "exited" => clientQueue = << >>
      /\ lpc \notin Over \/ lpc' \in Over
  BY DEF LoopEnd, Poll, PollFail, PassSkip, PassEnd, StopLock, StopSet, StopNotify, StopUnlock,
         PassReap, JoinMain, Exit, InPass, Over, TypeOK, QueueInv
<1>5. CASE Poll
  <2>1. /\ lpc' = "pass" /\ i' = 1 /\ entry' = Head(entries) /\ polled' = entries
        /\ revents' = {fd \in Range_(entries) : Readable(fd)} /\ revents' # {}
        /\ UNCHANGED <<serverVars, mpc, failures>> /\ lpc = "loop" /\ failed' = FALSE
    BY <1>5 DEF Poll
  <2>2. Len(entries) \in Nat /\ DOMAIN entries # {} /\ entries \in [1 .. Len(entries) -> Fds]
    BY <1>2, <2>1 DEF Range_
  <2>3. entry' = entries[1] /\ entry' \in Fds
    BY <1>2, <2>1, <2>2
  <2>4. revents' \subseteq Fds
    BY <2>1, <2>2 DEF Range_
  <2>5. TypeOK'
    BY <1>1, <1>2, <2>1, <2>3, <2>4 DEF TypeOK, serverVars, clientVars, Fds
  <2>6. PassInv'
    <3>1. \A k \in 1 .. Len(entries) : 0 + k \in DOMAIN entries /\ entries[0 + k] = entries[k]
      BY <2>2
    <3>2. Follows(entries, entries, 1)
      BY <3>1 DEF Follows
    <3> QED
      BY <1>1, <2>1, <2>3, <3>2 DEF PassInv, Stopping
  <2>7. ListInv'
    <3>1. \A c \in Conns : c \in revents' => eventfd[c]
      BY <2>1, NamesDiffer DEF Readable
    <3> QED
      BY <1>1, <2>1, <3>1 DEF ListInv, clientVars, Over
  <2>8. MtxInv' /\ PairInv' /\ QueueInv' /\ NoLostWakeup'
    BY <1>1, <2>1 DEF MtxInv, PairInv, QueueInv, NoLostWakeup, server_ready_for_action, serverVars, clientVars, Stopping, Over, Range_
  <2> QED
    BY <2>5, <2>6, <2>7, <2>8
<1>6. CASE ~Poll
  <2>1. \/ polled' = polled /\ revents' = revents
        \/ polled' = << >> /\ revents' = {}
    BY <1>6 DEF LoopEnd, PollFail, PassSkip, PassEnd, StopLock, StopSet, StopNotify, StopUnlock,
                PassReap, JoinMain, Exit, loopVars, Passing, Stopping
  <2>2. /\ i' \in Nat /\ entry' \in Fds \union {"null"}
        /\ lpc' \in Passing /\ i' <= Len(polled') => entry' = polled'[i'] /\ Follows(entries', polled', i')
    <3>1. CASE PassSkip \/ StopUnlock
      <4>1. lpc \in Passing /\ i <= Len(polled) /\ Advance /\ UNCHANGED polled
        BY <3>1 DEF PassSkip, StopUnlock, InPass, Unlock, MtxInv, PassInv, Passing, Stopping
      <4> QED
        BY <1>1, <1>2, <4>1, AdvanceKeeps
    <3>2. CASE PassEnd
      BY <3>2 DEF PassEnd, Passing, Stopping
    <3>3. CASE UNCHANGED <<polled, i, entry>> /\ (lpc \in Passing \/ lpc' \notin Passing)
      BY <1>1, <1>2, <3>3 DEF PassInv
    <3> QED
      BY <1>6, <3>1, <3>2, <3>3
      DEF LoopEnd, PollFail, StopLock, StopSet, StopNotify, PassReap, JoinMain, Exit, InPass, loopVars, Passing, Stopping
  <2>3. /\ lpc' \in {"reap"} \union Stopping => i' <= Len(polled')
        /\ lpc' = "reap" => entry' \in Conns /\ entry' \in revents'
    BY <1>6 DEF LoopEnd, PollFail, PassSkip, PassEnd, StopLock, StopSet, StopNotify, StopUnlock,
                PassReap, JoinMain, Exit, InPass, loopVars, Stopping, PassInv
  <2>4. PassInv'
    BY <2>2, <2>3 DEF PassInv
  <2>5. ListInv'
    BY <1>1, <1>4, <2>1 DEF ListInv, clientVars
  <2>6. QueueInv'
    BY <1>1, <1>3, <1>4 DEF QueueInv, clientVars, Range_
  <2>10. PairInv'
    BY <1>1, <1>3 DEF PairInv
  <2>7. MtxInv'
    <3>1. mpc' \in Assigning <=> mpc \in Assigning
      BY <1>3 DEF Assigning
    <3>2. UNCHANGED cpc
      BY <1>1 DEF clientVars
    <3>3. CASE StopLock
      BY <1>1, <3>1, <3>2, <3>3, NamesDiffer DEF StopLock, Lock, MtxInv, Stopping
    <3>4. CASE StopUnlock
      BY <1>1, <3>1, <3>2, <3>4, NamesDiffer DEF StopUnlock, Unlock, MtxInv, Stopping
    <3>5. CASE UNCHANGED mtx /\ (lpc \in Stopping <=> lpc' \in Stopping)
      BY <3>1, <3>2, <3>5 DEF MtxInv
    <3> QED
      BY <1>6, <3>3, <3>4, <3>5
      DEF LoopEnd, PollFail, PassSkip, PassEnd, StopSet, StopNotify, PassReap, JoinMain, Exit, InPass, serverVars, Stopping
  <2>8. TypeOK'
    <3>1. mtx' \in {mtx, "listen", "free"} /\ stopping' \in {stopping, TRUE} /\ failed' = failed
      BY <1>6
      DEF LoopEnd, PollFail, PassSkip, PassEnd, StopLock, StopSet, StopNotify, StopUnlock,
          PassReap, JoinMain, Exit, Lock, Unlock, serverVars, loopVars
    <3>3. failures' \in {failures, failures + 1}
      BY <1>6
      DEF LoopEnd, PollFail, PassSkip, PassEnd, StopLock, StopSet, StopNotify, StopUnlock,
          PassReap, JoinMain, Exit, Fail, serverVars, loopVars
    <3>2. polled' \in Seq(Fds) /\ revents' \subseteq Fds
      <4>1. << >> \in Seq(Fds)
        OBVIOUS
      <4> QED
        BY <1>2, <2>1, <4>1
    <3>4. /\ mtx' \in {"free", "main", "listen"} \union Conns
          /\ stopping' \in BOOLEAN /\ failed' \in BOOLEAN /\ failures' \in Nat
          /\ mpc' \in {"lock", "check", "sending", "waiting", "relock", "exited"}
      <4>1. failures' \in Nat
        BY <1>2, <3>3
      <4>2. stopping' \in BOOLEAN /\ failed' \in BOOLEAN
        BY <3>1, Zenon DEF TypeOK
      <4>3. mtx' \in {"free", "main", "listen"} \union Conns
        BY <3>1 DEF TypeOK
      <4>4. mpc' \in {"lock", "check", "sending", "waiting", "relock", "exited"}
        BY <1>3 DEF TypeOK
      <4> QED
        BY <4>1, <4>2, <4>3, <4>4
    <3> QED
      BY <1>1, <1>4, <2>2, <3>2, <3>4 DEF TypeOK, clientVars, Fds
  <2>9. NoLostWakeup'
    <3> SUFFICES ASSUME mpc' = "waiting", server_ready_for_action'
                 PROVE  lpc' = "stop_notify" \/ \E d \in Conns : cpc'[d] = "notify"
      BY DEF NoLostWakeup
    <3>1. mpc = "waiting"
      BY <1>3
    <3>2. ~StopNotify
      BY <3>1 DEF StopNotify, server_notify
    <3>3. CASE StopSet
      BY <3>3 DEF StopSet
    <3>4. CASE ~StopSet
      <4>1. UNCHANGED stopping /\ lpc # "stop_notify"
        BY <1>6, <3>2, <3>4
        DEF LoopEnd, PollFail, PassSkip, PassEnd, StopLock, StopUnlock, PassReap, JoinMain, Exit, InPass,
            serverVars, MtxInv, Stopping
      <4> QED
        BY <1>1, <3>1, <4>1 DEF NoLostWakeup, server_ready_for_action, clientVars
    <3> QED
      BY <3>3, <3>4
  <2> QED
    BY <2>4, <2>5, <2>6, <2>7, <2>8, <2>9, <2>10
<1> QED
  BY <1>5, <1>6

\* A connection is accepted, or fails to be, perhaps with its entry left behind.
LEMMA AcceptKeeps ==
    ASSUME Inv, PassAccept
    PROVE  Inv'
<1> USE DEF Inv
<1>1. UNCHANGED <<serverVars, mpc, lpc, polled, revents, item, eventfd, peer, sigterm>> /\ Advance
      /\ lpc = "pass" /\ i <= Len(polled)
  BY DEF PassAccept, InPass
<1>2. /\ cpc \in [Conns -> {"none", "recv", "lock", "add", "notify", "unlock",
                           "reply", "finish", "returning", "returned", "reaped"}]
      /\ entries \in Seq(Fds) /\ clientQueue \in Seq(Conns) /\ failures \in Nat /\ failed \in BOOLEAN
  BY DEF TypeOK, Fds
<1>3. \/ UNCHANGED <<entries, clientQueue, cpc>>
      \/ \E c \in Conns :
            /\ cpc[c] = "none"
            /\ \/ /\ entries' = Append(entries, c) /\ clientQueue' = Append(clientQueue, c)
                  /\ cpc' = [cpc EXCEPT ![c] = "recv"]
               \/ /\ entries' \in {entries, Append(entries, c)} /\ clientQueue' = clientQueue
                  /\ cpc' = [cpc EXCEPT ![c] = "reaped"]
  BY DEF PassAccept, Pending
<1>4. failed' \in {failed, TRUE} /\ failures' \in {failures, failures + 1}
  BY DEF PassAccept, Fail
<1>5. /\ entries' \in Seq(Fds) /\ clientQueue' \in Seq(Conns)
      /\ entries' = entries \/ \E x \in Fds : entries' = Append(entries, x)
  <2>1. CASE UNCHANGED <<entries, clientQueue>>
    BY <1>2, <2>1
  <2>2. ASSUME NEW c \in Conns, entries' \in {entries, Append(entries, c)},
               clientQueue' \in {clientQueue, Append(clientQueue, c)}
        PROVE  /\ entries' \in Seq(Fds) /\ clientQueue' \in Seq(Conns)
               /\ entries' = entries \/ \E x \in Fds : entries' = Append(entries, x)
    <3>1. c \in Fds
      BY DEF Fds
    <3>2. Append(entries, c) \in Seq(Fds) /\ Append(clientQueue, c) \in Seq(Conns)
      BY <1>2, <3>1
    <3> QED
      BY <1>2, <2>2, <3>1, <3>2
  <2> QED
    BY <1>3, <2>1, <2>2
<1>6. /\ i' \in Nat /\ entry' \in Fds \union {"null"}
      /\ i' <= Len(polled') => entry' = polled'[i'] /\ Follows(entries', polled', i')
  BY <1>1, <1>5, AdvanceKeeps DEF Passing
<1>7. /\ cpc' \in [Conns -> {"none", "recv", "lock", "add", "notify", "unlock",
                            "reply", "finish", "returning", "returned", "reaped"}]
      /\ \A d \in Conns : cpc'[d] = cpc[d] \/ (cpc[d] = "none" /\ cpc'[d] \in {"recv", "reaped"})
  BY <1>2, <1>3
<1>8. TypeOK'
  <2>1. failed' \in BOOLEAN
    BY <1>2, <1>4, Zenon
  <2>2. failures' \in Nat
    BY <1>2, <1>4
  <2> QED
    BY <1>1, <1>5, <1>6, <1>7, <2>1, <2>2 DEF TypeOK, Fds, serverVars
<1>9. MtxInv' /\ PairInv' /\ NoLostWakeup'
  BY <1>1, <1>7 DEF MtxInv, PairInv, NoLostWakeup, server_ready_for_action, serverVars, Stopping
<1>10. PassInv'
  BY <1>1, <1>6 DEF PassInv, Stopping
<1>11. QueueInv'
  <2>1. ASSUME NEW d \in Conns, cpc'[d] \notin {"none", "reaped"}
        PROVE  d \in Range_(clientQueue')
    <3>1. CASE cpc[d] # "none"
      <4>1. PICK k \in DOMAIN clientQueue : clientQueue[k] = d
        BY <1>7, <2>1, <3>1 DEF QueueInv, Range_
      <4>2. k \in DOMAIN clientQueue' /\ clientQueue'[k] = d
        <5>1. CASE UNCHANGED clientQueue
          BY <4>1, <5>1
        <5>2. ASSUME NEW c \in Conns, clientQueue' = Append(clientQueue, c)
              PROVE  k \in DOMAIN clientQueue' /\ clientQueue'[k] = d
          BY <1>2, <4>1, <5>2
        <5> QED
          BY <1>3, <5>1, <5>2
      <4> QED
        BY <4>2 DEF Range_
    <3>2. CASE cpc[d] = "none"
      <4>1. clientQueue' = Append(clientQueue, d)
        BY <1>2, <1>3, <2>1, <3>2
      <4>2. Len(clientQueue) + 1 \in DOMAIN clientQueue' /\ clientQueue'[Len(clientQueue) + 1] = d
        BY <1>2, <4>1
      <4> QED
        BY <4>2 DEF Range_
    <3> QED
      BY <3>1, <3>2
  <2> QED
    BY <1>1, <2>1 DEF QueueInv, Over
<1>12. ListInv'
  <2>1. ASSUME UNCHANGED entries
        PROVE  ListInv'
    BY <1>1, <1>2, <1>7, <2>1 DEF ListInv, Over
  <2>2. ASSUME NEW c \in Conns, cpc[c] = "none", cpc'[c] # "none", entries' = Append(entries, c)
        PROVE  ListInv'
    <3>1. /\ DOMAIN entries' = DOMAIN entries \union {Len(entries) + 1}
          /\ entries'[Len(entries) + 1] = c
          /\ \A k \in DOMAIN entries : entries'[k] = entries[k]
      BY <1>2, <2>2
    <3>2. \A k \in DOMAIN entries : entries[k] # c
      BY <2>2 DEF ListInv
    <3>3. Distinct(entries')
      BY <3>1, <3>2 DEF ListInv, Distinct
    <3>4. ~eventfd[c]
      BY <2>2 DEF ListInv
    <3>5. \A d \in Conns : eventfd[d] => cpc'[d] = cpc[d]
      BY <1>7 DEF ListInv
    <3>6. \A k \in DOMAIN entries' : entries'[k] \in Conns =>
            cpc'[entries'[k]] # "none" /\ (cpc'[entries'[k]] = "reaped" => ~eventfd[entries'[k]])
      <4>1. ASSUME NEW k \in DOMAIN entries, entries[k] \in Conns
            PROVE  cpc'[entries[k]] # "none" /\ (cpc'[entries[k]] = "reaped" => ~eventfd[entries[k]])
        BY <1>1, <1>7, <4>1 DEF ListInv, Over
      <4> QED
        BY <2>2, <3>1, <3>4, <4>1
    <3> QED
      BY <1>1, <3>3, <3>5, <3>6 DEF ListInv
  <2> QED
    BY <1>2, <1>3, <2>1, <2>2
<1> QED
  BY <1>8, <1>9, <1>10, <1>11, <1>12

\* A client thread that was joined leaves both lists.
LEMMA ReapKeeps ==
    ASSUME Inv, Reap
    PROVE  Inv'
<1> USE DEF Inv
<1>1. /\ UNCHANGED <<serverVars, mpc, polled, revents, failed, failures, item, eventfd, peer, sigterm>>
      /\ Advance /\ lpc = "reap" /\ lpc' = "pass"
      /\ cpc[entry] = "returned" /\ cpc' = [cpc EXCEPT ![entry] = "reaped"]
      /\ clientQueue' = Without(clientQueue, entry) /\ entries' = Without(entries, entry)
  BY DEF Reap
<1>2. /\ cpc \in [Conns -> {"none", "recv", "lock", "add", "notify", "unlock",
                           "reply", "finish", "returning", "returned", "reaped"}]
      /\ entries \in Seq(Fds) /\ clientQueue \in Seq(Conns) /\ polled \in Seq(Fds) /\ i \in Nat
  BY DEF TypeOK, Fds
<1>3. entry \in Conns /\ i <= Len(polled) /\ entry = polled[i] /\ Follows(entries, polled, i)
  BY <1>1 DEF PassInv, Passing
<1>4. entry \in Range_(entries)
  <2>1. i \in i .. Len(polled)
    BY <1>2, <1>3
  <2> QED
    BY <1>3, <2>1 DEF Follows, Range_
<1>5. entry \in Range_(clientQueue)
  BY <1>1, <1>3 DEF QueueInv
<1>6. clientQueue' \in Seq(Conns)
  BY <1>1, <1>2, <1>5, WithoutFacts
<1>7. entries' \in Seq(Fds)
  BY <1>1, <1>2, <1>4, WithoutFacts
<1>8. /\ i' \in Nat /\ entry' \in Fds \union {"null"}
      /\ i' <= Len(polled') => entry' = polled'[i'] /\ Follows(entries', polled', i')
  BY <1>1, <1>3, <1>7, AdvanceKeeps DEF Passing
<1>9. TypeOK'
  BY <1>1, <1>2, <1>6, <1>7, <1>8 DEF TypeOK, Fds, serverVars
<1>10. MtxInv' /\ PairInv' /\ NoLostWakeup'
  BY <1>1, <1>2, <1>3 DEF MtxInv, PairInv, NoLostWakeup, server_ready_for_action, serverVars, Stopping
<1>11. PassInv'
  BY <1>1, <1>8 DEF PassInv, Stopping
<1>12. QueueInv'
  <2>1. ASSUME NEW d \in Conns, cpc'[d] \notin {"none", "reaped"}
        PROVE  d \in Range_(clientQueue')
    <3>1. d # entry /\ cpc[d] \notin {"none", "reaped"}
      BY <1>1, <1>2, <1>3, <2>1
    <3>2. d \in Range_(clientQueue)
      BY <3>1 DEF QueueInv
    <3> QED
      BY <1>1, <1>2, <1>5, <3>1, <3>2, OthersRemain
  <2> QED
    BY <1>1, <2>1 DEF QueueInv, Over
<1>13. ListInv'
  <2>1. Distinct(entries') /\ Range_(entries') \subseteq Range_(entries) \ {entry}
    BY <1>1, <1>2, <1>4, NothingNew DEF ListInv
  <2>2. ASSUME NEW k \in DOMAIN entries', entries'[k] \in Conns
        PROVE  /\ cpc'[entries'[k]] # "none"
               /\ cpc'[entries'[k]] = "reaped" => ~eventfd[entries'[k]]
    <3>1. entries'[k] # entry /\ \E l \in DOMAIN entries : entries[l] = entries'[k]
      BY <2>1 DEF Range_
    <3>2. cpc'[entries'[k]] = cpc[entries'[k]]
      BY <1>1, <1>2, <2>2, <3>1
    <3> QED
      BY <1>1, <2>2, <3>1, <3>2 DEF ListInv, Over
  <2>3. \A c \in Conns : eventfd[c] => cpc'[c] \in {"returning", "returned", "reaped"}
    BY <1>1, <1>2 DEF ListInv
  <2> QED
    BY <1>1, <2>1, <2>2, <2>3 DEF ListInv
<1> QED
  BY <1>9, <1>10, <1>11, <1>12, <1>13

LEMMA JoinKeeps ==
    ASSUME Inv, JoinClient
    PROVE  Inv'
<1> USE DEF Inv
<1> DEFINE h == Head(clientQueue)
<1>1. /\ UNCHANGED <<serverVars, mpc, lpc, loopVars, item, eventfd, peer, sigterm>> /\ lpc = "join_clients"
      /\ clientQueue # << >> /\ cpc[h] = "returned"
      /\ cpc' = [cpc EXCEPT ![h] = "reaped"] /\ clientQueue' = Tail(clientQueue)
  BY DEF JoinClient
<1>2. /\ cpc \in [Conns -> {"none", "recv", "lock", "add", "notify", "unlock",
                           "reply", "finish", "returning", "returned", "reaped"}]
      /\ clientQueue \in Seq(Conns)
  BY DEF TypeOK
<1>3. /\ clientQueue' \in Seq(Conns) /\ h \in Conns /\ h = clientQueue[1]
      /\ DOMAIN clientQueue = 1 .. Len(clientQueue) /\ Len(clientQueue) \in Nat
      /\ \A k \in DOMAIN clientQueue : k # 1 =>
            k - 1 \in DOMAIN clientQueue' /\ clientQueue'[k - 1] = clientQueue[k]
  BY <1>1, <1>2
<1> HIDE DEF h
<1>4. TypeOK'
  BY <1>1, <1>2, <1>3 DEF TypeOK, serverVars, loopVars
<1>5. MtxInv' /\ PairInv' /\ NoLostWakeup'
  BY <1>1, <1>2, <1>3 DEF MtxInv, PairInv, NoLostWakeup, server_ready_for_action, serverVars, Stopping
<1>6. PassInv' /\ ListInv'
  BY <1>1, <1>2, <1>3 DEF PassInv, ListInv, Passing, Stopping, Over, loopVars
<1>7. QueueInv'
  <2>1. ASSUME NEW d \in Conns, cpc'[d] \notin {"none", "reaped"}
        PROVE  d \in Range_(clientQueue')
    <3>1. d # h /\ cpc[d] \notin {"none", "reaped"}
      BY <1>1, <1>2, <2>1
    <3>2. PICK k \in DOMAIN clientQueue : clientQueue[k] = d
      BY <3>1 DEF QueueInv, Range_
    <3>3. k - 1 \in DOMAIN clientQueue' /\ clientQueue'[k - 1] = d
      BY <1>3, <3>1, <3>2
    <3> QED
      BY <3>3 DEF Range_
  <2> QED
    BY <1>1, <2>1 DEF QueueInv, Over
<1> QED
  BY <1>4, <1>5, <1>6, <1>7

LEMMA OutsideKeeps ==
    ASSUME Inv, (\E c \in Conns : Connect(c) \/ Speak(c)) \/ Signal \/ Terminated \/ UNCHANGED vars
    PROVE  Inv'
<1> USE DEF Inv
<1>1. UNCHANGED <<serverVars, mpc, lpc, loopVars, clientVars>>
  BY DEF Connect, Speak, Signal, Terminated, vars
<1>2. peer' \in [Conns -> {"new", "connected", "sent", "closed"}] /\ sigterm' \in BOOLEAN
  BY ZenonT(60) DEF TypeOK, Connect, Speak, Signal, Terminated, vars
<1>3. TypeOK'
  BY <1>1, <1>2 DEF TypeOK, serverVars, loopVars, clientVars
<1>4. MtxInv' /\ PairInv' /\ ListInv' /\ PassInv' /\ QueueInv' /\ NoLostWakeup'
  BY <1>1
  DEF MtxInv, PairInv, ListInv, PassInv, QueueInv, NoLostWakeup, server_ready_for_action, Range_,
      serverVars, loopVars, clientVars
<1> QED
  BY <1>3, <1>4

LEMMA InvStep == Inv /\ [Next]_vars => Inv'
  BY MainKeeps, ThreadKeeps, QuietLoop, AcceptKeeps, ReapKeeps, JoinKeeps, OutsideKeeps DEF Next, ListenStep

THEOREM Invariance == Spec => []Inv
  BY InvInit, InvStep, PTL DEF Spec

-----------------------------------------------------------------------------
(* Theorems *)

\* TypeOK (server.c, event_loop.c, tcp_server.c): in particular, lengths of
\* queues stay natural numbers and the pass never leaves the list.
THEOREM Typing == Spec => []TypeOK
<1>1. Inv => TypeOK
  BY DEF Inv
<1> QED
  BY <1>1, Invariance, PTL

\* server_lock, server_unlock: the threads take turns.
MutualExclusion ==
    /\ \A c, d \in Conns : cpc[c] \in {"add", "notify", "unlock"} /\ cpc[d] \in {"add", "notify", "unlock"} => c = d
    /\ \A c \in Conns : ~(cpc[c] \in {"add", "notify", "unlock"} /\ (mpc \in Assigning \/ lpc \in Stopping))
    /\ ~(mpc \in Assigning /\ lpc \in Stopping)

\* MutualExclusion (server_lock): the queues and `stopping` are read and written
\* by one thread at a time.
THEOREM Exclusion == Spec => []MutualExclusion
<1>1. Inv => MutualExclusion
  BY NamesDiffer DEF Inv, MtxInv, MutualExclusion
<1> QED
  BY <1>1, Invariance, PTL

\* NoLostWakeup (server_wait_for_action): the main thread never sleeps through
\* a pair of a run and a worker, or a stop.
THEOREM NoWakeupLost == Spec => []NoLostWakeup
<1>1. Inv => NoLostWakeup
  BY DEF Inv
<1> QED
  BY <1>1, Invariance, PTL

\* PassFollowsPoll (event_loop_run): a handler is called for the descriptor
\* whose events are looked at, though the list changes during the pass.
THEOREM PassInStep == Spec => []PassFollowsPoll
<1>1. Inv => PassFollowsPoll
  BY DEF Inv, PassInv, PassFollowsPoll, Passing, Stopping
<1> QED
  BY <1>1, Invariance, PTL

\* JoinIsShort (client_destroy_handler): the event loop joins no thread that
\* may still wait for its peer or for the mutex.
THEOREM JoinsAreShort == Spec => []JoinIsShort
<1>1. Inv => JoinIsShort
  <2> SUFFICES ASSUME Inv, lpc = "reap"
               PROVE  cpc[entry] \in {"returning", "returned"}
    BY DEF JoinIsShort
  <2>1. entry \in Conns /\ entry \in revents /\ i <= Len(polled) /\ entry = polled[i] /\ Follows(entries, polled, i)
    BY DEF Inv, PassInv, Passing
  <2>2. i \in Nat /\ polled \in Seq(Fds) /\ i \in i .. Len(polled)
    BY <2>1 DEF Inv, TypeOK, Fds
  <2>3. \E k \in DOMAIN entries : entries[k] = entry
    BY <2>1, <2>2 DEF Follows
  <2> QED
    BY <2>1, <2>3 DEF Inv, ListInv, Over
<1> QED
  BY <1>1, Invariance, PTL

\* NoThreadOutlivesServer (server_destroy): what is destroyed is used by no
\* thread any more, and the client queue has all that are alive.
THEOREM ThreadsEndFirst == Spec => []NoThreadOutlivesServer
<1>1. Inv => NoThreadOutlivesServer
  <2> SUFFICES ASSUME Inv
               PROVE  NoThreadOutlivesServer
    OBVIOUS
  <2>1. clientQueue = << >> => Range_(clientQueue) = {}
    BY DEF Range_
  <2> QED
    BY <2>1 DEF Inv, QueueInv, NoThreadOutlivesServer, Over
<1> QED
  BY <1>1, Invariance, PTL

-----------------------------------------------------------------------------
(* Who waits for whom *)

\* The guards of MainStep, ThreadStep and ListenStep, PassAccept's without its
\* failures: what a thread needs to go on.  MainSent and ThreadReply are left to
\* the peers.
MainCanGo == mpc = "check" \/ (mpc \in {"lock", "relock"} /\ mtx = "free")

ThreadCanGo(c) ==
    \/ cpc[c] = "recv" /\ peer[c] \in {"sent", "closed"}
    \/ cpc[c] = "lock" /\ mtx = "free"
    \/ cpc[c] \in {"add", "notify", "unlock", "finish", "returning"}

PassCanGo ==
    \/ i > Len(polled)
    \/ entry \notin revents
    \/ entry \in Conns
    \/ entry = "signal" /\ mtx = "free"
    \/ entry = "accept" /\ Pending # {}

ListenCanGo ==
    \/ lpc = "loop" /\ (stopping \/ \E fd \in Range_(entries) : Readable(fd))
    \/ lpc = "pass" /\ PassCanGo
    \/ lpc \in Stopping
    \/ lpc = "reap" /\ cpc[entry] = "returned"
    \/ lpc = "join_main" /\ mpc = "exited"
    \/ lpc = "join_clients" /\ (clientQueue = << >> \/ cpc[Head(clientQueue)] = "returned")

SomebodyCanGo == MainCanGo \/ ListenCanGo \/ \E c \in Conns : ThreadCanGo(c)

\* The thread is in net_recv with no request to read, or in net_send.
AwaitsItsPeer(c) == cpc[c] = "reply" \/ (cpc[c] = "recv" /\ peer[c] = "connected")

\* The server has done what it was asked: it waits for connections, and its
\* client threads wait for requests, or for their answers to be read.
Idle ==
    /\ lpc = "loop" /\ ~stopping /\ ~sigterm /\ Pending = {}
    /\ mpc = "waiting" /\ (runs = 0 \/ workers = 0)
    /\ \A c \in Conns : cpc[c] \in {"none", "reaped"} \/ AwaitsItsPeer(c)

\* The event loop failed, and its thread joins a main thread that nobody stops.
Deaf == lpc = "join_main" /\ mpc = "waiting" /\ ~stopping /\ failures > 0

\* server_assign_run, with server_mtx held, sends to a worker that does not
\* read, or server_destroy joins a client thread whose peer neither sends nor
\* reads.
AwaitsPeer ==
    \/ mpc = "sending"
    \/ lpc = "join_clients" /\ clientQueue # << >> /\ AwaitsItsPeer(Head(clientQueue))

\* The loop ends, and the main thread, for a reason.
StopInv ==
    /\ mpc = "exited" => stopping
    /\ failed => failures > 0
    /\ lpc \in {"join_main"} \union Over => stopping \/ failures > 0

\* poll watches the two fixed descriptors, and until the listening socket's
\* turn in the pass nobody takes the connection that made it readable.
PollInv ==
    /\ Fixed \subseteq Range_(entries)
    /\ Distinct(polled) /\ i > 0
    /\ lpc \in Passing /\ "accept" \in revents /\ (\E k \in i .. Len(polled) : polled[k] = "accept") =>
        Pending # {}

\* A thread that lives is watched, has told so when it is about to return, and
\* has a peer; whoever is in the client queue lives, and is there once.
AliveInv ==
    /\ \A c \in Conns :
        /\ cpc[c] # "none" => peer[c] # "new"
        /\ cpc[c] \notin {"none", "reaped"} => c \in Range_(entries)
        /\ cpc[c] \in {"returning", "returned"} => eventfd[c]
    /\ Distinct(clientQueue)
    /\ \A k \in DOMAIN clientQueue : cpc[clientQueue[k]] \notin {"none", "reaped"}

WaitInv == StopInv /\ PollInv /\ AliveInv

LEMMA WaitInit == Init => WaitInv
<1> SUFFICES ASSUME Init PROVE WaitInv
  OBVIOUS
<1> USE DEF Init
<1>1. DOMAIN entries = 1 .. 2 /\ entries[1] = "signal" /\ entries[2] = "accept"
  OBVIOUS
<1>2. DOMAIN << >> = {}
  OBVIOUS
<1>3. StopInv
  BY DEF StopInv, Over
<1>4. PollInv
  <2>1. Fixed \subseteq Range_(entries)
    BY <1>1 DEF Fixed, Range_
  <2> QED BY <1>2, <2>1 DEF PollInv, Distinct, Passing, Stopping
<1>5. AliveInv
  BY <1>2 DEF AliveInv, Distinct
<1> QED BY <1>3, <1>4, <1>5 DEF WaitInv

\* The main thread, the client threads and the world outside.
LEMMA OthersWait ==
    ASSUME Inv, WaitInv,
           \/ MainStep \/ MainSent \/ MainSpurious \/ Signal \/ Terminated \/ UNCHANGED vars
           \/ \E c \in Conns : ThreadStep(c) \/ ThreadReply(c) \/ Connect(c) \/ Speak(c)
    PROVE  WaitInv'
<1>1. UNCHANGED <<stopping, lpc, loopVars, clientQueue>>
  BY DEF MainStep, MainLock, MainWait, MainAssign, MainSend, MainSent, MainExit, MainSpurious, Signal, Terminated, vars, serverVars,
         clientVars, ThreadStep, ThreadRecv, ThreadLock, ThreadAdd, ThreadNotify, ThreadUnlock, ThreadReply, ThreadFinish,
         ThreadReturn, Connect, Speak
<1>2. mpc' = "exited" => mpc = "exited" \/ stopping
  BY DEF MainStep, MainLock, MainWait, MainAssign, MainSend, MainSent, MainExit, MainSpurious, Signal, Terminated, vars,
         ThreadStep, ThreadRecv, ThreadLock, ThreadAdd, ThreadNotify, server_notify, ThreadUnlock, ThreadReply, ThreadFinish,
         ThreadReturn, Connect, Speak
<1>3. \A c \in Conns : peer'[c] = "new" => peer[c] = "new"
  BY DEF Inv, TypeOK, MainStep, MainLock, MainWait, MainAssign, MainSend, MainSent, MainExit, MainSpurious, Signal, Terminated, vars,
         ThreadStep, ThreadRecv, ThreadLock, ThreadAdd, ThreadNotify, ThreadUnlock, ThreadReply, ThreadFinish,
         ThreadReturn, Connect, Speak
<1> DEFINE Onward(c) ==
        /\ cpc'[c] = "none" <=> cpc[c] = "none"
        /\ cpc'[c] = "reaped" <=> cpc[c] = "reaped"
        /\ cpc'[c] \in {"returning", "returned"} => eventfd'[c] \/ cpc[c] \in {"returning", "returned"}
        /\ eventfd[c] => eventfd'[c]
<1>4. \A c \in Conns : Onward(c)
  <2>1. ASSUME UNCHANGED <<cpc, eventfd>>
        PROVE  \A c \in Conns : Onward(c)
    BY <2>1
  <2>2. ASSUME NEW d \in Conns, ThreadStep(d) \/ ThreadReply(d)
        PROVE  \A c \in Conns : Onward(c)
    BY <2>2 DEF Inv, TypeOK, ThreadStep, ThreadRecv, ThreadLock, ThreadAdd, ThreadNotify, ThreadUnlock, ThreadReply,
                ThreadFinish, ThreadReturn
  <2> QED
    BY <2>1, <2>2
    DEF MainStep, MainLock, MainWait, MainAssign, MainSend, MainSent, MainExit, MainSpurious, Signal, Terminated, vars, clientVars,
        Connect, Speak
<1>5. Pending \subseteq Pending'
  BY <1>3, <1>4 DEF Pending
<1>6. StopInv'
  BY <1>1, <1>2 DEF WaitInv, StopInv, loopVars
<1>7. PollInv'
  BY <1>1, <1>5 DEF WaitInv, PollInv, loopVars
<1>8. AliveInv'
  <2>1. \A k \in DOMAIN clientQueue : clientQueue[k] \in Conns
    BY DEF Inv, TypeOK
  <2> QED BY <1>1, <1>3, <1>4, <2>1 DEF WaitInv, AliveInv, loopVars
<1> QED BY <1>6, <1>7, <1>8 DEF WaitInv

\* The event loop, but for what it does to its list and its clients.
LEMMA LoopWaits ==
    ASSUME Inv, WaitInv,
           \/ LoopEnd \/ Poll \/ PollFail \/ PassSkip \/ PassEnd
           \/ StopLock \/ StopSet \/ StopNotify \/ StopUnlock
           \/ PassReap \/ JoinMain \/ Exit
    PROVE  WaitInv'
<1>1. UNCHANGED <<entries, clientVars, peer>>
  BY DEF LoopEnd, Poll, PollFail, PassSkip, PassEnd, StopLock, StopSet, StopNotify, StopUnlock,
         PassReap, JoinMain, Exit, loopVars
<1>2. failures \in Nat /\ i \in Nat /\ Len(polled) \in Nat
  BY DEF Inv, TypeOK
<1>3. StopInv'
  <2>1. (stopping => stopping') /\ (mpc' = "exited" => mpc = "exited")
    BY DEF LoopEnd, Poll, PollFail, PassSkip, PassEnd, StopLock, StopSet, StopNotify, server_notify, StopUnlock,
           PassReap, JoinMain, Exit, serverVars
  <2>2. failures' >= failures /\ (failed' => failed) /\ (PollFail => failures' > 0)
    BY <1>2 DEF LoopEnd, Poll, PollFail, Fail, PassSkip, PassEnd, StopLock, StopSet, StopNotify, StopUnlock,
           PassReap, JoinMain, Exit, loopVars
  <2>3. lpc' \in {"join_main"} \union Over =>
            PollFail \/ stopping \/ failed \/ lpc \in {"join_main"} \union Over
    BY DEF LoopEnd, Poll, PollFail, PassSkip, PassEnd, StopLock, StopSet, StopNotify, StopUnlock,
           PassReap, JoinMain, Exit, Over
  <2>4. failures' \in Nat
    BY <1>2 DEF LoopEnd, Poll, PollFail, Fail, PassSkip, PassEnd, StopLock, StopSet, StopNotify, StopUnlock,
           PassReap, JoinMain, Exit, loopVars
  <2>5. failures > 0 => failures' > 0
    BY <1>2, <2>2, <2>4
  <2>6. (mpc' = "exited" => stopping') /\ (failed' => failures' > 0)
    BY <2>1, <2>2, <2>5 DEF WaitInv, StopInv
  <2>7. lpc' \in {"join_main"} \union Over => stopping' \/ failures' > 0
    BY <2>1, <2>2, <2>3, <2>5 DEF WaitInv, StopInv
  <2> QED BY <2>6, <2>7 DEF StopInv
<1>4. Pending' = Pending
  BY <1>1 DEF Pending, clientVars
<1>5. PollInv'
  <2>1. Fixed \subseteq Range_(entries')
    BY <1>1 DEF WaitInv, PollInv
  <2>2. Distinct(polled')
    <3>1. polled' \in {polled, entries, << >>}
      BY DEF LoopEnd, Poll, PollFail, PassSkip, PassEnd, StopLock, StopSet, StopNotify, StopUnlock,
             PassReap, JoinMain, Exit, loopVars
    <3>2. Distinct(<< >>)
      BY DEF Distinct
    <3> QED BY <3>1, <3>2 DEF WaitInv, PollInv, Inv, ListInv
  <2>3. ASSUME lpc' \in Passing, "accept" \in revents', \E k \in i' .. Len(polled') : polled'[k] = "accept"
        PROVE  Pending # {}
    <3>1. CASE Poll
      <4>1. Readable("accept")
        BY <2>3, <3>1 DEF Poll
      <4> QED BY <4>1, NamesDiffer DEF Readable
    <3>2. CASE ~Poll
      <4>1. lpc \in Passing /\ UNCHANGED <<revents, polled>> /\ i' \in {i, i + 1}
        BY <2>3, <3>2
        DEF LoopEnd, PollFail, PassSkip, PassEnd, StopLock, StopSet, StopNotify, StopUnlock,
            PassReap, JoinMain, Exit, loopVars, Passing, Stopping, InPass, Advance
      <4>2. \E k \in i .. Len(polled) : polled[k] = "accept"
        BY <1>2, <2>3, <4>1
      <4> QED BY <2>3, <4>1, <4>2 DEF WaitInv, PollInv
    <3> QED BY <3>1, <3>2
  <2>4. i' > 0
    BY <1>2
    DEF WaitInv, PollInv, LoopEnd, Poll, PollFail, PassSkip, PassEnd, StopLock, StopSet, StopNotify, StopUnlock,
        PassReap, JoinMain, Exit, loopVars, Advance
  <2> QED BY <1>4, <2>1, <2>2, <2>3, <2>4 DEF PollInv
<1>6. AliveInv'
  BY <1>1 DEF WaitInv, AliveInv, clientVars
<1> QED BY <1>3, <1>5, <1>6 DEF WaitInv

LEMMA AcceptWaits ==
    ASSUME Inv, WaitInv, PassAccept
    PROVE  WaitInv'
<1>1. /\ UNCHANGED <<serverVars, mpc, lpc, polled, revents, item, eventfd, peer, sigterm>> /\ i' = i + 1
      /\ lpc = "pass" /\ i <= Len(polled) /\ entry = "accept" /\ entry = polled[i]
  BY DEF PassAccept, InPass, Advance, Inv, PassInv, Passing
<1>2. /\ cpc \in [Conns -> {"none", "recv", "lock", "add", "notify", "unlock",
                           "reply", "finish", "returning", "returned", "reaped"}]
      /\ entries \in Seq(Fds) /\ clientQueue \in Seq(Conns) /\ polled \in Seq(Fds)
      /\ failures \in Nat /\ i \in Nat
  BY DEF Inv, TypeOK, Fds
<1>3. \/ UNCHANGED <<entries, clientQueue, cpc>>
      \/ \E c \in Conns :
            /\ cpc[c] = "none" /\ peer[c] # "new"
            /\ \/ /\ entries' = Append(entries, c) /\ clientQueue' = Append(clientQueue, c)
                  /\ cpc' = [cpc EXCEPT ![c] = "recv"]
               \/ /\ entries' \in {entries, Append(entries, c)} /\ clientQueue' = clientQueue
                  /\ cpc' = [cpc EXCEPT ![c] = "reaped"]
  BY DEF PassAccept, Pending
<1>4. StopInv'
  <2>1. (failed' = failed /\ failures' = failures) \/ failures' = failures + 1
    BY DEF PassAccept, Fail
  <2>2. failures > 0 \/ failures' = failures + 1 => failures' > 0
    BY <1>2, <2>1
  <2> QED BY <1>1, <2>1, <2>2 DEF WaitInv, StopInv, serverVars
<1>5. PollInv'
  <2>1. Range_(entries) \subseteq Range_(entries')
    <3>1. ASSUME NEW c \in Conns
          PROVE  Range_(entries) \subseteq Range_(Append(entries, c))
      <4>1. \A k \in DOMAIN entries : k \in DOMAIN Append(entries, c) /\ Append(entries, c)[k] = entries[k]
        BY <1>2
      <4> QED BY <4>1 DEF Range_
    <3> QED BY <1>3, <3>1
  <2>2. ~\E k \in i' .. Len(polled') : polled'[k] = "accept"
    <3>1. i = 0 \/ i \in DOMAIN polled
      BY <1>1, <1>2
    <3>2. i > 0
      BY DEF WaitInv, PollInv
    <3>3. \A k \in i + 1 .. Len(polled) : k \in DOMAIN polled /\ k # i
      BY <1>2
    <3> QED BY <1>1, <3>1, <3>2, <3>3 DEF WaitInv, PollInv, Distinct
  <2>3. i' > 0
    BY <1>1, <1>2 DEF WaitInv, PollInv
  <2> QED BY <1>1, <2>1, <2>2, <2>3 DEF WaitInv, PollInv
<1>6. AliveInv'
  <2>1. CASE UNCHANGED <<entries, clientQueue, cpc>>
    BY <1>1, <2>1 DEF WaitInv, AliveInv
  <2>2. ASSUME NEW c \in Conns, cpc[c] = "none", peer[c] # "new", entries' = Append(entries, c),
               clientQueue' = Append(clientQueue, c), cpc' = [cpc EXCEPT ![c] = "recv"]
        PROVE  AliveInv'
    <3>1. /\ DOMAIN entries' = DOMAIN entries \union {Len(entries) + 1} /\ entries'[Len(entries) + 1] = c
          /\ \A k \in DOMAIN entries : entries'[k] = entries[k]
      BY <1>2, <2>2
    <3>2. Range_(entries') = Range_(entries) \union {c}
      BY <3>1 DEF Range_
    <3>3. /\ DOMAIN clientQueue' = DOMAIN clientQueue \union {Len(clientQueue) + 1}
          /\ clientQueue'[Len(clientQueue) + 1] = c
          /\ \A k \in DOMAIN clientQueue : clientQueue'[k] = clientQueue[k]
      BY <1>2, <2>2
    <3>4. \A k \in DOMAIN clientQueue : clientQueue[k] # c /\ clientQueue[k] \in Conns
      BY <1>2, <2>2 DEF WaitInv, AliveInv
    <3>5. Distinct(clientQueue')
      BY <3>3, <3>4 DEF WaitInv, AliveInv, Distinct
    <3>6. \A k \in DOMAIN clientQueue' : cpc'[clientQueue'[k]] \notin {"none", "reaped"}
      BY <1>2, <2>2, <3>3, <3>4 DEF WaitInv, AliveInv
    <3>7. \A d \in Conns : cpc'[d] = IF d = c THEN "recv" ELSE cpc[d]
      BY <1>2, <2>2
    <3> QED BY <1>1, <2>2, <3>2, <3>5, <3>6, <3>7 DEF WaitInv, AliveInv
  <2>3. ASSUME NEW c \in Conns, cpc[c] = "none", peer[c] # "new", entries' \in {entries, Append(entries, c)},
               clientQueue' = clientQueue, cpc' = [cpc EXCEPT ![c] = "reaped"]
        PROVE  AliveInv'
    <3>1. Range_(entries) \subseteq Range_(entries')
      <4>1. \A k \in DOMAIN entries : k \in DOMAIN Append(entries, c) /\ Append(entries, c)[k] = entries[k]
        BY <1>2
      <4> QED BY <2>3, <4>1 DEF Range_
    <3>2. \A k \in DOMAIN clientQueue : clientQueue[k] # c /\ clientQueue[k] \in Conns
      BY <1>2, <2>3 DEF WaitInv, AliveInv
    <3>3. \A d \in Conns : cpc'[d] = IF d = c THEN "reaped" ELSE cpc[d]
      BY <1>2, <2>3
    <3> QED BY <1>1, <2>3, <3>1, <3>2, <3>3 DEF WaitInv, AliveInv
  <2> QED BY <1>3, <2>1, <2>2, <2>3
<1> QED BY <1>4, <1>5, <1>6 DEF WaitInv

LEMMA ReapWaits ==
    ASSUME Inv, WaitInv, Reap
    PROVE  WaitInv'
<1>1. /\ UNCHANGED <<serverVars, mpc, polled, revents, failed, failures, item, eventfd, peer, sigterm>>
      /\ i' = i + 1 /\ lpc = "reap" /\ lpc' = "pass"
      /\ cpc[entry] = "returned" /\ cpc' = [cpc EXCEPT ![entry] = "reaped"]
      /\ clientQueue' = Without(clientQueue, entry) /\ entries' = Without(entries, entry)
  BY DEF Reap, Advance
<1>2. /\ cpc \in [Conns -> {"none", "recv", "lock", "add", "notify", "unlock",
                           "reply", "finish", "returning", "returned", "reaped"}]
      /\ entries \in Seq(Fds) /\ clientQueue \in Seq(Conns) /\ i \in Nat /\ Len(polled) \in Nat
  BY DEF Inv, TypeOK, Fds
<1>3. entry \in Conns
  BY <1>1 DEF Inv, PassInv
<1>4. entry \in Range_(entries) /\ entry \in Range_(clientQueue)
  BY <1>1, <1>3 DEF WaitInv, AliveInv, Inv, QueueInv
<1>5. \A c \in Conns : cpc'[c] = IF c = entry THEN "reaped" ELSE cpc[c]
  BY <1>1, <1>2
<1>6. \A fd \in Range_(entries) : fd # entry => fd \in Range_(entries')
  BY <1>1, <1>2, <1>4, OthersRemain
<1>7. Distinct(clientQueue') /\ Range_(clientQueue') \subseteq Range_(clientQueue) \ {entry}
  BY <1>1, <1>2, <1>4, NothingNew DEF WaitInv, AliveInv
<1>8. StopInv'
  BY <1>1 DEF WaitInv, StopInv, serverVars, Over
<1>9. PollInv'
  <2>1. Fixed \subseteq Range_(entries')
    BY <1>3, <1>6, NamesDiffer DEF WaitInv, PollInv, Fixed
  <2>2. Pending' = Pending
    BY <1>1, <1>5 DEF Pending
  <2>3. (\E k \in i' .. Len(polled') : polled'[k] = "accept") => \E k \in i .. Len(polled) : polled[k] = "accept"
    BY <1>1, <1>2
  <2>4. i' > 0
    BY <1>1, <1>2 DEF WaitInv, PollInv
  <2> QED BY <1>1, <2>1, <2>2, <2>3, <2>4 DEF WaitInv, PollInv, Passing
<1>10. AliveInv'
  <2>1. ASSUME NEW k \in DOMAIN clientQueue'
        PROVE  cpc'[clientQueue'[k]] \notin {"none", "reaped"}
    <3>1. clientQueue'[k] # entry /\ \E l \in DOMAIN clientQueue : clientQueue[l] = clientQueue'[k]
      BY <1>7 DEF Range_
    <3>2. clientQueue'[k] \in Conns /\ cpc[clientQueue'[k]] \notin {"none", "reaped"}
      BY <1>2, <3>1 DEF WaitInv, AliveInv
    <3> QED BY <1>5, <3>1, <3>2
  <2> QED BY <1>1, <1>5, <1>6, <1>7, <2>1 DEF WaitInv, AliveInv
<1> QED BY <1>8, <1>9, <1>10 DEF WaitInv

LEMMA JoinWaits ==
    ASSUME Inv, WaitInv, JoinClient
    PROVE  WaitInv'
<1> DEFINE h == Head(clientQueue)
<1>1. /\ UNCHANGED <<serverVars, mpc, lpc, loopVars, item, eventfd, peer, sigterm>> /\ lpc = "join_clients"
      /\ clientQueue # << >>
      /\ cpc' = [cpc EXCEPT ![h] = "reaped"] /\ clientQueue' = Tail(clientQueue)
  BY DEF JoinClient
<1>2. /\ cpc \in [Conns -> {"none", "recv", "lock", "add", "notify", "unlock",
                           "reply", "finish", "returning", "returned", "reaped"}]
      /\ clientQueue \in Seq(Conns)
  BY DEF Inv, TypeOK
<1>3. /\ h \in Conns /\ h = clientQueue[1] /\ 1 \in DOMAIN clientQueue
      /\ \A k \in DOMAIN clientQueue' :
            k \in Nat /\ k > 0 /\ k + 1 \in DOMAIN clientQueue /\ clientQueue'[k] = clientQueue[k + 1]
  BY <1>1, <1>2
<1> HIDE DEF h
<1>4. \A c \in Conns : cpc'[c] = IF c = h THEN "reaped" ELSE cpc[c]
  BY <1>1, <1>2, <1>3
<1>5. StopInv' /\ PollInv' /\ cpc[h] # "none"
  BY <1>1, <1>3 DEF WaitInv, StopInv, PollInv, AliveInv, serverVars, loopVars, Passing, Stopping
<1>6. AliveInv'
  <2>1. Distinct(clientQueue')
    BY <1>3 DEF WaitInv, AliveInv, Distinct
  <2>2. ASSUME NEW k \in DOMAIN clientQueue'
        PROVE  cpc'[clientQueue'[k]] \notin {"none", "reaped"}
    <3>1. clientQueue'[k] \in Conns /\ clientQueue'[k] # h /\ cpc[clientQueue'[k]] \notin {"none", "reaped"}
      BY <1>2, <1>3 DEF WaitInv, AliveInv, Distinct
    <3> QED BY <1>4, <3>1
  <2> QED BY <1>1, <1>4, <1>5, <2>1, <2>2 DEF WaitInv, AliveInv, loopVars
<1> QED BY <1>5, <1>6 DEF WaitInv

LEMMA WaitStep == Inv /\ WaitInv /\ [Next]_vars => WaitInv'
  BY OthersWait, LoopWaits, AcceptWaits, ReapWaits, JoinWaits DEF Next, ListenStep

\* Whoever holds server_mtx can go on, but for the main thread in net_send.
LEMMA HolderGoes ==
    ASSUME Inv, mtx # "free", mpc # "sending"
    PROVE  SomebodyCanGo
<1>1. mtx \in {"main", "listen"} \/ \E c \in Conns : mtx = c
  BY DEF Inv, TypeOK
<1> QED BY <1>1 DEF Inv, MtxInv, Assigning, SomebodyCanGo, MainCanGo, ListenCanGo, ThreadCanGo

\* The main thread sleeps only while there is nothing for it to do.
LEMMA MainSleeps ==
    ASSUME Inv, ~SomebodyCanGo, mpc # "sending"
    PROVE  /\ mpc \in {"waiting", "exited"}
           /\ mpc = "waiting" => ~server_ready_for_action
<1>1. mtx = "free"
  BY HolderGoes
<1>2. mpc \in {"waiting", "exited"}
  BY <1>1 DEF Inv, TypeOK, SomebodyCanGo, MainCanGo
<1>3. mpc = "waiting" => ~server_ready_for_action
  BY DEF Inv, NoLostWakeup, SomebodyCanGo, ThreadCanGo, ListenCanGo, Stopping
<1> QED BY <1>2, <1>3

\* A client thread that cannot go on waits for its peer, or for the event loop
\* to join it.
LEMMA ThreadsSleep ==
    ASSUME Inv, WaitInv, ~SomebodyCanGo, mpc # "sending", NEW c \in Conns
    PROVE  \/ cpc[c] \in {"none", "reaped"}
           \/ AwaitsItsPeer(c)
           \/ cpc[c] = "returned" /\ c \in Range_(entries) /\ eventfd[c]
<1>1. mtx = "free"
  BY HolderGoes
<1>2. /\ cpc[c] \in {"none", "recv", "lock", "add", "notify", "unlock", "reply",
                  "finish", "returning", "returned", "reaped"}
      /\ peer[c] \in {"new", "connected", "sent", "closed"}
  BY DEF Inv, TypeOK
<1>3. ~ThreadCanGo(c)
  BY DEF SomebodyCanGo
<1>4. cpc[c] \in {"none", "recv", "reply", "returned", "reaped"}
  BY <1>1, <1>2, <1>3 DEF ThreadCanGo
<1>5. cpc[c] = "recv" => peer[c] = "connected"
  BY <1>2, <1>3 DEF ThreadCanGo, WaitInv, AliveInv
<1>6. cpc[c] = "returned" => c \in Range_(entries) /\ eventfd[c]
  BY DEF WaitInv, AliveInv
<1> QED BY <1>4, <1>5, <1>6 DEF AwaitsItsPeer

\* When no thread can go on, the listening thread is in poll with nothing to
\* report, or in one of the two joins of server_destroy that may last.
LEMMA Waits ==
    ASSUME Inv, WaitInv, ~SomebodyCanGo
    PROVE  Idle \/ Deaf \/ AwaitsPeer \/ lpc = "exited"
<1> SUFFICES ASSUME mpc # "sending"
             PROVE  Idle \/ Deaf \/ AwaitsPeer \/ lpc = "exited"
  BY DEF AwaitsPeer
<1>1. mtx = "free"
  BY HolderGoes
<1>2. mpc \in {"waiting", "exited"} /\ (mpc = "waiting" => ~server_ready_for_action)
  BY MainSleeps
<1>3. ~ListenCanGo /\ lpc \notin Stopping
  BY DEF SomebodyCanGo, ListenCanGo
<1>4. runs \in Nat /\ workers \in Nat /\ failures \in Nat /\ i \in Nat /\ polled \in Seq(Fds) /\ stopping \in BOOLEAN
  BY DEF Inv, TypeOK, Fds
<1>5. CASE lpc = "loop"
  <2>1. ~stopping /\ \A fd \in Range_(entries) : ~Readable(fd)
    BY <1>3, <1>5 DEF ListenCanGo
  <2>2. "signal" \in Range_(entries) /\ "accept" \in Range_(entries)
    BY DEF WaitInv, PollInv, Fixed
  <2>3. ~sigterm /\ Pending = {}
    BY <2>1, <2>2 DEF Readable
  <2>4. mpc = "waiting"
    BY <1>2, <2>1 DEF WaitInv, StopInv
  <2>5. runs = 0 \/ workers = 0
    BY <1>2, <1>4, <2>4 DEF server_ready_for_action
  <2>6. ASSUME NEW c \in Conns
        PROVE  cpc[c] \in {"none", "reaped"} \/ AwaitsItsPeer(c)
    BY <2>1, ThreadsSleep DEF Readable
  <2> QED BY <1>5, <2>1, <2>3, <2>4, <2>5, <2>6 DEF Idle
<1>6. CASE lpc = "pass"
  <2>1. ~PassCanGo
    BY <1>3, <1>6 DEF ListenCanGo
  <2>2. i <= Len(polled) /\ i > 0
    BY <1>4, <2>1 DEF PassCanGo, WaitInv, PollInv
  <2>3. entry = polled[i] /\ i \in i .. Len(polled) /\ polled[i] \in Fds
    BY <1>4, <1>6, <2>2 DEF Inv, PassInv, Passing
  <2>4. entry \in revents /\ entry = "accept" /\ Pending = {}
    BY <1>1, <2>1, <2>3 DEF PassCanGo, Fds, Fixed
  <2> QED BY <1>6, <2>3, <2>4 DEF WaitInv, PollInv, Passing
<1>7. CASE lpc = "reap"
  <2>1. entry \in Conns /\ entry \in revents
    BY <1>7 DEF Inv, PassInv
  <2>2. cpc[entry] \in {"returning", "returned", "reaped"} /\ eventfd[entry]
    BY <2>1 DEF Inv, ListInv
  <2>3. cpc[entry] # "reaped"
    <3>1. i <= Len(polled) /\ entry = polled[i] /\ Follows(entries, polled, i) /\ i \in i .. Len(polled)
      BY <1>4, <1>7 DEF Inv, PassInv, Passing
    <3>2. \E k \in DOMAIN entries : entries[k] = entry
      BY <3>1 DEF Follows
    <3> QED BY <1>7, <2>1, <2>2, <3>2 DEF Inv, ListInv, Over
  <2> QED BY <1>3, <1>7, <2>1, <2>2, <2>3 DEF SomebodyCanGo, ThreadCanGo, ListenCanGo
<1>8. CASE lpc = "join_main"
  <2>1. mpc = "waiting"
    BY <1>2, <1>3, <1>8 DEF ListenCanGo
  <2>2. ~stopping
    BY <1>2, <2>1 DEF server_ready_for_action
  <2> QED BY <1>8, <2>1, <2>2 DEF Deaf, WaitInv, StopInv
<1>9. CASE lpc = "join_clients"
  <2> DEFINE h == Head(clientQueue)
  <2>1. clientQueue # << >> /\ cpc[h] # "returned"
    BY <1>3, <1>9 DEF ListenCanGo
  <2>2. 1 \in DOMAIN clientQueue /\ h = clientQueue[1] /\ h \in Conns
    BY <2>1 DEF Inv, TypeOK
  <2>3. cpc[h] \notin {"none", "reaped"}
    BY <2>2 DEF WaitInv, AliveInv
  <2> QED BY <1>9, <2>1, <2>2, <2>3, ThreadsSleep DEF AwaitsPeer
<1> QED
  BY <1>3, <1>5, <1>6, <1>7, <1>8, <1>9 DEF Inv, TypeOK, Stopping

\* The threads never wait for each other alone (server_lock, pthread_cond_wait,
\* pthread_join, poll): when none can go on, the process has ended, it is idle,
\* its event loop failed with the main thread not told to stop, the shutdown
\* joins a thread whose peer has sent nothing or does not read its answer, or
\* the main thread, holding server_mtx, sends to a worker that does not read.
THEOREM NeverStuck == Spec => [](SomebodyCanGo \/ Idle \/ Deaf \/ AwaitsPeer \/ lpc = "exited")
<1>1. Init => Inv /\ WaitInv
  BY InvInit, WaitInit
<1>2. Inv /\ WaitInv /\ [Next]_vars => (Inv /\ WaitInv)'
  BY InvStep, WaitStep
<1>3. Inv /\ WaitInv => SomebodyCanGo \/ Idle \/ Deaf \/ AwaitsPeer \/ lpc = "exited"
  BY Waits
<1> QED BY <1>1, <1>2, <1>3, PTL DEF Spec
=============================================================================
