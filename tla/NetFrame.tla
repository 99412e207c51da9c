------------------------------- MODULE NetFrame -------------------------------
(***************************************************************************)
(* One message over a TCP connection: net_send_buf sends the size of a     *)
(* text and then the text, in as many parts as the kernel takes;           *)
(* net_recv_buf reads as many parts as it needs to get both.  There are no *)
(* timeouts.  A connection has two ends, and each sends at most one        *)
(* message.                                                                *)
(*                                                                         *)
(* TCP is modelled from what the code relies on: the k-th byte read at one *)
(* end is the k-th byte sent at the other.  The bytes of the text itself   *)
(* are abstracted to their number; those of its size are not.              *)
(***************************************************************************)
EXTENDS Integers, Sequences

CONSTANTS
    Conns,        \* the connections
    TextSizes,    \* lengths of the texts sent, the final NUL included
    Capacity,     \* how many bytes the kernel holds between the two ends
    Parts,        \* bound: the sizes of the partial sends and reads considered
    MaxFailures   \* bound: how many calls fail, processes die

\* strlen(str) + 1 fits the 32 bits of the size.
ASSUME SizesAssumption == TextSizes \subseteq {n \in Nat \ {0} : ((n \div 256) \div 256) \div 256 < 256}
ASSUME NumbersAssumption ==
    /\ Capacity \in Nat \ {0}
    /\ Parts \subseteq Nat \ {0}
    /\ MaxFailures \in Nat

Sides == {"client", "server"}
Ends == Conns \X Sides
Client(c) == <<c, "client">>
Server(c) == <<c, "server">>
Peer(e) == IF e[2] = "client" THEN Server(e[1]) ELSE Client(e[1])

VARIABLES
    open,      \* does the end still have its descriptor
    io,        \* the call the end is in, or how its last one returned
    length,    \* the size of the text it sends, 0 before
    sent,      \* bytes it has sent
    size,      \* the size it has read, 0 before
    taken,     \* bytes it has read
    failures   \* failures so far

netVars == <<open, io, length, sent, size, taken, failures>>

Sending == {"send_size", "send_data"}
Receiving == {"recv_size", "recv_data"}
Results == {"idle", "sent", "received", "failed"}

NetTypeOK ==
    /\ open \in [Ends -> BOOLEAN]
    /\ io \in [Ends -> Results \union Sending \union Receiving]
    /\ length \in [Ends -> TextSizes \union {0}]
    /\ sent \in [Ends -> Nat]
    /\ size \in [Ends -> TextSizes \union {0}]
    /\ taken \in [Ends -> Nat]
    /\ failures \in 0 .. MaxFailures

NetInit ==
    /\ open = [e \in Ends |-> FALSE]
    /\ io = [e \in Ends |-> "idle"]
    /\ length = [e \in Ends |-> 0]
    /\ sent = [e \in Ends |-> 0]
    /\ size = [e \in Ends |-> 0]
    /\ taken = [e \in Ends |-> 0]
    /\ failures = 0

Fine == UNCHANGED failures

Fail ==
    /\ failures < MaxFailures
    /\ failures' = failures + 1

\* A call fails for free when the other end is closed.
FailUnlessClosed(e) == IF open[Peer(e)] THEN Fail ELSE Fine

-----------------------------------------------------------------------------
(* The size on the wire *)

SizeBytes == 4

\* Seeded fault: the bytes in the order of the machine.
htonl_Host(n) ==
    <<n % 256, (n \div 256) % 256, ((n \div 256) \div 256) % 256, (((n \div 256) \div 256) \div 256) % 256>>

\* The bytes of a 32-bit number in the order of the network.
htonl(n) ==
    <<(((n \div 256) \div 256) \div 256) % 256, ((n \div 256) \div 256) % 256, (n \div 256) % 256, n % 256>>

ntohl(b) == 256 * (256 * (256 * b[1] + b[2]) + b[3]) + b[4]

\* `size` as net_recv_buf finds it once n bytes of its stream were read: it was
\* initialized with 0.
SizeRead(e, n) == ntohl([i \in 1 .. SizeBytes |-> IF i <= n THEN htonl(length[Peer(e)])[i] ELSE 0])

\* Where in its stream the call of an end is over.
Goal(e) ==
    SizeBytes + IF io[e] = "send_data" THEN length[e] ELSE IF io[e] = "recv_data" THEN size[e] ELSE 0

-----------------------------------------------------------------------------
(* The calls *)

\* What one call may move of n bytes that are left.
Moves(n) == {k \in Parts : k < n} \union {n}

\* libjson_send: a text of n bytes, sent by end e.
SendBegins(e, n) ==
    /\ io' = [io EXCEPT ![e] = "send_size"]
    /\ length' = [length EXCEPT ![e] = n]

\* libjson_recv.
RecvBegins(e) == io' = [io EXCEPT ![e] = "recv_size"]

\* net_send_part: the kernel takes k bytes or waits for room, unless there is
\* nobody to make any.
Send(e) ==
    /\ io[e] \in Sending
    /\ \E k \in Moves(Goal(e) - sent[e]) :
        /\ open[Peer(e)] => sent[e] + k - taken[Peer(e)] <= Capacity
        /\ sent' = [sent EXCEPT ![e] = @ + k]
        /\ io' = [io EXCEPT ![e] =
                    IF sent[e] + k < Goal(e) THEN @ ELSE IF @ = "send_size" THEN "send_data" ELSE "sent"]
    /\ UNCHANGED <<open, length, size, taken, failures>>

SendFails(e) ==
    /\ io[e] \in Sending
    /\ FailUnlessClosed(e)
    /\ io' = [io EXCEPT ![e] = "failed"]
    /\ UNCHANGED <<open, length, sent, size, taken>>

\* k bytes were read: read on, or go on to the text, or be done.
Took(e, k, complete) ==
    /\ taken' = [taken EXCEPT ![e] = @ + k]
    /\ IF ~complete
       THEN UNCHANGED <<io, size>>
       ELSE IF io[e] = "recv_size"
            THEN /\ io' = [io EXCEPT ![e] = "recv_data"]
                 /\ size' = [size EXCEPT ![e] = SizeRead(e, taken[e] + k)]
            ELSE io' = [io EXCEPT ![e] = "received"] /\ UNCHANGED size

\* Seeded fault: one read for each of the two.
Recv_Once(e) ==
    /\ io[e] \in Receiving
    /\ \E k \in Moves(Goal(e) - taken[e]) :
        /\ taken[e] + k <= sent[Peer(e)]
        /\ Took(e, k, TRUE)
    /\ UNCHANGED <<open, length, sent, failures>>

\* net_recv, one read: some of what there is.
Recv(e) ==
    /\ io[e] \in Receiving
    /\ \E k \in Moves(Goal(e) - taken[e]) :
        /\ taken[e] + k <= sent[Peer(e)]
        /\ Took(e, k, taken[e] + k = Goal(e))
    /\ UNCHANGED <<open, length, sent, failures>>

\* Seeded fault: the end of the file is only looked at before the first byte.
RecvEnds_AtOnce(e) ==
    /\ io[e] \in Receiving
    /\ ~open[Peer(e)]
    /\ taken[e] = 0
    /\ sent[Peer(e)] = 0
    /\ io' = [io EXCEPT ![e] = "failed"]
    /\ UNCHANGED <<open, length, sent, size, taken, failures>>

\* net_recv reads the end of the file: too few bytes came.
RecvEnds(e) ==
    /\ io[e] \in Receiving
    /\ ~open[Peer(e)]
    /\ taken[e] = sent[Peer(e)]
    /\ io' = [io EXCEPT ![e] = "failed"]
    /\ UNCHANGED <<open, length, sent, size, taken, failures>>

\* read or malloc fails: for free once the peer, by closing its end, may have
\* reset the connection.
RecvFails(e) ==
    /\ io[e] \in Receiving
    /\ FailUnlessClosed(e)
    /\ io' = [io EXCEPT ![e] = "failed"]
    /\ UNCHANGED <<open, length, sent, size, taken>>

IO(e) == Send(e) \/ SendFails(e) \/ Recv(e) \/ RecvEnds(e) \/ RecvFails(e)

-----------------------------------------------------------------------------
(* Properties *)

\* net_recv_buf returns 0 only with the whole text that the other end sent,
\* whatever parts it was sent and read in.
WholeOrNothing ==
    \A e \in Ends : io[e] = "received" =>
        /\ size[e] = length[Peer(e)]
        /\ taken[e] = SizeBytes + size[e]
        /\ io[Peer(e)] \notin Sending
=============================================================================
