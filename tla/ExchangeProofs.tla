---------------------------- MODULE ExchangeProofs ----------------------------
(***************************************************************************)
(* Proofs about Exchange, for any connections, messages, sizes, capacity   *)
(* and failures: messages arrive whole, only requests are answered, and    *)
(* what a caller is told is what became of its call.                       *)
(***************************************************************************)
EXTENDS Exchange, FiniteSetTheorems, TLAPS

-----------------------------------------------------------------------------
(* The two ends of a connection, and the size of a message *)

LEMMA EndsOfConns ==
    /\ \A c \in Conns :
        /\ Client(c) \in Ends /\ Server(c) \in Ends
        /\ Peer(Client(c)) = Server(c) /\ Peer(Server(c)) = Client(c)
    /\ \A c, d \in Conns :
        /\ Client(c) = Client(d) => c = d
        /\ Server(c) = Server(d) => c = d
        /\ Client(c) # Server(d)
    /\ \A e \in Ends : \E c \in Conns : e = Client(c) \/ e = Server(c)
    /\ \A e \in Ends : Peer(e) \in Ends /\ Peer(e) # e /\ Peer(Peer(e)) = e
    /\ \A e, f \in Ends : Peer(e) = Peer(f) => e = f
  BY DEF Ends, Sides, Client, Server, Peer

LEMMA Division ==
    ASSUME NEW m \in Nat
    PROVE  \E q \in Nat, r \in Nat : q = m \div 256 /\ r = m % 256 /\ m = 256 * q + r
<1> DEFINE q == m \div 256
           r == m % 256
<1>1. q \in Nat /\ r \in Nat
  OBVIOUS
<1>2. r = m - 256 * q
  OBVIOUS
<1>3. q = m \div 256 /\ r = m % 256
  OBVIOUS
<1> HIDE DEF q, r
<1>4. m = 256 * q + r
  BY <1>1, <1>2
<1> QED
  BY <1>1, <1>3, <1>4

LEMMA FourBytes ==
    ASSUME NEW b1, NEW b2, NEW b3, NEW b4, NEW b, b = <<b1, b2, b3, b4>>
    PROVE  ntohl(b) = 256 * (256 * (256 * b1 + b2) + b3) + b4
<1>1. b[1] = b1 /\ b[2] = b2 /\ b[3] = b3 /\ b[4] = b4
  OBVIOUS
<1> QED
  BY <1>1, ZenonT(60) DEF ntohl

\* ntohl undoes htonl.
LEMMA SizeSurvives ==
    ASSUME NEW n \in Nat, ((n \div 256) \div 256) \div 256 < 256
    PROVE  ntohl(htonl(n)) = n
<1>1. PICK q1 \in Nat, r1 \in Nat : q1 = n \div 256 /\ r1 = n % 256 /\ n = 256 * q1 + r1
  BY Division
<1>2. PICK q2 \in Nat, r2 \in Nat : q2 = q1 \div 256 /\ r2 = q1 % 256 /\ q1 = 256 * q2 + r2
  BY Division
<1>3. PICK q3 \in Nat, r3 \in Nat : q3 = q2 \div 256 /\ r3 = q2 % 256 /\ q2 = 256 * q3 + r3
  BY Division
<1>4. q3 % 256 = q3
  BY <1>1, <1>2, <1>3
<1>5. htonl(n) = <<q3, r3, r2, r1>>
  BY <1>1, <1>2, <1>3, <1>4 DEF htonl
<1>6. ntohl(htonl(n)) = 256 * (256 * (256 * q3 + r3) + r2) + r1
  BY <1>5, FourBytes
<1> QED
  BY <1>1, <1>2, <1>3, <1>6

LEMMA WholeSize ==
    ASSUME NEW e \in Ends, length[Peer(e)] \in TextSizes
    PROVE  SizeRead(e, SizeBytes) = length[Peer(e)]
<1> DEFINE n == length[Peer(e)]
           b == [i \in 1 .. SizeBytes |-> IF i <= SizeBytes THEN htonl(n)[i] ELSE 0]
<1>1. n \in Nat /\ ((n \div 256) \div 256) \div 256 < 256
  BY SizesAssumption, ZenonT(60)
<1> HIDE DEF n
<1>2. ntohl(htonl(n)) = n
  BY <1>1, SizeSurvives
<1>3. b[1] = htonl(n)[1] /\ b[2] = htonl(n)[2] /\ b[3] = htonl(n)[3] /\ b[4] = htonl(n)[4]
  BY DEF SizeBytes
<1>4. ntohl(b) = n
  BY <1>2, <1>3 DEF ntohl
<1> QED
  BY <1>4 DEF SizeRead, n

-----------------------------------------------------------------------------
(* Calls on a connection *)

\* Where an end is in the two streams it has a part in.
Frame(e) ==
    /\ sent[e] <= SizeBytes + length[e]
    /\ length[e] = 0 => sent[e] = 0
    /\ io[e] \in Sending => length[e] # 0
    /\ io[e] = "send_size" => sent[e] < SizeBytes
    /\ io[e] = "send_data" => sent[e] < SizeBytes + length[e]
    /\ taken[e] <= sent[Peer(e)]
    /\ io[e] = "recv_size" => taken[e] < SizeBytes
    /\ io[e] \in {"recv_data", "received"} => size[e] = length[Peer(e)] /\ SizeBytes <= taken[e]
    /\ io[e] = "recv_data" => taken[e] < SizeBytes + size[e]
    /\ io[e] = "received" => taken[e] = SizeBytes + size[e]

NetInv == NetTypeOK /\ \A e \in Ends : Frame(e)

LEMMA Numbers ==
    /\ \A n \in TextSizes : n \in Nat /\ n > 0
    /\ Capacity \in Nat \ {0} /\ MaxFailures \in Nat
    /\ \A n \in Nat : n > 0 => \A k \in Moves(n) : k \in Nat /\ k > 0 /\ k <= n
  BY SizesAssumption, NumbersAssumption DEF Moves

LEMMA SendKeeps ==
    ASSUME NetInv, NEW e \in Ends, Send(e) \/ SendFails(e)
    PROVE  NetInv'
<1> USE EndsOfConns DEF NetInv
<1>1. CASE SendFails(e)
  <2> USE <1>1 DEF SendFails, FailUnlessClosed, Fail, Fine
  <2>1. NetTypeOK'
    BY NumbersAssumption DEF NetTypeOK, Results
  <2>2. ASSUME NEW f \in Ends PROVE Frame(f)'
    BY <2>2 DEF Frame, NetTypeOK, Sending
  <2> QED
    BY <2>1, <2>2
<1>2. CASE Send(e)
  <2> USE <1>2 DEF Send
  <2>1. PICK k \in Moves(Goal(e) - sent[e]) :
            /\ sent' = [sent EXCEPT ![e] = @ + k]
            /\ io' = [io EXCEPT ![e] =
                    IF sent[e] + k < Goal(e) THEN @ ELSE IF @ = "send_size" THEN "send_data" ELSE "sent"]
    OBVIOUS
  <2>2. length[e] \in Nat /\ length[e] > 0 /\ sent[e] \in Nat
    BY Numbers DEF Frame, NetTypeOK
  <2>3. /\ io[e] = "send_size" => Goal(e) = SizeBytes
        /\ io[e] = "send_data" => Goal(e) = SizeBytes + length[e]
        /\ Goal(e) \in Nat /\ sent[e] < Goal(e)
    BY <2>2 DEF Goal, Frame, Sending, SizeBytes
  <2>4. k \in Nat /\ k > 0 /\ sent[e] + k <= Goal(e)
    BY <2>2, <2>3, Numbers
  <2>5. sent' \in [Ends -> Nat] /\ sent'[e] = sent[e] + k /\ \A f \in Ends \ {e} : sent'[f] = sent[f]
    BY <2>1, <2>4 DEF NetTypeOK
  <2>6. /\ io'[e] \in {io[e], "send_data", "sent"}
        /\ \A f \in Ends \ {e} : io'[f] = io[f]
        /\ io' \in [Ends -> Results \union Sending \union Receiving]
    BY <2>1 DEF NetTypeOK, Sending, Results
  <2>7. NetTypeOK'
    BY <2>5, <2>6 DEF NetTypeOK
  <2>8. Frame(e)'
    <3>1. sent'[Peer(e)] = sent[Peer(e)]
      BY <2>5
    <3>2. CASE sent[e] + k < Goal(e)
      <4>1. io'[e] = io[e]
        BY <2>1, <3>2 DEF NetTypeOK
      <4> QED
        BY <2>2, <2>3, <2>4, <2>5, <3>1, <3>2, <4>1 DEF Frame, Sending, Receiving, SizeBytes, NetTypeOK
    <3>3. CASE sent[e] + k = Goal(e)
      <4>1. io'[e] = IF io[e] = "send_size" THEN "send_data" ELSE "sent"
        BY <2>1, <2>3, <2>4, <3>3 DEF NetTypeOK
      <4> QED
        BY <2>2, <2>3, <2>4, <2>5, <3>1, <3>3, <4>1 DEF Frame, Sending, Receiving, SizeBytes, NetTypeOK
    <3> QED
      BY <2>2, <2>3, <2>4, <3>2, <3>3
  <2>9. ASSUME NEW f \in Ends, f # e PROVE Frame(f)'
    BY <2>4, <2>5, <2>6, <2>9 DEF Frame, NetTypeOK
  <2> QED
    BY <2>7, <2>8, <2>9
<1> QED
  BY <1>1, <1>2

LEMMA RecvKeeps ==
    ASSUME NetInv, NEW e \in Ends, Recv(e) \/ RecvEnds(e) \/ RecvFails(e)
    PROVE  NetInv'
<1> USE EndsOfConns DEF NetInv
<1>1. CASE RecvEnds(e) \/ RecvFails(e)
  <2> USE <1>1 DEF RecvEnds, RecvFails, FailUnlessClosed, Fail, Fine
  <2>1. NetTypeOK'
    BY NumbersAssumption DEF NetTypeOK, Results
  <2>2. ASSUME NEW f \in Ends PROVE Frame(f)'
    BY <2>2 DEF Frame, NetTypeOK, Sending
  <2> QED
    BY <2>1, <2>2
<1>2. CASE Recv(e)
  <2> USE <1>2 DEF Recv
  <2>1. PICK k \in Moves(Goal(e) - taken[e]) :
            taken[e] + k <= sent[Peer(e)] /\ Took(e, k, taken[e] + k = Goal(e))
    OBVIOUS
  <2>2. /\ Peer(e) \in Ends /\ taken[e] \in Nat /\ size[e] \in Nat
        /\ length[Peer(e)] \in Nat /\ sent[Peer(e)] \in Nat
    BY Numbers DEF NetTypeOK
  <2>3. /\ io[e] = "recv_size" => Goal(e) = SizeBytes
        /\ io[e] = "recv_data" => Goal(e) = SizeBytes + size[e]
        /\ Goal(e) \in Nat /\ taken[e] < Goal(e)
    BY <2>2 DEF Goal, Frame, Receiving, SizeBytes
  <2>4. k \in Nat /\ k > 0 /\ taken[e] + k <= Goal(e)
    BY <2>2, <2>3, Numbers
  <2>5. taken' \in [Ends -> Nat] /\ taken'[e] = taken[e] + k /\ \A f \in Ends \ {e} : taken'[f] = taken[f]
    BY <2>1, <2>4 DEF NetTypeOK, Took
  <2>6. length[Peer(e)] # 0 /\ length[Peer(e)] \in TextSizes
    BY <2>1, <2>2, <2>4 DEF Frame, NetTypeOK
  <2>7. CASE taken[e] + k # Goal(e)
    <3>1. UNCHANGED <<io, size>>
      BY <2>1, <2>7 DEF Took
    <3>2. NetTypeOK'
      BY <2>5, <3>1 DEF NetTypeOK
    <3>3. taken'[e] < Goal(e) /\ taken'[e] >= taken[e] /\ taken'[e] <= sent'[Peer(e)]
      BY <2>1, <2>2, <2>3, <2>4, <2>5, <2>7
    <3>4. Frame(e)'
      BY <2>2, <2>3, <2>4, <2>5, <3>1, <3>3 DEF Frame, Sending, Receiving, SizeBytes, NetTypeOK
    <3>5. ASSUME NEW f \in Ends, f # e PROVE Frame(f)'
      BY <2>5, <3>1, <3>5 DEF Frame
    <3> QED
      BY <3>2, <3>4, <3>5
  <2>8. CASE taken[e] + k = Goal(e) /\ io[e] = "recv_size"
    <3>1. io' = [io EXCEPT ![e] = "recv_data"] /\ size' = [size EXCEPT ![e] = length[Peer(e)]]
      BY <2>1, <2>3, <2>6, <2>8, WholeSize DEF Took
    <3>2. NetTypeOK'
      BY <2>5, <2>6, <3>1 DEF NetTypeOK, Receiving
    <3>3. Frame(e)'
      BY <2>1, <2>2, <2>3, <2>4, <2>5, <2>6, <2>8, <3>1 DEF Frame, Sending, Receiving, SizeBytes, NetTypeOK
    <3>4. ASSUME NEW f \in Ends, f # e PROVE Frame(f)'
      BY <2>5, <3>1, <3>4 DEF Frame, NetTypeOK
    <3> QED
      BY <3>2, <3>3, <3>4
  <2>9. CASE taken[e] + k = Goal(e) /\ io[e] = "recv_data"
    <3>1. io' = [io EXCEPT ![e] = "received"] /\ UNCHANGED size
      BY <2>1, <2>9 DEF Took
    <3>2. NetTypeOK'
      BY <2>5, <3>1 DEF NetTypeOK, Results
    <3>3. Frame(e)'
      BY <2>1, <2>2, <2>3, <2>4, <2>5, <2>6, <2>9, <3>1 DEF Frame, Sending, Receiving, SizeBytes, NetTypeOK
    <3>4. ASSUME NEW f \in Ends, f # e PROVE Frame(f)'
      BY <2>5, <3>1, <3>4 DEF Frame, NetTypeOK
    <3> QED
      BY <3>2, <3>3, <3>4
  <2> QED
    BY <2>7, <2>8, <2>9 DEF Receiving
<1> QED
  BY <1>1, <1>2

-----------------------------------------------------------------------------
(* Peers and threads: where they are, and where their calls are *)

Place(c) ==
    /\ io[Client(c)] = "idle" =>
        length[Client(c)] = 0 /\ ~open[Server(c)] /\ stage[c] \in {"none", "end"} /\ ret[c] = "none"
    /\ io[Client(c)] \in {"idle", "sent"} \union Sending => taken[Client(c)] = 0
    /\ stage[c] = "none" => io[Server(c)] = "idle"
    /\ io[Server(c)] = "idle" => taken[Server(c)] = 0
    /\ stage[c] = "recv" => io[Server(c)] \in {"received", "failed"} \union Receiving
    /\ stage[c] \in {"handle", "list", "answer"} => io[Server(c)] = "received" /\ Valid(msg[c])
    /\ stage[c] = "reply" => io[Server(c)] \in {"sent", "failed"} \union Sending
    /\ stage[c] = "end" => io[Server(c)] \notin Sending \union Receiving
    /\ stage[c] \in {"none", "recv", "handle", "list", "answer"} => length[Server(c)] = 0
    /\ length[Server(c)] # 0 => Valid(msg[c]) /\ ~is_notification(msg[c]) /\ answer[c] # "none"

\* No more rows are listed than there are.
CursorInTable == cursor <= Len(rows)

Inv ==
    /\ TypeOK
    /\ CursorInTable
    /\ \A e \in Ends : Frame(e)
    /\ \A c \in Conns : Place(c)

\* What connections that take no part in a step keep.
LEMMA OthersStay ==
    ASSUME Inv, NEW c \in Conns, UNCHANGED msg,
           \A d \in Conns \ {c} : stage'[d] = stage[d] /\ ret'[d] = ret[d] /\ answer'[d] = answer[d],
           \A e \in Ends \ {Client(c), Server(c)} :
                io'[e] = io[e] /\ open'[e] = open[e] /\ length'[e] = length[e] /\ taken'[e] = taken[e]
    PROVE  \A d \in Conns \ {c} : Place(d)'
<1> SUFFICES ASSUME NEW d \in Conns, d # c
             PROVE  Place(d)'
  OBVIOUS
<1>1. Client(d) \in Ends \ {Client(c), Server(c)} /\ Server(d) \in Ends \ {Client(c), Server(c)}
  BY EndsOfConns
<1>2. Place(d)
  BY DEF Inv
<1> QED
  BY <1>1, <1>2 DEF Place

LEMMA FramesStay ==
    ASSUME Inv, UNCHANGED <<io, length, sent, size, taken>>
    PROVE  \A e \in Ends : Frame(e)'
  BY DEF Inv, Frame

\* A call that begins on an end that has not sent, or not read, anything.
LEMMA BeginsKeeps ==
    ASSUME Inv, NEW e \in Ends, UNCHANGED <<sent, size, taken>>,
           \/ \E n \in TextSizes : SendBegins(e, n) /\ length[e] = 0
           \/ RecvBegins(e) /\ taken[e] = 0 /\ UNCHANGED length
    PROVE  /\ \A f \in Ends : Frame(f)'
           /\ io' \in [Ends -> Results \union Sending \union Receiving]
           /\ length' \in [Ends -> TextSizes \union {0}]
<1> USE EndsOfConns, Numbers
<1>1. NetTypeOK /\ \A f \in Ends : Frame(f)
  BY DEF Inv, TypeOK
<1>2. CASE RecvBegins(e) /\ taken[e] = 0 /\ UNCHANGED length
  <2>1. io'[e] = "recv_size" /\ \A f \in Ends \ {e} : io'[f] = io[f]
    BY <1>1, <1>2 DEF RecvBegins, NetTypeOK
  <2>2. io' \in [Ends -> Results \union Sending \union Receiving]
    BY <1>1, <1>2 DEF RecvBegins, NetTypeOK, Receiving
  <2>3. Frame(e)'
    BY <1>1, <1>2, <2>1 DEF Frame, Sending, SizeBytes
  <2>4. ASSUME NEW f \in Ends, f # e
        PROVE  Frame(f)'
    BY <1>1, <1>2, <2>1, <2>4 DEF Frame
  <2> QED
    BY <1>1, <1>2, <2>2, <2>3, <2>4 DEF NetTypeOK
<1>3. ASSUME NEW n \in TextSizes, SendBegins(e, n), length[e] = 0
      PROVE  /\ \A f \in Ends : Frame(f)'
             /\ io' \in [Ends -> Results \union Sending \union Receiving]
             /\ length' \in [Ends -> TextSizes \union {0}]
  <2>1. io'[e] = "send_size" /\ \A f \in Ends \ {e} : io'[f] = io[f]
    BY <1>1, <1>3 DEF SendBegins, NetTypeOK
  <2>2. length'[e] = n /\ \A f \in Ends \ {e} : length'[f] = length[f]
    BY <1>1, <1>3 DEF SendBegins, NetTypeOK
  <2>3. io' \in [Ends -> Results \union Sending \union Receiving] /\ length' \in [Ends -> TextSizes \union {0}]
    BY <1>1, <1>3 DEF SendBegins, NetTypeOK, Sending
  <2>4. sent[e] = 0 /\ taken[Peer(e)] = 0 /\ taken[e] <= sent[Peer(e)] /\ n \in Nat /\ n > 0
    BY <1>1, <1>3 DEF Frame, NetTypeOK
  <2>5. Frame(e)'
    BY <1>3, <2>1, <2>2, <2>4 DEF Frame, Sending, SizeBytes
  <2>6. Frame(Peer(e))'
    <3>1. Frame(Peer(e)) /\ Peer(e) # e /\ Peer(e) \in Ends
      BY <1>1
    <3>2. io[Peer(e)] \notin {"recv_data", "received"}
      BY <2>4, <3>1 DEF Frame, SizeBytes
    <3> QED
      BY <1>3, <2>1, <2>2, <2>4, <3>1, <3>2 DEF Frame, SizeBytes
  <2>7. ASSUME NEW f \in Ends, f # e, f # Peer(e)
        PROVE  Frame(f)'
    <3>1. Frame(f) /\ Peer(f) # e /\ Peer(f) \in Ends
      BY <1>1, <2>7
    <3> QED
      BY <1>3, <2>1, <2>2, <2>7, <3>1 DEF Frame
  <2> QED
    BY <2>3, <2>5, <2>6, <2>7
<1> QED
  BY <1>2, <1>3

LEMMA InvInit == Init => Inv
<1> SUFFICES ASSUME Init PROVE Inv
  OBVIOUS
<1> USE EndsOfConns, MessagesAssumption DEF Init, NetInit
<1>1. NetTypeOK
  BY NumbersAssumption DEF NetTypeOK, Results
<1>2. rows \in Seq(Row)
  <2>1. PICK n \in 0 .. OldRows : rows \in [1 .. n -> {Unfinished}
            \union [finished : {TRUE}, exit_code : ExitCodes]]
    OBVIOUS
  <2>2. Unfinished \in Row
    BY DEF Unfinished, Row
  <2>3. ASSUME NEW r \in [finished : {TRUE}, exit_code : ExitCodes]
        PROVE  r \in Row
    BY <2>3, ExitCodesAssumption DEF Row
  <2>4. n \in Nat
    BY OldRowsAssumption
  <2>5. rows \in [1 .. n -> Row]
    BY <2>1, <2>2, <2>3
  <2> QED
    BY <2>4, <2>5
<1>3. TypeOK /\ CursorInTable
  BY <1>1, <1>2 DEF TypeOK, CursorInTable
<1>4. \A e \in Ends : Frame(e)
  BY DEF Frame, Sending, SizeBytes
<1>5. \A c \in Conns : Place(c)
  BY DEF Place, Sending, Receiving
<1> QED
  BY <1>3, <1>4, <1>5 DEF Inv

LEMMA PeerKeeps ==
    ASSUME Inv, NEW c \in Conns, Connect(c) \/ Await(c) \/ Learn(c) \/ PeerGone(c)
    PROVE  Inv'
<1> USE EndsOfConns, NumbersAssumption
<1>1. TypeOK /\ NetTypeOK /\ Place(c) /\ \A f \in Ends : Frame(f)
  BY DEF Inv, TypeOK
<1>2. CASE Connect(c)
  <2> USE <1>2 DEF Connect, serverVars
  <2>1. /\ \A e \in Ends : Frame(e)'
        /\ io' \in [Ends -> Results \union Sending \union Receiving]
        /\ length' \in [Ends -> TextSizes \union {0}]
    BY <1>1, BeginsKeeps, FramesStay DEF Place, NetTypeOK
  <2>2. NetTypeOK'
    <3>1. open' \in [Ends -> BOOLEAN]
      BY <1>1 DEF NetTypeOK
    <3>2. failures' \in 0 .. MaxFailures
      BY <1>1 DEF NetTypeOK, Fine, Fail
    <3> QED
      BY <1>1, <2>1, <3>1, <3>2 DEF NetTypeOK
  <2>3. run' \in [Conns -> Nat] /\ ec' \in [Conns -> Int] /\ told' \in [Conns -> {"nothing", "ok", "error", "sent", "silence"}]
    <3>1. \A id \in Reportable : id \in Nat
      BY <1>1 DEF TypeOK, Reportable
    <3>0. /\ run \in [Conns -> Nat] /\ ec \in [Conns -> Int]
          /\ told \in [Conns -> {"nothing", "ok", "error", "sent", "silence"}]
      BY <1>1 DEF TypeOK
    <3>2. run' \in [Conns -> Nat]
      <4>1. CASE UNCHANGED run
        BY <3>0, <4>1
      <4>2. CASE \E id \in Reportable : run' = [run EXCEPT ![c] = id]
        BY <3>0, <3>1, <4>2
      <4> QED
        BY <4>1, <4>2
    <3>3. ec' \in [Conns -> Int]
      BY <3>0, ExitCodesAssumption
    <3>4. told' \in [Conns -> {"nothing", "ok", "error", "sent", "silence"}]
      BY <3>0
    <3> QED
      BY <3>2, <3>3, <3>4
  <2>4. TypeOK'
    BY <1>1, <2>2, <2>3 DEF TypeOK
  <2>5. Place(c)'
    BY <1>1 DEF Place, SendBegins, NetTypeOK, Sending, Receiving
  <2>6. \A e \in Ends \ {Client(c), Server(c)} :
            io'[e] = io[e] /\ open'[e] = open[e] /\ length'[e] = length[e] /\ taken'[e] = taken[e]
    BY <1>1 DEF SendBegins, NetTypeOK
  <2> QED
    BY <2>1, <2>4, <2>5, <2>6, OthersStay DEF Inv, CursorInTable
<1>3. CASE Await(c)
  <2> USE <1>3 DEF Await, serverVars
  <2>1. /\ \A e \in Ends : Frame(e)'
        /\ io' \in [Ends -> Results \union Sending \union Receiving]
    BY <1>1, BeginsKeeps, FramesStay DEF Place, NetTypeOK
  <2>2. NetTypeOK'
    <3>1. open' \in [Ends -> BOOLEAN]
      BY <1>1 DEF NetTypeOK
    <3> QED
      BY <1>1, <2>1, <3>1 DEF NetTypeOK
  <2>3. TypeOK'
    BY <1>1, <2>2 DEF TypeOK
  <2>4. Place(c)'
    BY <1>1 DEF Place, RecvBegins, NetTypeOK, Sending, Receiving
  <2>5. \A e \in Ends \ {Client(c), Server(c)} :
            io'[e] = io[e] /\ open'[e] = open[e] /\ length'[e] = length[e] /\ taken'[e] = taken[e]
    BY <1>1 DEF RecvBegins, NetTypeOK
  <2> QED
    BY <2>1, <2>3, <2>4, <2>5, OthersStay DEF Inv, CursorInTable
<1>4. CASE Learn(c) \/ PeerGone(c)
  <2> USE <1>4 DEF Learn, PeerGone, Over, Fail, serverVars
  <2>1. NetTypeOK'
    <3>1. open' \in [Ends -> BOOLEAN]
      BY <1>1 DEF NetTypeOK
    <3>2. failures' \in 0 .. MaxFailures
      BY <1>1 DEF NetTypeOK
    <3>3. io' \in [Ends -> Results \union Sending \union Receiving]
      BY <1>1 DEF NetTypeOK, Results
    <3> QED
      BY <1>1, <3>1, <3>2, <3>3 DEF NetTypeOK
  <2>2. TypeOK'
    <3>1. told \in [Conns -> {"nothing", "ok", "error", "sent", "silence"}]
      BY <1>1 DEF TypeOK
    <3>2. \E what \in {"ok", "error", "silence"} : told' = [told EXCEPT ![c] = what]
      OBVIOUS
    <3>3. told' \in [Conns -> {"nothing", "ok", "error", "sent", "silence"}]
      BY <3>1, <3>2
    <3>4. UNCHANGED <<up, msg, run, ec, serverVars>>
      OBVIOUS
    <3> HIDE <1>4
    <3> QED
      BY <1>1, <2>1, <3>3, <3>4 DEF TypeOK
  <2>3. \A e \in Ends : Frame(e)'
    BY <1>1 DEF NetTypeOK, Frame, Sending
  <2>4. Place(c)'
    BY <1>1 DEF Place, NetTypeOK, Sending
  <2>5. \A e \in Ends \ {Client(c), Server(c)} :
            io'[e] = io[e] /\ open'[e] = open[e] /\ length'[e] = length[e] /\ taken'[e] = taken[e]
    BY <1>1 DEF NetTypeOK
  <2> QED
    BY <2>2, <2>3, <2>4, <2>5, OthersStay DEF Inv, CursorInTable
<1> QED
  BY <1>2, <1>3, <1>4

LEMMA OpenTyped ==
    ASSUME open \in [Ends -> BOOLEAN], NEW c,
           UNCHANGED open \/ open' = [open EXCEPT ![Server(c)] = c \in kept]
    PROVE  open' \in [Ends -> BOOLEAN]
<1>1. CASE open' = [open EXCEPT ![Server(c)] = c \in kept]
  <2>1. CASE c \in kept
    <3>1. open' = [open EXCEPT ![Server(c)] = TRUE]
      BY <1>1, <2>1, Zenon
    <3> QED
      BY <3>1
  <2>2. CASE c \notin kept
    <3>0. (c \in kept) = FALSE
      BY <2>2
    <3>1. open' = [open EXCEPT ![Server(c)] = FALSE]
      BY <1>1, <3>0, Zenon
    <3> QED
      BY <3>1
  <2> QED
    BY <2>1, <2>2
<1> QED
  BY <1>1

LEMMA ThreadKeeps ==
    ASSUME Inv, NEW c \in Conns, Accept(c) \/ Dispatch(c) \/ Answer(c) \/ Replied(c)
    PROVE  Inv'
<1> USE EndsOfConns, NumbersAssumption
<1>1. TypeOK /\ NetTypeOK /\ Place(c) /\ \A f \in Ends : Frame(f)
  BY DEF Inv, TypeOK
<1>2. /\ stage \in [Conns -> {"none", "recv", "handle", "list", "answer", "reply", "end"}]
      /\ answer \in [Conns -> {"none", "result", "error"}]
      /\ ret \in [Conns -> {"none", "ok", "failed"}]
  BY <1>1 DEF TypeOK
<1>3. CASE Accept(c)
  <2> USE <1>3 DEF Accept, UNCHANGED_Peer, UNCHANGED_Table, ThreadEnds, Goto
  <2>1. /\ \A e \in Ends : Frame(e)'
        /\ io' \in [Ends -> Results \union Sending \union Receiving]
    BY <1>1, BeginsKeeps, FramesStay DEF Place, NetTypeOK
  <2>2. NetTypeOK'
    <3>0. UNCHANGED open \/ open' = [open EXCEPT ![Server(c)] = c \in kept]
      OBVIOUS
    <3>1. open' \in [Ends -> BOOLEAN]
      BY <1>1, <3>0, OpenTyped DEF NetTypeOK
    <3>2. failures' \in 0 .. MaxFailures
      BY <1>1 DEF NetTypeOK, Fine, Fail
    <3> QED
      BY <1>1, <2>1, <3>1, <3>2 DEF NetTypeOK
  <2>3. stage' \in [Conns -> {"none", "recv", "handle", "list", "answer", "reply", "end"}]
    BY <1>2
  <2>4. TypeOK'
    BY <1>1, <2>2, <2>3 DEF TypeOK
  <2>5. Place(c)'
    BY <1>1, <1>2 DEF Place, RecvBegins, NetTypeOK, Sending, Receiving
  <2>6. \A e \in Ends \ {Client(c), Server(c)} :
            io'[e] = io[e] /\ open'[e] = open[e] /\ length'[e] = length[e] /\ taken'[e] = taken[e]
    BY <1>1 DEF RecvBegins, NetTypeOK
  <2> QED
    BY <1>2, <2>1, <2>4, <2>5, <2>6, OthersStay DEF Inv, CursorInTable
<1>4. CASE Dispatch(c) \/ Replied(c)
  <2> USE <1>4 DEF Dispatch, Replied, UNCHANGED_Peer, UNCHANGED_Table, ThreadEnds, Goto
  <2>1. UNCHANGED <<io, length, sent, size, taken, msg, ret, answer>>
    OBVIOUS
  <2>2. NetTypeOK'
    <3>0. UNCHANGED open \/ open' = [open EXCEPT ![Server(c)] = c \in kept]
      OBVIOUS
    <3>1. open' \in [Ends -> BOOLEAN]
      BY <1>1, <3>0, OpenTyped DEF NetTypeOK
    <3>2. failures' \in 0 .. MaxFailures
      BY <1>1 DEF NetTypeOK, Fine, Fail
    <3> QED
      BY <1>1, <2>1, <3>1, <3>2 DEF NetTypeOK
  <2>3. stage' \in [Conns -> {"none", "recv", "handle", "list", "answer", "reply", "end"}]
    BY <1>2
  <2>4. TypeOK'
    BY <1>1, <2>2, <2>3, SMTT(30) DEF TypeOK
  <2>5. Place(c)'
    BY <1>1, <1>2 DEF Place, NetTypeOK, Sending, Receiving
  <2>6. \A e \in Ends \ {Client(c), Server(c)} : open'[e] = open[e]
    BY <1>1 DEF NetTypeOK
  <2> QED
    BY <1>2, <2>1, <2>4, <2>5, <2>6, OthersStay, FramesStay DEF Inv, CursorInTable
<1>5. CASE Answer(c)
  <2> USE <1>5 DEF Answer, UNCHANGED_Table, ThreadEnds, Goto
  <2>1. /\ \A e \in Ends : Frame(e)'
        /\ io' \in [Ends -> Results \union Sending \union Receiving]
        /\ length' \in [Ends -> TextSizes \union {0}]
    BY <1>1, BeginsKeeps, FramesStay DEF Place, NetTypeOK
  <2>2. NetTypeOK'
    <3>0. UNCHANGED open \/ open' = [open EXCEPT ![Server(c)] = c \in kept]
      OBVIOUS
    <3>1. open' \in [Ends -> BOOLEAN]
      BY <1>1, <3>0, OpenTyped DEF NetTypeOK
    <3> QED
      BY <1>1, <2>1, <3>1 DEF NetTypeOK
  <2>3. ActualResponse(ret[c], response[c]) \in {"result", "error"}
    BY <1>1 DEF TypeOK, ActualResponse
  <2>4. /\ stage' \in [Conns -> {"none", "recv", "handle", "list", "answer", "reply", "end"}]
        /\ answer' \in [Conns -> {"none", "result", "error"}]
    BY <1>2, <2>3
  <2>5. TypeOK'
    BY <1>1, <2>2, <2>4 DEF TypeOK
  <2>6. Place(c)'
    BY <1>1, <1>2, <2>3 DEF Place, SendBegins, NetTypeOK, Sending, Receiving
  <2>7. \A e \in Ends \ {Client(c), Server(c)} :
            io'[e] = io[e] /\ open'[e] = open[e] /\ length'[e] = length[e] /\ taken'[e] = taken[e]
    BY <1>1 DEF SendBegins, NetTypeOK
  <2> QED
    BY <1>2, <2>1, <2>5, <2>6, <2>7, OthersStay DEF Inv, CursorInTable
<1> QED
  BY <1>3, <1>4, <1>5

\* A handler changes neither connections nor calls.
LEMMA HandlerPlaces ==
    ASSUME Inv, NEW c \in Conns,
           UNCHANGED <<io, open, length, sent, size, taken, msg, answer>>,
           \/ /\ stage[c] = "handle"
              /\ stage' = [stage EXCEPT ![c] = "list"] \/ stage' = [stage EXCEPT ![c] = "answer"]
           \/ stage[c] = "list" /\ stage' = [stage EXCEPT ![c] = "answer"]
           \/ stage[c] = "list" /\ UNCHANGED stage,
           \A d \in Conns \ {c} : ret'[d] = ret[d]
    PROVE  /\ \A e \in Ends : Frame(e)'
           /\ \A d \in Conns : Place(d)'
           /\ stage' \in [Conns -> {"none", "recv", "handle", "list", "answer", "reply", "end"}]
<1>1. stage \in [Conns -> {"none", "recv", "handle", "list", "answer", "reply", "end"}]
  BY DEF Inv, TypeOK
<1>2. Place(c)
  BY DEF Inv
<1>3. Place(c)'
  BY <1>1, <1>2 DEF Place
<1> QED
  BY <1>1, <1>3, OthersStay, FramesStay

LEMMA HandlersKeep ==
    ASSUME Inv, NEW c \in Conns,
           \/ HandleUnknown(c) \/ HandleNewWorker(c) \/ HandleQueueRun(c) \/ HandleFinishedRun(c)
           \/ BeginList(c) \/ ListRow(c) \/ EndList(c)
    PROVE  Inv'
<1> USE NumbersAssumption
<1>1. TypeOK /\ NetTypeOK
  BY DEF Inv, TypeOK
<1>2. /\ ret \in [Conns -> {"none", "ok", "failed"}]
      /\ response \in [Conns -> {"none", "result"}]
      /\ rows \in Seq(Row) /\ queue \in Seq(Conns) /\ kept \subseteq Conns
      /\ holder \in Conns \union {Nobody} /\ cursor \in Nat
      /\ runs \in [Conns -> Seq([id : Nat, exit_code : Int])]
      /\ before \in [Conns -> Seq(Row)]
  BY <1>1 DEF TypeOK
<1>3. /\ UNCHANGED <<open, io, length, sent, size, taken, up, msg, run, ec, told, answer>>
      /\ failures' \in 0 .. MaxFailures
  BY <1>1 DEF HandleUnknown, HandleNewWorker, HandleQueueRun, HandleFinishedRun, BeginList, ListRow, EndList,
              Returns, UNCHANGED_Peer, Fine, Fail, NetTypeOK
<1>4. NetTypeOK'
  BY <1>1, <1>3 DEF NetTypeOK
<1>5. ASSUME NEW r \in {"ok", "failed"}, NEW resp \in {"none", "result"}, Returns(c, r, resp)
      PROVE  ret' \in [Conns -> {"none", "ok", "failed"}] /\ response' \in [Conns -> {"none", "result"}]
  BY <1>2, <1>5 DEF Returns
<1>6. CASE HandleUnknown(c) \/ HandleNewWorker(c) \/ HandleQueueRun(c) \/ HandleFinishedRun(c)
  <2>1. \E r \in {"ok", "failed"}, resp \in {"none", "result"} : Returns(c, r, resp)
    BY <1>6 DEF HandleUnknown, HandleNewWorker, HandleQueueRun, HandleFinishedRun
  <2>2. stage[c] = "handle" /\ UNCHANGED <<holder, cursor, runs, before>>
    BY <1>6 DEF HandleUnknown, HandleNewWorker, HandleQueueRun, HandleFinishedRun, Handles, UNCHANGED_Table
  <2>3. kept' \subseteq Conns
    BY <1>2, <1>6
    DEF HandleUnknown, HandleNewWorker, HandleQueueRun, HandleFinishedRun, UNCHANGED_Table
  <2>4. rows' \in Seq(Row) /\ queue' \in Seq(Conns) /\ Len(rows') >= Len(rows)
    <3>1. CASE UNCHANGED <<rows, queue>>
      BY <1>2, <3>1
    <3>2. CASE rows' \in {rows, Append(rows, Unfinished)} /\ queue' \in {queue, Append(queue, c)}
      <4>1. Unfinished \in Row
        BY DEF Unfinished, Row
      <4>2. Append(rows, Unfinished) \in Seq(Row) /\ Len(Append(rows, Unfinished)) = Len(rows) + 1
        BY <1>2, <4>1
      <4>3. Append(queue, c) \in Seq(Conns) /\ Len(rows) \in Nat
        BY <1>2
      <4>4. queue' \in Seq(Conns)
        BY <1>2, <3>2, <4>3
      <4>5. CASE UNCHANGED rows
        BY <1>2, <4>3, <4>4, <4>5
      <4>6. CASE rows' = Append(rows, Unfinished)
        BY <4>2, <4>3, <4>4, <4>6
      <4> QED
        BY <3>2, <4>5, <4>6
    <3>3. CASE /\ rows' = [rows EXCEPT ![run[c]].finished = TRUE, ![run[c]].exit_code = ec[c]]
               /\ UNCHANGED queue
      <4>1. ec[c] \in Int
        BY <1>1 DEF TypeOK
      <4>2. rows \in [1 .. Len(rows) -> Row] /\ Len(rows) \in Nat
        BY <1>2
      <4>3. rows' \in [1 .. Len(rows) -> Row]
        BY <3>3, <4>1, <4>2 DEF Row
      <4> QED
        BY <1>2, <3>3, <4>2, <4>3
    <3> QED
      BY <1>6, <3>1, <3>2, <3>3
      DEF HandleUnknown, HandleNewWorker, HandleQueueRun, HandleFinishedRun, UNCHANGED_Table
  <2>5. stage' = [stage EXCEPT ![c] = "answer"] /\ \A d \in Conns \ {c} : ret'[d] = ret[d]
    BY <1>2, <2>1 DEF Returns, Goto
  <2>6. /\ \A e \in Ends : Frame(e)'
        /\ \A d \in Conns : Place(d)'
        /\ stage' \in [Conns -> {"none", "recv", "handle", "list", "answer", "reply", "end"}]
    BY <1>3, <2>2, <2>5, HandlerPlaces
  <2>7. TypeOK'
    BY <1>1, <1>3, <1>4, <1>5, <2>1, <2>2, <2>3, <2>4, <2>6 DEF TypeOK
  <2>8. CursorInTable'
    BY <1>2, <2>2, <2>4 DEF Inv, CursorInTable
  <2> QED
    BY <2>6, <2>7, <2>8 DEF Inv
<1>7. CASE BeginList(c) \/ ListRow(c) \/ EndList(c)
  <2>1. UNCHANGED <<kept, rows, queue>>
    BY <1>7 DEF BeginList, ListRow, EndList
  <2>2. ret' \in [Conns -> {"none", "ok", "failed"}] /\ response' \in [Conns -> {"none", "result"}]
    BY <1>2, <1>5, <1>7 DEF BeginList, ListRow, EndList
  <2>3. holder' \in Conns \union {Nobody} /\ cursor' \in Nat /\ cursor' <= Len(rows)
    BY <1>2, <1>7 DEF BeginList, ListRow, EndList, Inv, CursorInTable
  <2>7. before' \in [Conns -> Seq(Row)]
    BY <1>2, <1>7 DEF BeginList, ListRow, EndList
  <2>4. runs' \in [Conns -> Seq([id : Nat, exit_code : Int])]
    <3>1. CASE BeginList(c) \/ EndList(c)
      BY <1>2, <3>1 DEF BeginList, EndList
    <3>2. CASE ListRow(c)
      <4>1. cursor \in 1 .. Len(rows)
        BY <1>2, <3>2 DEF run_to_json, ListRow, Inv, CursorInTable
      <4>2. rows[cursor] \in Row
        BY <1>2, <4>1
      <4>3. [id |-> cursor, exit_code |-> rows[cursor].exit_code] \in [id : Nat, exit_code : Int]
        BY <1>2, <4>2 DEF Row
      <4> QED
        BY <1>2, <3>2, <4>3 DEF run_to_json, ListRow
    <3> QED
      BY <1>7, <3>1, <3>2
  <2>5. /\ \A e \in Ends : Frame(e)'
        /\ \A d \in Conns : Place(d)'
        /\ stage' \in [Conns -> {"none", "recv", "handle", "list", "answer", "reply", "end"}]
    BY <1>2, <1>3, <1>7, HandlerPlaces DEF BeginList, ListRow, EndList, Handles, Goto, Returns
  <2>6. TypeOK'
    BY <1>1, <1>3, <1>4, <2>1, <2>2, <2>3, <2>4, <2>5, <2>7 DEF TypeOK
  <2> QED
    BY <2>1, <2>3, <2>5, <2>6 DEF Inv, CursorInTable
<1> QED
  BY <1>6, <1>7

LEMMA NetKeeps ==
    ASSUME Inv, NEW e \in Ends, NetStep(e)
    PROVE  Inv'
<1>1. NetInv
  BY DEF Inv, TypeOK, NetInv
<1>2. UNCHANGED <<open, length, up, msg, run, ec, told, serverVars>>
  BY DEF NetStep, IO, Send, SendFails, Recv, RecvEnds, RecvFails
<1>3. NetInv'
  BY <1>1, SendKeeps, RecvKeeps DEF NetStep, IO
<1>4. TypeOK'
  BY <1>2, <1>3 DEF NetInv, Inv, TypeOK, serverVars
<1>5. \A f \in Ends \ {e} : io'[f] = io[f] /\ taken'[f] = taken[f]
  BY <1>1 DEF NetInv, NetTypeOK, NetStep, IO, Send, SendFails, Recv, RecvEnds, RecvFails, Took
<1>6. /\ io[e] \in Sending => io'[e] \in {"sent", "failed"} \union Sending /\ taken'[e] = taken[e]
      /\ io[e] \in Receiving => io'[e] \in {"received", "failed"} \union Receiving
      /\ io[e] \in Sending \union Receiving
  <2>1. CASE Send(e) \/ SendFails(e)
    BY <1>1, <2>1 DEF NetInv, NetTypeOK, Send, SendFails, Sending, Receiving
  <2>2. CASE Recv(e) \/ RecvEnds(e) \/ RecvFails(e)
    BY <1>1, <2>2 DEF NetInv, NetTypeOK, Recv, RecvEnds, RecvFails, Took, Sending, Receiving
  <2> QED
    BY <2>1, <2>2 DEF NetStep, IO
<1>7. ASSUME NEW c \in Conns
      PROVE  Place(c)'
  <2>1. Place(c)
    BY DEF Inv
  <2>2. UNCHANGED <<stage, ret, answer>>
    BY <1>2 DEF serverVars
  <2>3. CASE e = Client(c)
    BY <1>2, <1>5, <1>6, <2>1, <2>2, <2>3, EndsOfConns DEF Place, Sending, Receiving
  <2>4. CASE e = Server(c)
    BY <1>2, <1>5, <1>6, <2>1, <2>2, <2>4, EndsOfConns DEF Place, Sending, Receiving
  <2>5. CASE e # Client(c) /\ e # Server(c)
    BY <1>2, <1>5, <2>1, <2>2, <2>5, EndsOfConns DEF Place
  <2> QED
    BY <2>3, <2>4, <2>5
<1> QED
  BY <1>2, <1>3, <1>4, <1>7 DEF NetInv, Inv, CursorInTable, serverVars

LEMMA ServerGoneKeeps ==
    ASSUME Inv, ServerGone
    PROVE  Inv'
<1> USE EndsOfConns, NumbersAssumption DEF ServerGone, Fail
<1>1. TypeOK /\ NetTypeOK /\ \A e \in Ends : Frame(e)
  BY DEF Inv, TypeOK
<1>2. \A e \in Ends : io'[e] = IF e[2] = "server" THEN "failed" ELSE io[e]
  OBVIOUS
<1>3. \A e \in Ends : open'[e] = (open[e] /\ e[2] = "client")
  OBVIOUS
<1>4. \A c \in Conns : stage'[c] = "end"
  OBVIOUS
<1>5. \A c \in Conns : Client(c)[2] = "client" /\ Server(c)[2] = "server"
  BY DEF Client, Server
<1>6. NetTypeOK'
  <2>1. io' \in [Ends -> Results \union Sending \union Receiving]
    BY <1>1 DEF NetTypeOK, Results
  <2>2. open' \in [Ends -> BOOLEAN]
    OBVIOUS
  <2>3. failures' \in 0 .. MaxFailures
    BY <1>1 DEF NetTypeOK
  <2> QED
    BY <1>1, <2>1, <2>2, <2>3 DEF NetTypeOK
<1>7. TypeOK'
  BY <1>1, <1>6 DEF TypeOK
<1>8. ASSUME NEW e \in Ends
      PROVE  Frame(e)'
  BY <1>1, <1>2, <1>8 DEF Frame, Sending
<1>9. ASSUME NEW c \in Conns
      PROVE  Place(c)'
  <2>1. io'[Client(c)] = io[Client(c)] /\ io'[Server(c)] = "failed" /\ ~open'[Server(c)]
    BY <1>2, <1>3, <1>5
  <2> QED
    BY <1>4, <2>1 DEF Inv, Place, Sending, Receiving
<1>10. CursorInTable'
  BY DEF Inv, CursorInTable
<1> QED
  BY <1>7, <1>8, <1>9, <1>10 DEF Inv

LEMMA InvStep == Inv /\ [Next]_vars => Inv'
<1>1. ASSUME Inv, UNCHANGED vars
      PROVE  Inv'
  <2>1. TypeOK'
    BY <1>1 DEF Inv, TypeOK, NetTypeOK, vars, netVars, serverVars
  <2>2. \A e \in Ends : Frame(e)'
    BY <1>1 DEF Inv, Frame, vars, netVars
  <2>3. \A c \in Conns : Place(c)'
    BY <1>1 DEF Inv, Place, vars, netVars, serverVars
  <2> QED
    BY <1>1, <2>1, <2>2, <2>3 DEF Inv, CursorInTable, vars, serverVars
<1> QED
  BY <1>1, PeerKeeps, ThreadKeeps, HandlersKeep, NetKeeps, ServerGoneKeeps DEF Next, PeerStep, ThreadStep

-----------------------------------------------------------------------------
(* Messages: theorems *)

THEOREM Invariance == Spec => []Inv
  BY InvInit, InvStep, PTL DEF Spec

\* TypeOK: in particular, the size that net_recv_buf allocates and waits for is
\* that of a message, not of anything else.
THEOREM Typing == Spec => []TypeOK
<1>1. Inv => TypeOK
  BY DEF Inv
<1> QED
  BY <1>1, Invariance, PTL

\* WholeOrNothing (net_send_buf, net_recv_buf): a message that was received is
\* the one that was sent, in whatever parts it came.
THEOREM MessagesWhole == Spec => []WholeOrNothing
<1>1. Inv => WholeOrNothing
  <2> SUFFICES ASSUME Inv, NEW e \in Ends, io[e] = "received"
               PROVE  size[e] = length[Peer(e)] /\ taken[e] = SizeBytes + size[e] /\ io[Peer(e)] \notin Sending
    BY DEF WholeOrNothing
  <2>1. Frame(e) /\ Frame(Peer(e)) /\ Peer(e) \in Ends
    BY EndsOfConns DEF Inv
  <2>2. length[Peer(e)] \in Nat /\ sent[Peer(e)] \in Nat
    BY <2>1, Numbers DEF Inv, TypeOK, NetTypeOK
  <2> QED
    BY <2>1, <2>2 DEF Frame, Sending, SizeBytes
<1> QED
  BY <1>1, Invariance, PTL

\* OnlyRequestsAnswered (cmd_dispatcher_handle_conn_internal): no byte goes
\* back to a peer that has not asked for an answer, or asked in a bad message.
THEOREM NotificationsUnanswered == Spec => []OnlyRequestsAnswered
<1>1. Inv => OnlyRequestsAnswered
  <2> SUFFICES ASSUME Inv, NEW c \in Conns, sent[Server(c)] > 0
               PROVE  Valid(msg[c]) /\ msg[c].id # "absent"
    BY DEF OnlyRequestsAnswered
  <2>1. Frame(Server(c)) /\ Place(c)
    BY EndsOfConns DEF Inv
  <2> QED
    BY <2>1 DEF Frame, Place, is_notification
<1> QED
  BY <1>1, Invariance, PTL

-----------------------------------------------------------------------------
(* Answers: what was executed, sent and believed *)

Outcome(c) ==
    /\ stage[c] \in {"none", "recv", "handle", "list"} => ret[c] = "none"
    /\ stage[c] \in {"answer", "reply"} => ret[c] # "none"
    /\ stage[c] = "list" => msg[c].method = "get-runs"
    /\ answer[c] = "result" => ret[c] = "ok"
    /\ answer[c] = "error" => ret[c] = "failed"
    /\ told[c] = "ok" => answer[c] = "result"
    /\ told[c] = "error" => answer[c] = "error"

QueueInv ==
    /\ \A i \in DOMAIN queue :
        /\ queue[i] \in Conns
        /\ msg[queue[i]].method = "queue-run"
        /\ ret[queue[i]] = "ok"
    /\ \A i, j \in DOMAIN queue : queue[i] = queue[j] => i = j
    /\ \A c \in Conns :
        ret[c] = "ok" /\ msg[c].method = "queue-run" => \E i \in DOMAIN queue : queue[i] = c

OutcomeInv == QueueInv /\ \A c \in Conns : Outcome(c)

LEMMA OutcomeInit == Init => OutcomeInv
  BY DEF Init, OutcomeInv, Outcome, QueueInv

\* Steps that queue nothing.
LEMMA QueueStays ==
    ASSUME QueueInv, UNCHANGED <<msg, queue>>,
           \A d \in Conns :
                \/ ret'[d] = ret[d]
                \/ ret[d] = "none" /\ (msg[d].method # "queue-run" \/ ret'[d] = "failed")
    PROVE  QueueInv'
  BY DEF QueueInv

\* An end that received something was sent something.
LEMMA ReceivedMeansAnswered ==
    ASSUME Inv, NEW c \in Conns, io[Client(c)] = "received"
    PROVE  answer[c] \in {"result", "error"}
<1>1. Frame(Client(c)) /\ Frame(Server(c)) /\ Place(c) /\ Peer(Client(c)) = Server(c)
  BY EndsOfConns DEF Inv
<1>2. taken[Client(c)] \in Nat /\ sent[Server(c)] \in Nat
  BY EndsOfConns DEF Inv, TypeOK, NetTypeOK
<1>3. answer[c] \in {"none", "result", "error"}
  BY DEF Inv, TypeOK
<1> QED
  BY <1>1, <1>2, <1>3 DEF Frame, Place, SizeBytes

\* Everything but what handlers do.
LEMMA OutsideHandlers ==
    ASSUME Inv, OutcomeInv, NEW c \in Conns,
           PeerStep(c) \/ PeerGone(c) \/ Accept(c) \/ Dispatch(c) \/ Answer(c) \/ Replied(c)
    PROVE  OutcomeInv'
<1>1. UNCHANGED <<msg, queue, ret>>
  BY DEF PeerStep, Connect, Await, Learn, PeerGone, Accept, Dispatch, Answer, Replied,
         UNCHANGED_Peer, UNCHANGED_Table, serverVars
<1>2. QueueInv'
  BY <1>1, QueueStays DEF OutcomeInv
<1>3. /\ told \in [Conns -> {"nothing", "ok", "error", "sent", "silence"}]
      /\ stage \in [Conns -> {"none", "recv", "handle", "list", "answer", "reply", "end"}]
      /\ answer \in [Conns -> {"none", "result", "error"}]
      /\ ret[c] \in {"none", "ok", "failed"}
      /\ response[c] \in {"none", "result"}
  BY DEF Inv, TypeOK
<1>4. CASE PeerStep(c) \/ PeerGone(c)
  <2>1. UNCHANGED <<stage, answer>>
    BY <1>4 DEF PeerStep, Connect, Await, Learn, PeerGone, serverVars
  <2>2. \/ UNCHANGED told
        \/ \E what \in {"sent", "silence"} : told' = [told EXCEPT ![c] = what]
        \/ /\ answer[c] \in {"result", "error"}
           /\ told' = [told EXCEPT ![c] = IF answer[c] = "error" THEN "error" ELSE "ok"]
    BY <1>4, ReceivedMeansAnswered DEF PeerStep, Connect, Await, Learn, PeerGone, Over
  <2>3. \A d \in Conns : Outcome(d)'
    BY <1>1, <1>3, <2>1, <2>2 DEF OutcomeInv, Outcome
  <2> QED
    BY <1>2, <2>3 DEF OutcomeInv
<1>5. CASE Accept(c) \/ Dispatch(c) \/ Replied(c)
  <2>1. UNCHANGED <<answer, told>>
    BY <1>5 DEF Accept, Dispatch, Replied, UNCHANGED_Peer
  <2>2. \/ stage[c] = "none" /\ \E to \in {"recv", "end"} : stage' = [stage EXCEPT ![c] = to]
        \/ stage[c] = "recv" /\ \E to \in {"handle", "end"} : stage' = [stage EXCEPT ![c] = to]
        \/ stage' = [stage EXCEPT ![c] = "end"]
    BY <1>5 DEF Accept, Dispatch, Replied, ThreadEnds, Goto
  <2>3. \A d \in Conns : Outcome(d)'
    BY <1>1, <1>3, <2>1, <2>2 DEF OutcomeInv, Outcome
  <2> QED
    BY <1>2, <2>3 DEF OutcomeInv
<1>6. CASE Answer(c)
  <2>1. UNCHANGED told /\ stage[c] = "answer" /\ \E to \in {"reply", "end"} : stage' = [stage EXCEPT ![c] = to]
    BY <1>6 DEF Answer, ThreadEnds, Goto
  <2>2. UNCHANGED answer \/ answer' = [answer EXCEPT ![c] = ActualResponse(ret[c], response[c])]
    BY <1>6 DEF Answer
  <2>3. ret[c] # "none" => ActualResponse(ret[c], response[c]) = IF ret[c] = "failed" THEN "error" ELSE "result"
    BY <1>3 DEF ActualResponse
  <2>4. \A d \in Conns : Outcome(d)'
    BY <1>1, <1>3, <2>1, <2>2, <2>3 DEF OutcomeInv, Outcome
  <2> QED
    BY <1>2, <2>4 DEF OutcomeInv
<1> QED
  BY <1>4, <1>5, <1>6

LEMMA HandlersOutcome ==
    ASSUME Inv, OutcomeInv, NEW c \in Conns,
           \/ HandleUnknown(c) \/ HandleNewWorker(c) \/ HandleQueueRun(c) \/ HandleFinishedRun(c)
           \/ BeginList(c) \/ ListRow(c) \/ EndList(c)
    PROVE  OutcomeInv'
<1>1. UNCHANGED <<msg, answer, told>>
  BY DEF HandleUnknown, HandleNewWorker, HandleQueueRun, HandleFinishedRun, BeginList, ListRow, EndList,
         Returns, UNCHANGED_Peer
<1>2. /\ stage \in [Conns -> {"none", "recv", "handle", "list", "answer", "reply", "end"}]
      /\ ret \in [Conns -> {"none", "ok", "failed"}]
      /\ answer \in [Conns -> {"none", "result", "error"}]
      /\ rows \in Seq(Row) /\ queue \in Seq(Conns)
  BY DEF Inv, TypeOK
<1>3. stage[c] \in {"handle", "list"} /\ ret[c] = "none"
  BY DEF HandleUnknown, HandleNewWorker, HandleQueueRun, HandleFinishedRun, BeginList, ListRow, EndList,
         Handles, OutcomeInv, Outcome
<1>4. ASSUME NEW r \in {"ok", "failed"}, NEW resp, Returns(c, r, resp)
      PROVE  \A d \in Conns : Outcome(d)'
  <2>1. stage' = [stage EXCEPT ![c] = "answer"] /\ ret' = [ret EXCEPT ![c] = r]
    BY <1>4 DEF Returns, Goto
  <2> QED
    BY <1>1, <1>2, <1>3, <2>1 DEF OutcomeInv, Outcome
<1>5. CASE BeginList(c) \/ ListRow(c)
  <2>1. UNCHANGED <<ret, queue>>
    BY <1>5 DEF BeginList, ListRow
  <2>2. msg[c].method = "get-runs" /\ stage' = [stage EXCEPT ![c] = "list"]
    BY <1>2, <1>5 DEF BeginList, ListRow, Handles, Goto, OutcomeInv, Outcome
  <2>3. \A d \in Conns : Outcome(d)'
    BY <1>1, <1>2, <1>3, <2>1, <2>2 DEF OutcomeInv, Outcome
  <2> QED
    BY <1>1, <2>1, <2>3, QueueStays DEF OutcomeInv
<1>6. CASE HandleUnknown(c) \/ HandleNewWorker(c) \/ HandleFinishedRun(c) \/ EndList(c)
  <2>1. UNCHANGED queue /\ msg[c].method # "queue-run"
    BY <1>6 DEF HandleUnknown, HandleNewWorker, HandleFinishedRun, EndList, Handles, UNCHANGED_Table, OutcomeInv, Outcome
  <2>2. \E r \in {"ok", "failed"}, resp \in {"none", "result"} : Returns(c, r, resp)
    BY <1>6 DEF HandleUnknown, HandleNewWorker, HandleFinishedRun, EndList
  <2>3. \A d \in Conns : d # c => ret'[d] = ret[d]
    BY <1>2, <2>2 DEF Returns
  <2> QED
    BY <1>1, <1>3, <1>4, <2>1, <2>2, <2>3, QueueStays DEF OutcomeInv
<1>7. CASE HandleQueueRun(c)
  <2>1. msg[c].method = "queue-run"
    BY <1>7 DEF HandleQueueRun, Handles
  <2>2. CASE Returns(c, "failed", "none") /\ UNCHANGED queue
    <3>1. ret' = [ret EXCEPT ![c] = "failed"]
      BY <2>2 DEF Returns
    <3> QED
      BY <1>1, <1>2, <1>3, <1>4, <2>2, <3>1, QueueStays DEF OutcomeInv
  <2>3. CASE Returns(c, "ok", "result") /\ queue' = Append(queue, c)
    <3>1. ret' = [ret EXCEPT ![c] = "ok"]
      BY <2>3 DEF Returns
    <3>2. ret'[c] = "ok" /\ \A d \in Conns \ {c} : ret'[d] = ret[d]
      BY <1>2, <3>1
    <3>3. /\ DOMAIN queue' = DOMAIN queue \union {Len(queue) + 1}
          /\ Len(queue) + 1 \notin DOMAIN queue
          /\ queue'[Len(queue) + 1] = c
          /\ \A i \in DOMAIN queue : queue'[i] = queue[i]
      BY <1>2, <2>3
    <3> DEFINE last == Len(queue) + 1
    <3> HIDE DEF last
    <3>4. /\ DOMAIN queue' = DOMAIN queue \union {last}
          /\ queue'[last] = c
          /\ \A i \in DOMAIN queue : queue'[i] = queue[i]
      BY <3>3 DEF last
    <3>5. \A i \in DOMAIN queue : queue[i] # c
      BY <1>3 DEF OutcomeInv, QueueInv
    <3>6. \A i \in DOMAIN queue' :
            /\ queue'[i] \in Conns
            /\ msg[queue'[i]].method = "queue-run"
            /\ ret'[queue'[i]] = "ok"
      BY <2>1, <3>2, <3>4, <3>5 DEF OutcomeInv, QueueInv
    <3>7. \A i, j \in DOMAIN queue' : queue'[i] = queue'[j] => i = j
      BY <3>4, <3>5 DEF OutcomeInv, QueueInv
    <3>8. \A d \in Conns : ret'[d] = "ok" /\ msg[d].method = "queue-run" => \E i \in DOMAIN queue' : queue'[i] = d
      BY <3>2, <3>4 DEF OutcomeInv, QueueInv
    <3>9. QueueInv'
      BY <1>1, <3>6, <3>7, <3>8 DEF QueueInv
    <3> QED
      BY <1>4, <2>3, <3>9 DEF OutcomeInv
  <2> QED
    BY <1>7, <2>2, <2>3 DEF HandleQueueRun
<1> QED
  BY <1>5, <1>6, <1>7

LEMMA OutcomeStep == Inv /\ OutcomeInv /\ [Next]_vars => OutcomeInv'
<1>1. ASSUME OutcomeInv, UNCHANGED vars
      PROVE  OutcomeInv'
  BY <1>1 DEF OutcomeInv, Outcome, QueueInv, vars, serverVars
<1>2. ASSUME OutcomeInv, NEW e \in Ends, NetStep(e)
      PROVE  OutcomeInv'
  BY <1>2 DEF NetStep, OutcomeInv, Outcome, QueueInv, serverVars
<1>3. ASSUME Inv, OutcomeInv, ServerGone
      PROVE  OutcomeInv'
  BY <1>3 DEF ServerGone, OutcomeInv, Outcome, QueueInv
<1> QED
  BY <1>1, <1>2, <1>3, OutsideHandlers, HandlersOutcome DEF Next, ThreadStep

THEOREM Outcomes == Spec => []OutcomeInv
  BY OutcomeInit, OutcomeStep, Invariance, PTL DEF Spec

\* AnswersTrue (server_handle_cmd_queue_run): "ok" means that the run is in the
\* queue, once, and an error that it is not, so that one may ask again.
THEOREM AnswersAreTrue == Spec => []AnswersTrue
<1>1. OutcomeInv => AnswersTrue
  <2> SUFFICES ASSUME OutcomeInv, NEW c \in Conns
               PROVE  /\ told[c] = "ok" /\ msg[c].method = "queue-run" => Cardinality(QueuedBy(c)) = 1
                      /\ told[c] = "error" => QueuedBy(c) = {}
    BY DEF AnswersTrue
  <2>1. Outcome(c) /\ QueueInv
    BY DEF OutcomeInv
  <2>2. ASSUME told[c] = "ok", msg[c].method = "queue-run"
        PROVE  Cardinality(QueuedBy(c)) = 1
    <3>1. PICK i \in DOMAIN queue : queue[i] = c
      BY <2>1, <2>2 DEF Outcome, QueueInv
    <3>2. QueuedBy(c) = {i}
      BY <2>1, <3>1 DEF QueueInv, QueuedBy
    <3> QED
      BY <3>2, FS_Singleton
  <2>3. ASSUME told[c] = "error"
        PROVE  QueuedBy(c) = {}
    BY <2>1, <2>3 DEF Outcome, QueueInv, QueuedBy
  <2> QED
    BY <2>2, <2>3
<1> QED
  BY <1>1, Outcomes, PTL

-----------------------------------------------------------------------------
(* Lists of runs *)

\* A run is reported once, and unfinished before.
ReportInv ==
    /\ \A id \in DOMAIN rows : ~rows[id].finished => rows[id].exit_code = -1
    /\ \A c \in Conns : run[c] # 0 =>
        run[c] \in DOMAIN rows /\ (ret[c] = "none" => ~rows[run[c]].finished)
    /\ \A c, d \in Conns : run[c] = run[d] /\ run[c] # 0 => c = d

Listed(c) == msg[c].method = "get-runs" /\ (stage[c] = "list" \/ ret[c] = "ok")

\* Rows that were finished when c began have not changed.
SinceBefore(c) ==
    /\ Len(before[c]) <= Len(rows)
    /\ \A id \in DOMAIN before[c] :
        /\ before[c][id].finished => rows[id] = before[c][id]
        /\ ~before[c][id].finished => before[c][id].exit_code = -1

\* What c has listed so far.
Entries(c) ==
    /\ Len(runs[c]) <= Len(before[c])
    /\ \A i \in DOMAIN runs[c] :
        /\ runs[c][i].id = Len(before[c]) + 1 - i
        /\ \/ runs[c][i].exit_code = -1 /\ ~before[c][Len(before[c]) + 1 - i].finished
           \/ /\ rows[Len(before[c]) + 1 - i].finished
              /\ rows[Len(before[c]) + 1 - i].exit_code = runs[c][i].exit_code

Listing(c) ==
    /\ stage[c] \in {"none", "recv", "handle"} => runs[c] = << >>
    /\ stage[c] = "list" => holder = c /\ Len(runs[c]) + cursor = Len(before[c])
    /\ Listed(c) => SinceBefore(c) /\ Entries(c)
    /\ Listed(c) /\ ret[c] = "ok" => Len(runs[c]) = Len(before[c])

ListInv == ReportInv /\ \A c \in Conns : Listing(c)

LEMMA ListInit == Init => ListInv
<1> SUFFICES ASSUME Init PROVE ListInv
  OBVIOUS
<1>1. PICK n \in 0 .. OldRows : rows \in
        [1 .. n -> {Unfinished} \union [finished : {TRUE}, exit_code : ExitCodes]]
  BY DEF Init
<1>2. \A id \in DOMAIN rows : ~rows[id].finished => rows[id].exit_code = -1
  <2>1. \A row \in {Unfinished} \union [finished : {TRUE}, exit_code : ExitCodes] :
            ~row.finished => row.exit_code = -1
    <3>1. \A row \in [finished : {TRUE}, exit_code : ExitCodes] : row.finished = TRUE
      OBVIOUS
    <3>2. Unfinished.exit_code = -1
      BY DEF Unfinished
    <3> QED
      BY <3>1, <3>2
  <2>2. \A id \in DOMAIN rows :
            rows[id] \in {Unfinished} \union [finished : {TRUE}, exit_code : ExitCodes]
    BY <1>1
  <2> QED
    BY <2>1, <2>2
<1>3. \A c \in Conns : run[c] = 0 /\ stage[c] = "none" /\ ret[c] = "none" /\ runs[c] = << >>
  BY DEF Init
<1>4. ReportInv
  BY <1>2, <1>3 DEF ReportInv
<1>5. \A c \in Conns : Listing(c)
  BY <1>3 DEF Listing, Listed
<1> QED
  BY <1>4, <1>5 DEF ListInv

\* Steps that neither list nor change runs.
LEMMA TableStays ==
    ASSUME ListInv, UNCHANGED <<msg, ret, rows, cursor, runs, before>>,
           UNCHANGED run
             \/ \E c \in Conns, id \in Reportable : io[Client(c)] = "idle" /\ ret[c] = "none" /\ run' = [run EXCEPT ![c] = id],
           run \in [Conns -> Nat],
           \A d \in Conns :
                \/ stage'[d] = stage[d] /\ UNCHANGED holder
                \/ stage'[d] \notin {"none", "list"} /\ (stage'[d] \in {"recv", "handle"} => stage[d] \in {"none", "recv"})
    PROVE  ListInv'
<1>1. ReportInv'
  BY DEF ListInv, ReportInv, Reportable
<1>2. ASSUME NEW d \in Conns
      PROVE  Listing(d)'
  BY DEF ListInv, Listing, Listed, SinceBefore, Entries
<1> QED
  BY <1>1, <1>2 DEF ListInv

LEMMA OutsideTable ==
    ASSUME Inv, ListInv,
           \/ \E c \in Conns : PeerStep(c) \/ PeerGone(c) \/ Accept(c) \/ Dispatch(c) \/ Answer(c) \/ Replied(c)
           \/ \E e \in Ends : NetStep(e)
           \/ ServerGone
           \/ UNCHANGED vars
    PROVE  ListInv'
<1>1. UNCHANGED <<msg, ret, rows, cursor, runs, before>>
  BY DEF PeerStep, Connect, Await, Learn, PeerGone, Accept, Dispatch, Answer, Replied, NetStep, ServerGone,
         UNCHANGED_Peer, UNCHANGED_Table, serverVars, vars
<1>2. UNCHANGED run
        \/ \E c \in Conns, id \in Reportable : io[Client(c)] = "idle" /\ ret[c] = "none" /\ run' = [run EXCEPT ![c] = id]
  <2>1. ASSUME NEW c \in Conns, Connect(c)
        PROVE  UNCHANGED run \/ \E id \in Reportable : io[Client(c)] = "idle" /\ ret[c] = "none" /\ run' = [run EXCEPT ![c] = id]
    BY <2>1 DEF Connect, Inv, Place
  <2> QED
    BY <2>1 DEF PeerStep, Await, Learn, PeerGone, Accept, Dispatch, Answer, Replied, NetStep, ServerGone,
                UNCHANGED_Peer, vars
<1>3. run \in [Conns -> Nat] /\ stage \in [Conns -> {"none", "recv", "handle", "list", "answer", "reply", "end"}]
  BY DEF Inv, TypeOK
<1>4. ASSUME NEW d \in Conns
      PROVE  \/ stage'[d] = stage[d] /\ UNCHANGED holder
             \/ stage'[d] \notin {"none", "list"} /\ (stage'[d] \in {"recv", "handle"} => stage[d] \in {"none", "recv"})
  <2>1. CASE UNCHANGED <<stage, holder>>
    BY <2>1
  <2>2. ASSUME NEW c \in Conns, Accept(c) \/ Dispatch(c) \/ Answer(c) \/ Replied(c)
        PROVE  \/ stage'[d] = stage[d] /\ UNCHANGED holder
               \/ stage'[d] \notin {"none", "list"} /\ (stage'[d] \in {"recv", "handle"} => stage[d] \in {"none", "recv"})
    BY <1>3, <2>2 DEF Accept, Dispatch, Answer, Replied, ThreadEnds, Goto, UNCHANGED_Table
  <2>3. CASE ServerGone
    BY <2>3 DEF ServerGone
  <2> QED
    BY <2>1, <2>2, <2>3 DEF PeerStep, Connect, Await, Learn, PeerGone, NetStep, serverVars, vars
<1> QED
  BY <1>1, <1>2, <1>3, <1>4, TableStays

\* Rows that are added, or finished, for a call that lists nothing.
LEMMA ListSurvivesWrite ==
    ASSUME Inv, ListInv, NEW c \in Conns, NEW d \in Conns, d # c \/ msg[c].method # "get-runs",
           UNCHANGED <<msg, holder, cursor, runs, before>>,
           stage[c] = "handle", stage' = [stage EXCEPT ![c] = "answer"],
           d # c => ret'[d] = ret[d],
           Len(rows') \in Nat, Len(rows') >= Len(rows),
           \A id \in DOMAIN rows :
                /\ id \in DOMAIN rows'
                /\ rows'[id] = rows[id] \/ ~rows[id].finished
    PROVE  Listing(d)'
<1>1. stage \in [Conns -> {"none", "recv", "handle", "list", "answer", "reply", "end"}]
      /\ rows \in Seq(Row) /\ before[d] \in Seq(Row) /\ runs[d] \in Seq([id : Nat, exit_code : Int])
  BY DEF Inv, TypeOK
<1>2. Listing(d)
  BY DEF ListInv
<1>3. CASE d = c
  BY <1>1, <1>2, <1>3 DEF Listing, Listed
<1>4. CASE d # c
  <2>1. stage'[d] = stage[d] /\ ret'[d] = ret[d] /\ (Listed(d)' <=> Listed(d))
    BY <1>1, <1>4 DEF Listed
  <2>2. ASSUME SinceBefore(d) PROVE SinceBefore(d)'
    <3>1. \A id \in DOMAIN before[d] : id \in DOMAIN rows
      BY <1>1, <2>2 DEF SinceBefore
    <3> QED
      BY <1>1, <2>2, <3>1 DEF SinceBefore
  <2>3. ASSUME SinceBefore(d), Entries(d) PROVE Entries(d)'
    <3>1. \A i \in DOMAIN runs[d] : Len(before[d]) + 1 - i \in DOMAIN rows
      BY <1>1, <2>3, SMTT(30) DEF SinceBefore, Entries
    <3>2. \A i \in DOMAIN runs[d] : rows[Len(before[d]) + 1 - i].finished =>
              rows'[Len(before[d]) + 1 - i] = rows[Len(before[d]) + 1 - i]
      BY <3>1
    <3>3. runs'[d] = runs[d] /\ before'[d] = before[d]
      OBVIOUS
    <3> QED
      BY <2>3, <3>2, <3>3, SMTT(30) DEF Entries
  <2> QED
    BY <1>2, <2>1, <2>2, <2>3 DEF Listing
<1> QED
  BY <1>3, <1>4

LEMMA WritersKeepLists ==
    ASSUME Inv, OutcomeInv, ListInv, NEW c \in Conns,
           HandleUnknown(c) \/ HandleNewWorker(c) \/ HandleQueueRun(c) \/ HandleFinishedRun(c)
    PROVE  ListInv'
<1>1. \E r \in {"ok", "failed"}, resp \in {"none", "result"} : Returns(c, r, resp)
  BY DEF HandleUnknown, HandleNewWorker, HandleQueueRun, HandleFinishedRun
<1>2. /\ stage[c] = "handle" /\ msg[c].method # "get-runs" /\ ret[c] = "none"
      /\ UNCHANGED <<msg, run, holder, cursor, runs, before>>
  BY <1>1 DEF HandleUnknown, HandleNewWorker, HandleQueueRun, HandleFinishedRun, Handles, Returns,
              UNCHANGED_Peer, UNCHANGED_Table, OutcomeInv, Outcome
<1>3. /\ stage' = [stage EXCEPT ![c] = "answer"]
      /\ \A d \in Conns : d # c => ret'[d] = ret[d]
      /\ ret'[c] # "none"
  <2>1. ret \in [Conns -> {"none", "ok", "failed"}]
    BY DEF Inv, TypeOK
  <2> QED
    BY <1>1, <2>1 DEF Returns, Goto
<1>4. rows \in Seq(Row) /\ rows \in [1 .. Len(rows) -> Row] /\ Len(rows) \in Nat /\ run \in [Conns -> Nat]
  BY DEF Inv, TypeOK
<1>5. /\ Len(rows') \in Nat /\ Len(rows') >= Len(rows)
      /\ \A id \in DOMAIN rows :
            /\ id \in DOMAIN rows'
            /\ rows'[id] = rows[id] \/ (id = run[c] /\ ~rows[id].finished)
      /\ \A id \in DOMAIN rows' : ~rows'[id].finished => rows'[id].exit_code = -1
  <2>1. CASE UNCHANGED rows
    BY <1>4, <2>1 DEF ListInv, ReportInv
  <2>2. CASE rows' = Append(rows, Unfinished)
    BY <1>4, <2>2 DEF ListInv, ReportInv, Unfinished
  <2>3. CASE rows' = [rows EXCEPT ![run[c]].finished = TRUE, ![run[c]].exit_code = ec[c]]
    <3>1. DOMAIN rows' = DOMAIN rows /\ Len(rows') = Len(rows)
      BY <1>4, <2>3
    <3>2. ASSUME NEW id \in DOMAIN rows, id # run[c]
          PROVE  rows'[id] = rows[id]
      BY <1>4, <2>3, <3>2
    <3>3. ASSUME run[c] \in DOMAIN rows
          PROVE  ~rows[run[c]].finished /\ rows'[run[c]].finished
      <4>1. run[c] # 0
        BY <1>4, <3>3
      <4>2. rows[run[c]] \in Row
        BY <1>4, <3>3
      <4> QED
        BY <1>2, <1>4, <2>3, <3>3, <4>1, <4>2 DEF ListInv, ReportInv, Row
    <3> QED
      BY <1>4, <3>1, <3>2, <3>3 DEF ListInv, ReportInv
  <2> QED
    BY <2>1, <2>2, <2>3 DEF HandleUnknown, HandleNewWorker, HandleQueueRun, HandleFinishedRun, UNCHANGED_Table
<1>6. ReportInv'
  <2>1. ASSUME NEW d \in Conns, run'[d] # 0
        PROVE  run'[d] \in DOMAIN rows' /\ (ret'[d] = "none" => ~rows'[run'[d]].finished)
    BY <1>2, <1>3, <1>5, <2>1 DEF ListInv, ReportInv
  <2> QED
    BY <1>2, <1>5, <2>1 DEF ListInv, ReportInv
<1>7. ASSUME NEW d \in Conns
      PROVE  Listing(d)'
  BY <1>2, <1>3, <1>5, ListSurvivesWrite
<1> QED
  BY <1>6, <1>7 DEF ListInv

\* Steps of a list: they change neither the rows nor what peers report.
LEMMA ListersKeepLists ==
    ASSUME Inv, OutcomeInv, ListInv, NEW c \in Conns, BeginList(c) \/ ListRow(c) \/ EndList(c)
    PROVE  ListInv'
<1>1. UNCHANGED <<msg, run, rows>>
  BY DEF BeginList, ListRow, EndList, Returns, UNCHANGED_Peer
<1>2. /\ stage \in [Conns -> {"none", "recv", "handle", "list", "answer", "reply", "end"}]
      /\ ret \in [Conns -> {"none", "ok", "failed"}]
      /\ rows \in Seq(Row) /\ Len(rows) \in Nat /\ cursor \in Nat /\ cursor <= Len(rows)
      /\ before \in [Conns -> Seq(Row)]
      /\ runs \in [Conns -> Seq([id : Nat, exit_code : Int])]
  BY DEF Inv, TypeOK, CursorInTable
<1>3. /\ stage[c] \in {"handle", "list"} /\ ret[c] = "none" /\ msg[c].method = "get-runs"
      /\ c # Nobody
  BY NobodyAssumption DEF BeginList, ListRow, EndList, Handles, OutcomeInv, Outcome
<1>4. \A d \in Conns : Listing(d)
  BY DEF ListInv
<1>5. CASE BeginList(c)
  <2>1. /\ stage' = [stage EXCEPT ![c] = "list"] /\ stage[c] = "handle" /\ holder = Nobody /\ holder' = c
        /\ cursor' = Len(rows) /\ before' = [before EXCEPT ![c] = rows]
        /\ UNCHANGED <<ret, runs>>
    BY <1>5 DEF BeginList, Handles, Goto
  <2>2. ASSUME NEW d \in Conns, d # c
        PROVE  Listing(d)'
    <3>1. stage[d] # "list"
      BY <1>4, <2>1, NobodyAssumption DEF Listing
    <3>2. stage'[d] = stage[d] /\ before'[d] = before[d] /\ (Listed(d)' <=> Listed(d))
      BY <1>1, <1>2, <2>1, <2>2 DEF Listed
    <3> QED
      BY <1>1, <1>4, <2>1, <3>1, <3>2 DEF Listing, SinceBefore, Entries
  <2>3. Listing(c)'
    <3>1. runs'[c] = << >> /\ before'[c] = rows /\ stage'[c] = "list" /\ ret'[c] = "none"
      BY <1>2, <1>3, <1>4, <2>1 DEF Listing
    <3>2. SinceBefore(c)'
      BY <1>1, <1>2, <3>1 DEF SinceBefore, ListInv, ReportInv
    <3>3. Entries(c)'
      BY <1>2, <3>1 DEF Entries
    <3> QED
      BY <1>2, <2>1, <3>1, <3>2, <3>3 DEF Listing
  <2>4. ReportInv'
    BY <1>1, <2>1 DEF ListInv, ReportInv
  <2> QED
    BY <2>2, <2>3, <2>4 DEF ListInv
<1>6. CASE ListRow(c)
  <2>1. /\ stage[c] = "list" /\ cursor > 0 /\ cursor' = cursor - 1
        /\ runs' = [runs EXCEPT ![c] = Append(@, [id |-> cursor, exit_code |-> rows[cursor].exit_code])]
        /\ UNCHANGED <<stage, ret, holder, before>>
    BY <1>6 DEF run_to_json, ListRow
  <2>2. Listed(c) /\ holder = c /\ SinceBefore(c) /\ Entries(c) /\ Len(runs[c]) + cursor = Len(before[c])
    BY <1>3, <1>4, <2>1 DEF Listing, Listed
  <2>3. ASSUME NEW d \in Conns, d # c
        PROVE  Listing(d)'
    <3>1. stage[d] # "list" /\ runs'[d] = runs[d]
      BY <1>2, <1>4, <2>1, <2>2, <2>3 DEF Listing
    <3> QED
      BY <1>1, <1>4, <2>1, <3>1 DEF Listing, Listed, SinceBefore, Entries
  <2>4. Listing(c)'
    <3> DEFINE row == [id |-> cursor, exit_code |-> rows[cursor].exit_code]
    <3>1. /\ runs[c] \in Seq([id : Nat, exit_code : Int]) /\ Len(runs[c]) \in Nat
          /\ before[c] \in Seq(Row) /\ Len(before[c]) \in Nat
      BY <1>2
    <3>2. runs'[c] = Append(runs[c], row) /\ row.id = cursor /\ row.exit_code = rows[cursor].exit_code
      BY <1>2, <2>1
    <3> HIDE DEF row
    <3>3. /\ Len(runs'[c]) = Len(runs[c]) + 1 /\ DOMAIN runs'[c] = 1 .. Len(runs[c]) + 1
          /\ DOMAIN runs[c] = 1 .. Len(runs[c])
          /\ runs'[c][Len(runs[c]) + 1] = row
          /\ \A i \in DOMAIN runs[c] : runs'[c][i] = runs[c][i]
      BY <3>1, <3>2, SMTT(30)
    <3>4. cursor \in Nat /\ cursor' = cursor - 1 /\ Len(runs[c]) + cursor = Len(before[c])
      BY <1>2, <2>1, <2>2
    <3>5. cursor = Len(before[c]) + 1 - (Len(runs[c]) + 1) /\ cursor \in DOMAIN before[c] /\ cursor \in DOMAIN rows
      BY <1>2, <2>1, <2>2, <3>1
    <3>6. \/ row.exit_code = -1 /\ ~before[c][cursor].finished
          \/ rows[cursor].finished /\ rows[cursor].exit_code = row.exit_code
      BY <2>2, <3>2, <3>5 DEF SinceBefore, ListInv, ReportInv
    <3>7. Entries(c)'
      <4>1. \A i \in DOMAIN runs'[c] : i \in DOMAIN runs[c] \/ i = Len(runs[c]) + 1
        BY <3>1, <3>3
      <4>2. Len(runs'[c]) <= Len(before[c])
        BY <1>2, <2>1, <2>2, <3>1, <3>3
      <4>3. UNCHANGED <<before, rows>>
        BY <1>1, <2>1
      <4>4. ASSUME NEW i \in DOMAIN runs'[c]
            PROVE  /\ runs'[c][i].id = Len(before[c]) + 1 - i
                   /\ \/ runs'[c][i].exit_code = -1 /\ ~before[c][Len(before[c]) + 1 - i].finished
                      \/ /\ rows[Len(before[c]) + 1 - i].finished
                         /\ rows[Len(before[c]) + 1 - i].exit_code = runs'[c][i].exit_code
        <5>1. CASE i \in DOMAIN runs[c]
          BY <2>2, <3>3, <5>1 DEF Entries
        <5>2. CASE i = Len(runs[c]) + 1
          BY <3>2, <3>3, <3>5, <3>6, <5>2
        <5> QED
          BY <4>1, <5>1, <5>2
      <4> QED
        BY <4>2, <4>3, <4>4 DEF Entries
    <3>8. Len(runs'[c]) + cursor' = Len(before[c])
      <4> DEFINE n == Len(runs[c])
                 m == Len(runs'[c])
                 l == Len(before[c])
      <4>1. n \in Nat /\ m = n + 1 /\ n + cursor = l
        BY <3>1, <3>3, <3>4
      <4> HIDE DEF n, m, l
      <4>2. m + cursor' = l
        BY <3>4, <4>1
      <4> QED BY <4>2 DEF m, l
    <3> QED
      BY <1>1, <1>3, <2>1, <2>2, <3>7, <3>8 DEF Listing, Listed, SinceBefore
  <2>5. ReportInv'
    BY <1>1, <2>1 DEF ListInv, ReportInv
  <2> QED
    BY <2>3, <2>4, <2>5 DEF ListInv
<1>7. CASE EndList(c)
  <2>1. PICK r \in {"ok", "failed"}, resp \in {"none", "result"} : Returns(c, r, resp) /\ (r = "ok" => cursor = 0)
    BY <1>7 DEF EndList
  <2>2. /\ stage[c] = "list" /\ stage' = [stage EXCEPT ![c] = "answer"] /\ ret' = [ret EXCEPT ![c] = r]
        /\ UNCHANGED <<runs, before>>
    BY <1>7, <2>1 DEF EndList, Returns, Goto
  <2>3. Listed(c) /\ holder = c /\ SinceBefore(c) /\ Entries(c) /\ Len(runs[c]) + cursor = Len(before[c])
    BY <1>3, <1>4, <2>2 DEF Listing, Listed
  <2>4. ASSUME NEW d \in Conns, d # c
        PROVE  Listing(d)'
    <3>1. stage[d] # "list" /\ stage'[d] = stage[d] /\ ret'[d] = ret[d]
      BY <1>2, <1>4, <2>2, <2>3, <2>4 DEF Listing
    <3> QED
      BY <1>1, <1>4, <2>2, <3>1 DEF Listing, Listed, SinceBefore, Entries
  <2>5. Listing(c)'
    <3>1. stage'[c] = "answer" /\ ret'[c] = r
      BY <1>2, <2>2
    <3>2. r = "ok" => Len(runs[c]) = Len(before[c])
      BY <1>2, <2>1, <2>3
    <3> QED
      BY <1>1, <2>2, <2>3, <3>1, <3>2 DEF Listing, Listed, SinceBefore, Entries
  <2>6. ReportInv'
    <3>1. \A d \in Conns : ret'[d] = "none" => ret[d] = "none"
      BY <1>2, <2>2
    <3> QED
      BY <1>1, <3>1 DEF ListInv, ReportInv
  <2> QED
    BY <2>4, <2>5, <2>6 DEF ListInv
<1> QED
  BY <1>5, <1>6, <1>7

LEMMA ListStep == Inv /\ OutcomeInv /\ ListInv /\ [Next]_vars => ListInv'
  BY OutsideTable, WritersKeepLists, ListersKeepLists DEF Next, ThreadStep

THEOREM Lists == Spec => []ListInv
  BY ListInit, ListStep, Invariance, Outcomes, PTL DEF Spec

\* ListingTrue (storage_sqlite_rows_to_runs): a list has every run there was
\* when it began, once, last first, as it was then or is by now.
THEOREM ListsAreTrue == Spec => []ListingTrue
<1>1. Inv /\ ListInv => ListingTrue
  <2> SUFFICES ASSUME Inv, ListInv, NEW c \in Conns, msg[c].method = "get-runs", ret[c] = "ok"
               PROVE  /\ Len(runs[c]) = Len(before[c])
                      /\ \A i \in DOMAIN runs[c] :
                            /\ runs[c][i].id = Len(before[c]) + 1 - i
                            /\ runs[c][i].exit_code \in
                                {before[c][Len(before[c]) + 1 - i].exit_code, rows[Len(before[c]) + 1 - i].exit_code}
                            /\ runs[c][i].exit_code # -1 =>
                                /\ rows[Len(before[c]) + 1 - i].finished
                                /\ rows[Len(before[c]) + 1 - i].exit_code = runs[c][i].exit_code
    BY DEF ListingTrue
  <2>1. Len(runs[c]) = Len(before[c]) /\ SinceBefore(c) /\ Entries(c)
    BY DEF ListInv, Listing, Listed
  <2>2. runs[c] \in Seq([id : Nat, exit_code : Int]) /\ before[c] \in Seq(Row)
    BY DEF Inv, TypeOK
  <2>3. \A i \in DOMAIN runs[c] : Len(before[c]) + 1 - i \in DOMAIN before[c]
    BY <2>1, <2>2, SMTT(30)
  <2> QED
    BY <2>1, <2>3 DEF SinceBefore, Entries
<1> QED
  BY <1>1, Invariance, Lists, PTL

-----------------------------------------------------------------------------
(* The remote call *)

askedBar ==
    [c \in Conns |-> IF io[Client(c)] = "idle" THEN "nothing"
                     ELSE IF msg[c].method = "queue-run" THEN "run" ELSE "other"]
queuedBar == {queue[i] : i \in DOMAIN queue}
toldBar == [c \in Conns |-> IF told[c] = "sent" THEN "silence" ELSE told[c]]

LEMMA InitCall == Init => Call!Init
<1> SUFFICES ASSUME Init PROVE Call!Init
  OBVIOUS
<1>1. askedBar = [c \in Conns |-> "nothing"]
  BY EndsOfConns DEF Init, NetInit, askedBar
<1>2. toldBar = [c \in Conns |-> "nothing"] /\ ret = [c \in Conns |-> "none"]
  BY DEF Init, toldBar
<1>3. queuedBar = {}
  BY DEF Init, queuedBar
<1> QED
  BY <1>1, <1>2, <1>3 DEF Call!Init, askedBar, queuedBar, toldBar

\* A call is asked for as long as its peer is not idle.
LEMMA AskedStays ==
    ASSUME UNCHANGED msg, \A c \in Conns : io'[Client(c)] = "idle" <=> io[Client(c)] = "idle"
    PROVE  askedBar' = askedBar
  BY DEF askedBar

LEMMA PeerCalls ==
    ASSUME Inv, OutcomeInv, NEW c \in Conns, PeerStep(c) \/ PeerGone(c)
    PROVE  [Call!Next]_(Call!vars)
<1>1. UNCHANGED <<msg, rows, queue, ret>> /\ UNCHANGED queuedBar
  BY DEF PeerStep, Connect, Await, Learn, PeerGone, serverVars, queuedBar
<1>2. io \in [Ends -> Results \union Sending \union Receiving] /\ Client(c) \in Ends
      /\ told \in [Conns -> {"nothing", "ok", "error", "sent", "silence"}]
  BY EndsOfConns DEF Inv, TypeOK, NetTypeOK
<1>3. ASSUME UNCHANGED askedBar, told[c] = "nothing",
             \E what \in {"sent", "silence"} : told' = [told EXCEPT ![c] = what]
      PROVE  Call!Forsake(c)
  <2>1. toldBar' = [toldBar EXCEPT ![c] = "silence"] /\ toldBar[c] = "nothing"
    BY <1>2, <1>3 DEF toldBar
  <2> QED
    BY <1>1, <1>3, <2>1 DEF Call!Forsake, askedBar, queuedBar, toldBar
<1>4. CASE Connect(c)
  <2>1. CASE UNCHANGED io
    <3>1. UNCHANGED askedBar
      BY <1>1, <2>1, AskedStays
    <3>2. told[c] = "nothing"
      BY <1>4 DEF Connect
    <3>3. ~\E n \in TextSizes : SendBegins(Client(c), n)
      BY <1>2, <1>4, <2>1 DEF Connect, SendBegins
    <3>4. told' = [told EXCEPT ![c] = "silence"]
      BY <1>4, <3>3 DEF Connect
    <3> QED
      BY <1>3, <3>1, <3>2, <3>4 DEF Call!Next
  <2>2. CASE \E n \in TextSizes : SendBegins(Client(c), n)
    <3>1. io[Client(c)] = "idle" /\ io' = [io EXCEPT ![Client(c)] = "send_size"]
      BY <1>4, <2>2 DEF Connect, SendBegins
    <3>2. UNCHANGED told
      BY <1>2, <1>4, <3>1 DEF Connect
    <3>3. \A d \in Conns : d # c => io'[Client(d)] = io[Client(d)]
      BY <1>2, <3>1, EndsOfConns
    <3>4. io'[Client(c)] = "send_size"
      BY <1>2, <3>1
    <3>5. askedBar' = [askedBar EXCEPT ![c] = IF msg[c].method = "queue-run" THEN "run" ELSE "other"]
      BY <1>1, <3>3, <3>4 DEF askedBar
    <3>6. askedBar[c] = "nothing" /\ UNCHANGED toldBar
      BY <3>1, <3>2 DEF askedBar, toldBar
    <3>7. Call!Ask(c)
      BY <1>1, <3>5, <3>6 DEF Call!Ask, askedBar, queuedBar, toldBar
    <3> QED
      BY <3>7 DEF Call!Next
  <2> QED
    BY <1>4, <2>1, <2>2 DEF Connect
<1>5. CASE Await(c)
  <2>1. io[Client(c)] = "sent" /\ (UNCHANGED io \/ io' = [io EXCEPT ![Client(c)] = "recv_size"])
    BY <1>5 DEF Await, RecvBegins
  <2>2. UNCHANGED askedBar
    BY <1>1, <1>2, <2>1, EndsOfConns, AskedStays
  <2>3. CASE UNCHANGED told
    <3>1. UNCHANGED Call!vars
      BY <1>1, <2>2, <2>3 DEF Call!vars, askedBar, queuedBar
    <3> QED
      BY <3>1
  <2>4. CASE told' = [told EXCEPT ![c] = "sent"]
    BY <1>3, <1>5, <2>2, <2>4 DEF Await, Call!Next
  <2> QED
    BY <1>5, <2>3, <2>4 DEF Await
<1>6. CASE Learn(c)
  <2>1. UNCHANGED askedBar /\ told[c] = "nothing"
    BY <1>1, <1>6, AskedStays DEF Learn
  <2>2. CASE io[Client(c)] = "received"
    <3>1. told' = [told EXCEPT ![c] = IF answer[c] = "error" THEN "error" ELSE "ok"]
      BY <1>6, <2>2 DEF Learn, Over
    <3>2. \/ answer[c] = "result" /\ ret[c] = "ok"
          \/ answer[c] = "error" /\ ret[c] = "failed"
      <4>1. answer[c] # "none" /\ answer[c] \in {"none", "result", "error"}
        BY <2>2, ReceivedMeansAnswered DEF Inv, TypeOK
      <4> QED
        BY <4>1 DEF OutcomeInv, Outcome
    <3>3. toldBar' = [toldBar EXCEPT ![c] = IF answer[c] = "error" THEN "error" ELSE "ok"]
      BY <1>2, <3>1 DEF toldBar
    <3>4. toldBar[c] = "nothing"
      BY <2>1 DEF toldBar
    <3>5. Call!Answer(c)
      BY <1>1, <2>1, <3>2, <3>3, <3>4 DEF Call!Answer, askedBar, queuedBar, toldBar
    <3> QED
      BY <3>5 DEF Call!Next
  <2>3. CASE io[Client(c)] = "failed"
    BY <1>3, <1>6, <2>1, <2>3 DEF Learn, Over, Call!Next
  <2> QED
    BY <1>6, <2>2, <2>3 DEF Learn
<1>7. CASE PeerGone(c)
  <2>1. io[Client(c)] # "idle" /\ io' = [io EXCEPT ![Client(c)] = "failed"]
    BY <1>7 DEF PeerGone
  <2>2. UNCHANGED askedBar
    BY <1>1, <1>2, <2>1, EndsOfConns, AskedStays
  <2> QED
    BY <1>3, <1>7, <2>2 DEF PeerGone, Over, Call!Next
<1> QED
  BY <1>4, <1>5, <1>6, <1>7 DEF PeerStep

\* A handler that returns has executed its call.
LEMMA HandlerCalls ==
    ASSUME Inv, OutcomeInv, NEW c \in Conns,
           HandleUnknown(c) \/ HandleNewWorker(c) \/ HandleQueueRun(c) \/ HandleFinishedRun(c) \/ EndList(c)
    PROVE  Call!Execute(c)
<1>1. PICK r \in {"ok", "failed"}, resp \in {"none", "result"} : Returns(c, r, resp)
  BY DEF HandleUnknown, HandleNewWorker, HandleQueueRun, HandleFinishedRun, EndList
<1>2. ret' = [ret EXCEPT ![c] = r] /\ UNCHANGED <<io, msg, told>>
  BY <1>1 DEF Returns, UNCHANGED_Peer
<1>3. stage[c] \in {"handle", "list"}
  BY DEF HandleUnknown, HandleNewWorker, HandleQueueRun, HandleFinishedRun, EndList, Handles
<1>4. io[Client(c)] # "idle" /\ ret[c] = "none"
  BY <1>3 DEF Inv, Place, OutcomeInv, Outcome
<1>5. askedBar[c] = IF msg[c].method = "queue-run" THEN "run" ELSE "other"
  BY <1>4 DEF askedBar
<1>6. UNCHANGED askedBar /\ UNCHANGED toldBar
  BY <1>2 DEF askedBar, toldBar
<1>7. queue \in Seq(Conns)
  BY DEF Inv, TypeOK
<1>8. CASE UNCHANGED queue /\ (r = "ok" => msg[c].method # "queue-run")
  <2>1. UNCHANGED queuedBar
    BY <1>8 DEF queuedBar
  <2> QED
    BY <1>2, <1>4, <1>5, <1>6, <1>8, <2>1 DEF Call!Execute, askedBar, queuedBar, toldBar
<1>9. CASE HandleQueueRun(c) /\ r = "ok" /\ queue' = Append(queue, c)
  <2>1. /\ DOMAIN queue' = DOMAIN queue \union {Len(queue) + 1}
        /\ queue'[Len(queue) + 1] = c
        /\ \A i \in DOMAIN queue : queue'[i] = queue[i]
    BY <1>7, <1>9
  <2>2. queuedBar' = queuedBar \union {c}
    BY <2>1 DEF queuedBar
  <2>3. msg[c].method = "queue-run"
    BY <1>9 DEF HandleQueueRun, Handles
  <2> QED
    BY <1>2, <1>4, <1>5, <1>6, <1>9, <2>2, <2>3 DEF Call!Execute, askedBar, queuedBar, toldBar
<1>10. \/ UNCHANGED queue /\ (r = "ok" => msg[c].method # "queue-run")
       \/ HandleQueueRun(c) /\ r = "ok" /\ queue' = Append(queue, c)
  <2>1. ret'[c] = r
    BY <1>2 DEF Inv, TypeOK
  <2>2. \A s, x : Returns(c, s, x) => s = r
    <3>1. ret \in [Conns -> {"none", "ok", "failed"}]
      BY DEF Inv, TypeOK
    <3> QED
      BY <2>1, <3>1 DEF Returns
  <2>3. stage[c] = "list" => msg[c].method = "get-runs"
    BY DEF OutcomeInv, Outcome
  <2> QED
    BY <2>2, <2>3 DEF HandleUnknown, HandleNewWorker, HandleQueueRun, HandleFinishedRun, EndList, Handles, UNCHANGED_Table
<1> QED
  BY <1>8, <1>9, <1>10

\* Everything else goes on behind the call.
LEMMA HiddenSteps ==
    ASSUME Inv,
           \/ \E c \in Conns : Accept(c) \/ Dispatch(c) \/ BeginList(c) \/ ListRow(c) \/ Answer(c) \/ Replied(c)
           \/ \E e \in Ends : NetStep(e)
           \/ ServerGone
           \/ UNCHANGED vars
    PROVE  UNCHANGED Call!vars
<1>1. UNCHANGED <<msg, rows, queue, ret, told>>
  BY DEF Accept, Dispatch, BeginList, ListRow, Answer, Replied, NetStep, ServerGone,
         UNCHANGED_Peer, UNCHANGED_Table, serverVars, vars
<1>2. io \in [Ends -> Results \union Sending \union Receiving]
  BY DEF Inv, TypeOK, NetTypeOK
<1>3. ASSUME NEW d \in Conns
      PROVE  io'[Client(d)] = "idle" <=> io[Client(d)] = "idle"
  <2> USE EndsOfConns
  <2>1. CASE UNCHANGED io
    BY <2>1
  <2>2. ASSUME NEW c \in Conns, NEW to, io' = [io EXCEPT ![Server(c)] = to]
        PROVE  io'[Client(d)] = io[Client(d)]
    BY <1>2, <2>2
  <2>3. ASSUME NEW c \in Conns, Accept(c) \/ Dispatch(c) \/ BeginList(c) \/ ListRow(c) \/ Answer(c) \/ Replied(c)
        PROVE  UNCHANGED io \/ \E to : io' = [io EXCEPT ![Server(c)] = to]
    BY <2>3 DEF Accept, Dispatch, BeginList, ListRow, Answer, Replied, RecvBegins, SendBegins
  <2>4. ASSUME NEW e \in Ends, NetStep(e)
        PROVE  io'[Client(d)] = "idle" <=> io[Client(d)] = "idle"
    <3>1. io[e] \in Sending \union Receiving
      BY <2>4 DEF NetStep, IO, Send, SendFails, Recv, RecvEnds, RecvFails
    <3>2. UNCHANGED io \/ \E to \in {io[e], "send_data", "sent", "recv_data", "received", "failed"} :
                                io' = [io EXCEPT ![e] = to]
      BY <2>4, <1>2 DEF NetStep, IO, Send, SendFails, Recv, RecvEnds, RecvFails, Took
    <3> QED
      BY <1>2, <3>1, <3>2 DEF Sending, Receiving
  <2>5. CASE ServerGone
    BY <2>5 DEF ServerGone, Client, Server
  <2> QED
    BY <2>1, <2>2, <2>3, <2>4, <2>5 DEF vars, netVars
<1>4. UNCHANGED askedBar
  BY <1>1, <1>3, AskedStays
<1> QED
  BY <1>1, <1>4 DEF Call!vars, askedBar

\* ImplementsRemoteCall (jsonrpc_request_send to jsonrpc_response_recv): a call
\* is executed at most once, however its messages are cut, lost or left without
\* an answer, and a caller that is told of an error may safely call again.
THEOREM CallRefinement == Spec => ImplementsRemoteCall
<1>1. Inv /\ OutcomeInv /\ [Next]_vars => [Call!Next]_(Call!vars)
  <2>1. ASSUME Inv, OutcomeInv, NEW c \in Conns,
               HandleUnknown(c) \/ HandleNewWorker(c) \/ HandleQueueRun(c) \/ HandleFinishedRun(c) \/ EndList(c)
        PROVE  Call!Next
    BY <2>1, HandlerCalls DEF Call!Next
  <2> QED
    BY <2>1, PeerCalls, HiddenSteps DEF Next, ThreadStep
<1> QED
  BY <1>1, InitCall, Invariance, Outcomes, PTL DEF Spec, ImplementsRemoteCall, Call!Spec

-----------------------------------------------------------------------------
(* Who waits for whom *)

\* The guards of a connection's steps, without failures.  A peer waits for its
\* own calls, a send for room, a read for bytes or for the other end to close,
\* a thread for its calls and, with get-runs, for the statement.  A kernel that
\* has room, or bytes, moves some: with 1 in Parts, EndCanGo is when Send, Recv
\* or RecvEnds is enabled.
PeerCanGo(c) == told[c] = "nothing" /\ io[Client(c)] \in {"sent", "received", "failed"}

EndCanGo(e) ==
    \/ io[e] \in Sending /\ (open[Peer(e)] => sent[e] - taken[Peer(e)] < Capacity)
    \/ io[e] \in Receiving /\ (open[Peer(e)] => taken[e] < sent[Peer(e)])

WaitsForList(c) == Handles(c, "get-runs") /\ holder # Nobody

ThreadCanGo(c) ==
    \/ stage[c] = "none" /\ up /\ open[Server(c)]
    \/ stage[c] = "recv" /\ io[Server(c)] \in {"received", "failed"}
    \/ stage[c] = "handle" /\ ~WaitsForList(c)
    \/ stage[c] \in {"list", "answer"}
    \/ stage[c] = "reply" /\ io[Server(c)] \in {"sent", "failed"}

ConnCanGo(c) == PeerCanGo(c) \/ ThreadCanGo(c) \/ EndCanGo(Client(c)) \/ EndCanGo(Server(c))

\* Which connections are open: the peer's while it waits for something, the
\* server's while it has a thread or is kept.  A message was sent whole before
\* its sender goes on, and before it is handled.
Alive(c) ==
    /\ io[Client(c)] = "idle" => ~open[Client(c)] /\ (up => stage[c] = "none")
    /\ io[Client(c)] # "idle" /\ stage[c] = "none" => open[Server(c)]
    /\ told[c] # "nothing" => io[Client(c)] \in {"idle", "sent", "received", "failed"}
    /\ told[c] # "nothing" /\ open[Client(c)] => io[Client(c)] = "sent" /\ is_notification(msg[c])
    /\ io[Client(c)] \in Receiving => ~is_notification(msg[c])
    /\ io[Client(c)] \in {"sent", "received"} \union Receiving =>
           sent[Client(c)] = SizeBytes + length[Client(c)]
    /\ stage[c] \in {"handle", "list", "answer", "reply"} \/ c \in kept =>
           io[Client(c)] \notin {"idle"} \union Sending
    /\ stage[c] = "end" /\ open[Server(c)] => c \in kept
    /\ c \in kept => msg[c].method = "new-worker"

WaitInv ==
    /\ up \/ \A c \in Conns : stage[c] = "end"
    /\ holder # Nobody => stage[holder] = "list"
    /\ \A c \in Conns : Alive(c)

\* A call that is not over: the peer waits for something, or the thread does.
Underway(c) == io[Client(c)] # "idle" /\ ~(told[c] # "nothing" /\ stage[c] = "end")

\* The server keeps the connection of a new-worker.  No worker waits for an
\* answer on it, but a peer that made it a request would.
WaitsOnKept(c) ==
    c \in kept /\ msg[c].method = "new-worker" /\ ~is_notification(msg[c]) /\ stage[c] = "end"

LEMMA WaitInit == Init => WaitInv
  BY EndsOfConns DEF Init, NetInit, WaitInv, Alive, Receiving, Sending

\* What connections that take no part in a step keep.
LEMMA OthersAlive ==
    ASSUME WaitInv, NEW c \in Conns, UNCHANGED <<msg, up>>,
           \A d \in Conns \ {c} :
                stage'[d] = stage[d] /\ told'[d] = told[d] /\ (d \in kept' => d \in kept)
                /\ (d \in kept => d \in kept'),
           \A e \in Ends \ {Client(c), Server(c)} :
                io'[e] = io[e] /\ open'[e] = open[e] /\ length'[e] = length[e] /\ sent'[e] = sent[e],
           Alive(c)'
    PROVE  \A d \in Conns : Alive(d)'
<1> SUFFICES ASSUME NEW d \in Conns, d # c
             PROVE  Alive(d)'
  OBVIOUS
<1>1. Client(d) \in Ends \ {Client(c), Server(c)} /\ Server(d) \in Ends \ {Client(c), Server(c)}
  BY EndsOfConns
<1>2. Alive(d)
  BY DEF WaitInv
<1> QED
  BY <1>1, <1>2 DEF Alive

\* What is received was sent whole.
LEMMA HandledWhole ==
    ASSUME Inv, NEW c \in Conns, io[Server(c)] = "received"
    PROVE  io[Client(c)] \notin {"idle"} \union Sending
<1>1. /\ Frame(Server(c)) /\ Frame(Client(c)) /\ Place(c)
      /\ Peer(Server(c)) = Client(c) /\ Server(c) \in Ends /\ Client(c) \in Ends
  BY EndsOfConns DEF Inv
<1>2. length[Client(c)] \in Nat /\ sent[Client(c)] \in Nat /\ taken[Server(c)] \in Nat
  BY <1>1, Numbers DEF Inv, TypeOK, NetTypeOK
<1> QED
  BY <1>1, <1>2 DEF Frame, Place, Sending, SizeBytes

LEMMA PeerAlive ==
    ASSUME Inv, WaitInv, NEW c \in Conns, Connect(c) \/ Await(c) \/ Learn(c) \/ PeerGone(c)
    PROVE  WaitInv'
<1> USE EndsOfConns
<1>1. NetTypeOK /\ Place(c) /\ Alive(c) /\ Client(c) \in Ends /\ Server(c) \in Ends
      /\ Client(c) # Server(c)
  BY DEF Inv, TypeOK, WaitInv
<1>2. told \in [Conns -> {"nothing", "ok", "error", "sent", "silence"}]
  BY DEF Inv, TypeOK
<1>3. UNCHANGED <<up, msg, stage, holder, kept, sent>>
  BY DEF Connect, Await, Learn, PeerGone, serverVars
<1>4. /\ \A d \in Conns \ {c} : told'[d] = told[d]
      /\ \A e \in Ends \ {Client(c), Server(c)} :
            io'[e] = io[e] /\ open'[e] = open[e] /\ length'[e] = length[e]
  BY <1>1, <1>2
  DEF Connect, Await, Learn, PeerGone, Over, SendBegins, RecvBegins, NetTypeOK
<1>5. Alive(c)'
  <2>1. CASE Connect(c)
    <3>1. CASE up /\ open' = [open EXCEPT ![Client(c)] = TRUE, ![Server(c)] = TRUE]
               /\ (\E n \in TextSizes : SendBegins(Client(c), n)) /\ UNCHANGED told
      <4>1. io'[Client(c)] = "send_size" /\ open'[Server(c)] = TRUE /\ told'[c] = "nothing"
        BY <1>1, <2>1, <3>1 DEF Connect, SendBegins, NetTypeOK
      <4>2. stage[c] # "end"
        BY <1>1, <2>1, <3>1 DEF Connect, Alive
      <4> QED
        BY <1>1, <1>3, <2>1, <4>1, <4>2 DEF Connect, Alive, Place, Sending, Receiving
    <3>2. CASE told' = [told EXCEPT ![c] = "silence"] /\ UNCHANGED <<open, io, length>>
      BY <1>1, <1>3, <2>1, <3>2 DEF Connect, Alive, Receiving
    <3> QED
      BY <2>1, <3>1, <3>2 DEF Connect
  <2>2. CASE Await(c)
    <3>1. CASE is_notification(msg[c])
      BY <1>1, <1>2, <1>3, <2>2, <3>1 DEF Await, Alive, NetTypeOK, Sending, Receiving
    <3>2. CASE ~is_notification(msg[c])
      <4>1. io'[Client(c)] = "recv_size" /\ UNCHANGED <<told, open>> /\ io'[Server(c)] = io[Server(c)]
        BY <1>1, <2>2, <3>2 DEF Await, RecvBegins, NetTypeOK
      <4> QED
        BY <1>1, <1>3, <2>2, <3>2, <4>1 DEF Await, Alive, Sending, Receiving
    <3> QED
      BY <3>1, <3>2
  <2>3. CASE Learn(c) \/ PeerGone(c)
    <3>1. ~open'[Client(c)] /\ open'[Server(c)] = open[Server(c)] /\ told'[c] # "nothing"
      BY <1>1, <1>2, <2>3 DEF Learn, PeerGone, Over, NetTypeOK
    <3>2. io[Client(c)] # "idle" /\ (io'[Client(c)] = "failed" \/
              (io'[Client(c)] = io[Client(c)] /\ io[Client(c)] \in {"received", "failed"}))
      BY <1>1, <2>3 DEF Learn, PeerGone, NetTypeOK
    <3>3. UNCHANGED length
      BY <2>3 DEF Learn, PeerGone
    <3> QED
      BY <1>1, <1>3, <3>1, <3>2, <3>3 DEF Alive, Sending, Receiving
  <2> QED
    BY <2>1, <2>2, <2>3
<1> QED
  BY <1>3, <1>4, <1>5, OthersAlive DEF WaitInv

\* A thread that ends leaves a connection open only if it is kept.
LEMMA EndsAlive ==
    ASSUME Inv, WaitInv, NEW c \in Conns, ThreadEnds(c), io[Client(c)] # "idle",
           UNCHANGED <<sent, length, msg, told, kept>>, io'[Client(c)] = io[Client(c)]
    PROVE  Alive(c)'
<1>1. NetTypeOK /\ Alive(c) /\ Client(c) \in Ends /\ Server(c) \in Ends /\ Client(c) # Server(c)
  BY EndsOfConns DEF Inv, TypeOK, WaitInv
<1>2. stage'[c] = "end" /\ open'[Client(c)] = open[Client(c)] /\ (open'[Server(c)] => c \in kept)
  BY <1>1 DEF ThreadEnds, Goto, Inv, TypeOK, NetTypeOK
<1> QED
  BY <1>1, <1>2 DEF Alive

LEMMA ThreadAlive ==
    ASSUME Inv, WaitInv, NEW c \in Conns, Accept(c) \/ Dispatch(c) \/ Answer(c) \/ Replied(c)
    PROVE  WaitInv'
<1> USE EndsOfConns
<1>1. NetTypeOK /\ Place(c) /\ Alive(c) /\ Client(c) \in Ends /\ Server(c) \in Ends
      /\ Client(c) # Server(c)
  BY DEF Inv, TypeOK, WaitInv
<1>2. stage \in [Conns -> {"none", "recv", "handle", "list", "answer", "reply", "end"}]
  BY DEF Inv, TypeOK
<1>3. UNCHANGED <<up, msg, told, holder, kept, sent>>
  BY DEF Accept, Dispatch, Answer, Replied, UNCHANGED_Peer, UNCHANGED_Table
<1>4. /\ \A d \in Conns \ {c} : stage'[d] = stage[d]
      /\ stage[c] \in {"none", "recv", "answer", "reply"}
      /\ \A e \in Ends \ {Server(c)} : io'[e] = io[e] /\ open'[e] = open[e] /\ length'[e] = length[e]
  BY <1>1, <1>2
  DEF Accept, Dispatch, Answer, Replied, ThreadEnds, Goto, SendBegins, RecvBegins, UNCHANGED_Peer, NetTypeOK
<1>5. io[Client(c)] # "idle"
  BY <1>1, <1>4 DEF Accept, Dispatch, Answer, Replied, Place
<1>6. Alive(c)'
  <2>1. CASE ThreadEnds(c) /\ UNCHANGED length
    BY <1>1, <1>3, <1>4, <1>5, <2>1, EndsAlive
  <2>2. CASE Accept(c) /\ Goto(c, "recv") /\ UNCHANGED open
    <3>1. stage'[c] = "recv" /\ UNCHANGED length
      BY <1>2, <2>2 DEF Accept, Goto, UNCHANGED_Peer
    <3> QED
      BY <1>1, <1>3, <1>4, <1>5, <2>2, <3>1 DEF Alive
  <2>3. CASE Dispatch(c) /\ io[Server(c)] = "received" /\ Goto(c, "handle") /\ UNCHANGED open
    <3>1. stage'[c] = "handle" /\ UNCHANGED <<io, length>>
      BY <1>2, <2>3 DEF Dispatch, Goto, UNCHANGED_Peer
    <3>2. io[Client(c)] \notin {"idle"} \union Sending
      BY <2>3, HandledWhole
    <3> QED
      BY <1>1, <1>3, <2>3, <3>1, <3>2 DEF Alive
  <2>4. CASE Answer(c) /\ Goto(c, "reply") /\ UNCHANGED open
    <3>1. stage'[c] = "reply" /\ stage[c] = "answer"
      BY <1>2, <2>4 DEF Answer, Goto
    <3> QED
      BY <1>1, <1>3, <1>4, <2>4, <3>1 DEF Alive
  <2> QED
    BY <2>1, <2>2, <2>3, <2>4 DEF Accept, Dispatch, Answer, Replied, UNCHANGED_Peer
<1>7. (up' \/ \A d \in Conns : stage'[d] = "end") /\ (holder' # Nobody => stage'[holder'] = "list")
  <2>1. up
    BY <1>4 DEF WaitInv
  <2>2. holder # c /\ (holder # Nobody => holder \in Conns \ {c})
    BY <1>4, NobodyAssumption DEF WaitInv, Inv, TypeOK
  <2> QED
    BY <1>3, <1>4, <2>1, <2>2 DEF WaitInv
<1> QED
  BY <1>3, <1>4, <1>6, <1>7, OthersAlive DEF WaitInv

LEMMA HandlersAlive ==
    ASSUME Inv, WaitInv, NEW c \in Conns,
           \/ HandleUnknown(c) \/ HandleNewWorker(c) \/ HandleQueueRun(c) \/ HandleFinishedRun(c)
           \/ BeginList(c) \/ ListRow(c) \/ EndList(c)
    PROVE  WaitInv'
<1>1. Alive(c) /\ stage[c] \in {"handle", "list"} /\ up
  BY DEF WaitInv, HandleUnknown, HandleNewWorker, HandleQueueRun, HandleFinishedRun, BeginList, ListRow,
         EndList, Handles
<1>2. stage \in [Conns -> {"none", "recv", "handle", "list", "answer", "reply", "end"}]
  BY DEF Inv, TypeOK
<1>3. UNCHANGED <<io, open, length, sent, up, msg, told>>
  BY DEF HandleUnknown, HandleNewWorker, HandleQueueRun, HandleFinishedRun, BeginList, ListRow, EndList,
         Returns, UNCHANGED_Peer
<1>4. UNCHANGED kept \/ (kept' = kept \union {c} /\ msg[c].method = "new-worker")
  BY DEF HandleUnknown, HandleNewWorker, HandleQueueRun, HandleFinishedRun, BeginList, ListRow, EndList,
         UNCHANGED_Table, Handles
<1>5. stage'[c] \in {"list", "answer"} /\ \A d \in Conns \ {c} : stage'[d] = stage[d]
  BY <1>2 DEF HandleUnknown, HandleNewWorker, HandleQueueRun, HandleFinishedRun, BeginList, ListRow,
              EndList, Returns, Goto
<1>6. Alive(c)'
  BY <1>1, <1>3, <1>4, <1>5 DEF Alive
<1>7. holder' # Nobody => stage'[holder'] = "list"
  <2>1. CASE BeginList(c)
    BY <1>2, <2>1 DEF BeginList, Goto
  <2>2. CASE ListRow(c)
    BY <2>2 DEF ListRow, WaitInv
  <2>3. CASE EndList(c)
    BY <2>3 DEF EndList
  <2>4. CASE HandleUnknown(c) \/ HandleNewWorker(c) \/ HandleQueueRun(c) \/ HandleFinishedRun(c)
    <3>1. stage[c] = "handle" /\ UNCHANGED holder
      BY <2>4 DEF HandleUnknown, HandleNewWorker, HandleQueueRun, HandleFinishedRun, Handles, UNCHANGED_Table
    <3>2. holder # Nobody => holder \in Conns \ {c}
      BY <3>1 DEF WaitInv, Inv, TypeOK
    <3> QED
      BY <1>5, <3>1, <3>2 DEF WaitInv
  <2> QED
    BY <2>1, <2>2, <2>3, <2>4
<1>8. \A d \in Conns : Alive(d)'
  BY <1>3, <1>4, <1>5, <1>6, OthersAlive
<1> QED
  BY <1>1, <1>3, <1>7, <1>8 DEF WaitInv

LEMMA NetAlive ==
    ASSUME Inv, WaitInv, NEW e \in Ends, NetStep(e)
    PROVE  WaitInv'
<1> USE EndsOfConns
<1>1. NetTypeOK /\ NetInv /\ NetInv'
  BY SendKeeps, RecvKeeps DEF Inv, TypeOK, NetInv, NetStep, IO
<1>2. UNCHANGED <<open, length, up, msg, told, stage, holder, kept>>
  BY DEF NetStep, IO, Send, SendFails, Recv, RecvEnds, RecvFails, serverVars
<1>3. \A f \in Ends \ {e} : io'[f] = io[f] /\ sent'[f] = sent[f]
  BY <1>1 DEF NetTypeOK, NetStep, IO, Send, SendFails, Recv, RecvEnds, RecvFails, Took
<1>4. PICK c \in Conns : e = Client(c) \/ e = Server(c)
  OBVIOUS
<1>5. Alive(c) /\ Place(c)
  BY DEF WaitInv, Inv
<1>6. Alive(c)'
  <2>1. CASE e = Server(c)
    BY <1>2, <1>3, <1>5, <2>1 DEF Alive
  <2>2. CASE e = Client(c) /\ (Send(e) \/ SendFails(e))
    <3>1. io[e] \in Sending
      BY <2>2 DEF Send, SendFails
    <3>2. io'[e] \in {"sent", "failed"} \union Sending
      BY <1>1, <2>2, <3>1 DEF Send, SendFails, NetTypeOK, Sending
    <3>3. io'[e] = "sent" => sent'[e] = SizeBytes + length[e]
      <4>1. CASE SendFails(e)
        BY <1>1, <4>1 DEF SendFails, NetTypeOK
      <4>2. CASE Send(e)
        <5>1. PICK k \in Moves(Goal(e) - sent[e]) :
                /\ sent' = [sent EXCEPT ![e] = @ + k]
                /\ io' = [io EXCEPT ![e] =
                    IF sent[e] + k < Goal(e) THEN @ ELSE IF @ = "send_size" THEN "send_data" ELSE "sent"]
          BY <4>2 DEF Send
        <5>2. length[e] \in Nat /\ sent[e] \in Nat /\ Frame(e)
          BY <1>1, Numbers DEF NetInv, NetTypeOK
        <5>3. Goal(e) \in Nat /\ sent[e] < Goal(e) /\ (io[e] = "send_data" => Goal(e) = SizeBytes + length[e])
          BY <3>1, <5>2 DEF Goal, Frame, Sending, SizeBytes
        <5>4. k \in Nat /\ sent[e] + k <= Goal(e)
          BY <5>2, <5>3, Numbers
        <5>5. sent'[e] = sent[e] + k
          BY <1>1, <5>1 DEF NetTypeOK
        <5>6. io'[e] = "sent" => io[e] = "send_data" /\ ~(sent[e] + k < Goal(e))
          BY <1>1, <3>1, <5>1 DEF NetTypeOK, Sending
        <5> QED
          BY <5>2, <5>3, <5>4, <5>5, <5>6
      <4> QED
        BY <2>2, <4>1, <4>2
    <3>4. stage[c] \notin {"handle", "list", "answer", "reply"} /\ c \notin kept /\ told[c] = "nothing"
      BY <1>5, <2>2, <3>1 DEF Alive, Sending
    <3> QED
      BY <1>2, <1>3, <1>5, <2>2, <3>1, <3>2, <3>3, <3>4 DEF Alive, Sending, Receiving
  <2>3. CASE e = Client(c) /\ (Recv(e) \/ RecvEnds(e) \/ RecvFails(e))
    <3>1. io[e] \in Receiving /\ io'[e] \in {"received", "failed"} \union Receiving /\ UNCHANGED sent
      BY <1>1, <2>3 DEF Recv, RecvEnds, RecvFails, Took, NetTypeOK, Receiving
    <3> QED
      BY <1>2, <1>3, <1>5, <2>3, <3>1 DEF Alive, Sending, Receiving
  <2> QED
    BY <1>4, <2>1, <2>2, <2>3 DEF NetStep, IO
<1>7. \A d \in Conns : Alive(d)'
  BY <1>2, <1>3, <1>4, <1>6, OthersAlive
<1> QED
  BY <1>2, <1>7 DEF WaitInv

LEMMA ServerGoneAlive ==
    ASSUME Inv, WaitInv, ServerGone
    PROVE  WaitInv'
<1>1. \A d \in Conns : Client(d) \in Ends /\ Server(d) \in Ends
                       /\ Client(d)[2] = "client" /\ Server(d)[2] = "server"
  BY EndsOfConns DEF Client, Server
<1>2. ASSUME NEW d \in Conns
      PROVE  Alive(d)'
  <2>1. stage'[d] = "end" /\ ~open'[Server(d)] /\ io'[Client(d)] = io[Client(d)] /\ kept' = {} /\ ~up'
        /\ (open'[Client(d)] => open[Client(d)]) /\ UNCHANGED <<sent, length, told, msg>>
    BY <1>1 DEF ServerGone
  <2> QED
    BY <2>1 DEF WaitInv, Alive
<1> QED
  BY <1>2 DEF WaitInv, ServerGone

LEMMA WaitStep == Inv /\ WaitInv /\ [Next]_vars => WaitInv'
<1>1. ASSUME WaitInv, UNCHANGED vars
      PROVE  WaitInv'
  BY <1>1 DEF WaitInv, Alive, vars, netVars, serverVars
<1> QED
  BY <1>1, PeerAlive, ThreadAlive, HandlersAlive, NetAlive, ServerGoneAlive
  DEF Next, PeerStep, ThreadStep

\* A server that reads no more, and has not all, waits for a peer that can send.
LEMMA ReaderWaits ==
    ASSUME Inv, WaitInv, NEW c \in Conns, stage[c] = "recv", io[Server(c)] \in Receiving
    PROVE  ConnCanGo(c)
<1> USE EndsOfConns
<1>1. /\ Client(c) \in Ends /\ Server(c) \in Ends /\ Peer(Server(c)) = Client(c) /\ Peer(Client(c)) = Server(c)
      /\ Frame(Server(c)) /\ Alive(c) /\ Place(c) /\ NetTypeOK
  BY DEF Inv, WaitInv, TypeOK
<1>2. /\ sent[Client(c)] \in Nat /\ taken[Server(c)] \in Nat /\ length[Client(c)] \in Nat
      /\ taken[Server(c)] <= sent[Client(c)]
  BY <1>1, Numbers DEF NetTypeOK, Frame
<1>3. taken[Server(c)] < SizeBytes + length[Client(c)]
  BY <1>1, <1>2 DEF Frame, Receiving, SizeBytes
<1> SUFFICES ASSUME open[Client(c)], taken[Server(c)] = sent[Client(c)]
             PROVE  ConnCanGo(c)
  BY <1>1, <1>2 DEF ConnCanGo, EndCanGo
<1>4. io[Client(c)] \notin {"sent", "received"} \union Receiving
  BY <1>1, <1>2, <1>3 DEF Alive
<1>5. told[c] = "nothing"
  BY <1>1, <1>4 DEF Alive
<1>6. CASE io[Client(c)] \in Sending
  BY <1>1, <1>2, <1>6, NumbersAssumption DEF ConnCanGo, EndCanGo
<1>7. CASE io[Client(c)] = "failed"
  BY <1>5, <1>7 DEF ConnCanGo, PeerCanGo
<1>8. io[Client(c)] # "idle"
  BY <1>1 DEF Place
<1> QED
  BY <1>1, <1>4, <1>6, <1>7, <1>8 DEF NetTypeOK, Results

\* A server with no room to send waits for a peer that can read.
LEMMA WriterWaits ==
    ASSUME Inv, WaitInv, NEW c \in Conns, stage[c] = "reply", io[Server(c)] \in Sending
    PROVE  ConnCanGo(c)
<1> USE EndsOfConns
<1>1. /\ Client(c) \in Ends /\ Server(c) \in Ends /\ Peer(Server(c)) = Client(c) /\ Peer(Client(c)) = Server(c)
      /\ Frame(Server(c)) /\ Alive(c) /\ Place(c) /\ NetTypeOK
  BY DEF Inv, WaitInv, TypeOK
<1>2. sent[Server(c)] \in Nat /\ taken[Client(c)] \in Nat /\ Capacity \in Nat /\ Capacity > 0
  BY <1>1, NumbersAssumption DEF NetTypeOK
<1> SUFFICES ASSUME open[Client(c)], ~(sent[Server(c)] - taken[Client(c)] < Capacity)
             PROVE  ConnCanGo(c)
  BY <1>1 DEF ConnCanGo, EndCanGo
<1>3. taken[Client(c)] < sent[Server(c)]
  BY <1>2
<1>4. told[c] = "nothing"
  BY <1>1 DEF Alive, Place, Frame
<1>5. io[Client(c)] \in {"sent", "received", "failed"} \union Receiving
  BY <1>1 DEF Alive, NetTypeOK, Results
<1>6. CASE io[Client(c)] \in Receiving
  BY <1>1, <1>3, <1>6 DEF ConnCanGo, EndCanGo
<1> QED
  BY <1>4, <1>5, <1>6 DEF ConnCanGo, PeerCanGo

\* A peer whose server's thread is over.
LEMMA PeerWaits ==
    ASSUME Inv, WaitInv, NEW c \in Conns, stage[c] = "end", told[c] = "nothing", io[Client(c)] # "idle"
    PROVE  ConnCanGo(c) \/ WaitsOnKept(c)
<1> USE EndsOfConns
<1>1. Client(c) \in Ends /\ Peer(Client(c)) = Server(c) /\ Alive(c) /\ NetTypeOK
  BY DEF Inv, WaitInv, TypeOK
<1>2. CASE io[Client(c)] \in {"sent", "received", "failed"}
  BY <1>2 DEF ConnCanGo, PeerCanGo
<1>3. CASE io[Client(c)] \in Sending \union Receiving /\ ~open[Server(c)]
  BY <1>1, <1>3 DEF ConnCanGo, EndCanGo
<1>4. CASE io[Client(c)] \in Sending \union Receiving /\ open[Server(c)]
  <2>1. c \in kept /\ msg[c].method = "new-worker"
    BY <1>1, <1>4 DEF Alive
  <2>2. io[Client(c)] \in Receiving /\ ~is_notification(msg[c])
    BY <1>1, <1>4, <2>1 DEF Alive
  <2> QED
    BY <2>1, <2>2 DEF WaitsOnKept
<1> QED
  BY <1>1, <1>2, <1>3, <1>4 DEF NetTypeOK, Results

\* CallsEnd rests on this (net_send, net_recv, storage_sqlite_get_runs): as long
\* as a call is not over, one of the two ends or the thread can go on without
\* any failure, or the thread waits for the statement that lists runs, which a
\* thread has that can go on.  The exception is a peer that makes new-worker a
\* request and whose answer is lost: the server keeps its connection.
THEOREM NeverStuck ==
    Spec => [](\A c \in Conns : Underway(c) =>
                    \/ ConnCanGo(c)
                    \/ WaitsForList(c) /\ \E d \in Conns \ {c} : holder = d /\ ThreadCanGo(d)
                    \/ WaitsOnKept(c))
<1>1. ASSUME Inv, WaitInv, NEW c \in Conns, Underway(c), ~ConnCanGo(c), ~WaitsOnKept(c)
      PROVE  WaitsForList(c) /\ \E d \in Conns \ {c} : holder = d /\ ThreadCanGo(d)
  <2>1. /\ stage[c] \in {"none", "recv", "handle", "list", "answer", "reply", "end"}
        /\ Alive(c) /\ Place(c)
        /\ io[Server(c)] \in Results \union Sending \union Receiving
    BY <1>1, EndsOfConns DEF Inv, WaitInv, TypeOK, NetTypeOK
  <2>2. io[Client(c)] # "idle" /\ ~ThreadCanGo(c)
    BY <1>1 DEF Underway, ConnCanGo
  <2>3. stage[c] # "none"
    BY <1>1, <2>1, <2>2 DEF WaitInv, Alive, ThreadCanGo
  <2>4. stage[c] # "recv"
    BY <1>1, <2>1, <2>2, ReaderWaits DEF Place, ThreadCanGo
  <2>5. stage[c] # "reply"
    BY <1>1, <2>1, <2>2, WriterWaits DEF Place, ThreadCanGo
  <2>6. stage[c] # "end"
    BY <1>1, PeerWaits DEF Underway
  <2>7. stage[c] = "handle" /\ WaitsForList(c)
    BY <2>1, <2>2, <2>3, <2>4, <2>5, <2>6 DEF ThreadCanGo
  <2>8. holder \in Conns /\ stage[holder] = "list"
    BY <1>1, <2>7 DEF WaitInv, WaitsForList, Inv, TypeOK
  <2> QED
    BY <2>7, <2>8 DEF ThreadCanGo
<1>2. Inv /\ WaitInv =>
          (\A c \in Conns : Underway(c) =>
                    \/ ConnCanGo(c)
                    \/ WaitsForList(c) /\ \E d \in Conns \ {c} : holder = d /\ ThreadCanGo(d)
                    \/ WaitsOnKept(c))
  BY <1>1
<1> QED
  BY <1>2, Invariance, WaitInit, WaitStep, PTL DEF Spec

-----------------------------------------------------------------------------
(* How much of a call is left *)

\* The stages that the peer and the thread have before them, at most.
PeerLeft(c) ==
    IF told[c] # "nothing" THEN 0
    ELSE IF io[Client(c)] = "idle" THEN 5
    ELSE IF io[Client(c)] \in Sending THEN 4
    ELSE IF io[Client(c)] = "sent" THEN 3
    ELSE IF io[Client(c)] \in Receiving THEN 2
    ELSE 1

ThreadLeft(c) ==
    (CASE stage[c] = "none" -> 12 [] stage[c] = "recv" -> 10 [] stage[c] = "handle" -> 8
       [] stage[c] = "list" -> 6 [] stage[c] = "answer" -> 4 [] stage[c] = "reply" -> 2 [] OTHER -> 0)
    + IF io[Server(c)] \in Sending \union Receiving THEN 1 ELSE 0

StagesLeft(c) == PeerLeft(c) + ThreadLeft(c)

\* The bytes that are to be sent and to be read, and the rows to be listed.
BytesLeft(e) == 2 * (SizeBytes + length[e]) - sent[e] - taken[Peer(e)]

MovesLeft(c) ==
    BytesLeft(Client(c)) + BytesLeft(Server(c)) + IF stage[c] = "list" THEN cursor ELSE 0

Shorter(c) ==
    \/ StagesLeft(c)' < StagesLeft(c)
    \/ StagesLeft(c)' = StagesLeft(c) /\ MovesLeft(c)' < MovesLeft(c)

AsLong(c) == StagesLeft(c)' = StagesLeft(c) /\ MovesLeft(c)' = MovesLeft(c)

\* What happens on a connection.
Own(c) == PeerStep(c) \/ PeerGone(c) \/ ThreadStep(c) \/ NetStep(Client(c)) \/ NetStep(Server(c))

LEMMA StagesTyped ==
    ASSUME NEW c \in Conns
    PROVE  /\ PeerLeft(c) \in 0 .. 5 /\ PeerLeft(c)' \in 0 .. 5
           /\ ThreadLeft(c) \in 0 .. 13 /\ ThreadLeft(c)' \in 0 .. 13
           /\ StagesLeft(c) \in Nat
<1>1. PeerLeft(c) \in 0 .. 5 /\ PeerLeft(c)' \in 0 .. 5
  BY DEF PeerLeft
<1>2. ThreadLeft(c) \in 0 .. 13
  BY DEF ThreadLeft
<1>3. ThreadLeft(c)' \in 0 .. 13
  BY DEF ThreadLeft
<1> QED
  BY <1>1, <1>2, <1>3 DEF StagesLeft

LEMMA BytesTyped == ASSUME Inv, NEW e \in Ends PROVE BytesLeft(e) \in Nat
<1>1. /\ Frame(e) /\ Frame(Peer(e)) /\ Peer(e) \in Ends /\ Peer(Peer(e)) = e
      /\ NetTypeOK
  BY EndsOfConns DEF Inv, TypeOK
<1>2. length[e] \in Nat /\ sent[e] \in Nat /\ taken[Peer(e)] \in Nat
  BY <1>1, Numbers DEF NetTypeOK
<1>3. sent[e] <= SizeBytes + length[e] /\ taken[Peer(e)] <= sent[e]
  BY <1>1 DEF Frame
<1> QED
  BY <1>2, <1>3 DEF BytesLeft, SizeBytes

LEMMA MovesTyped == ASSUME Inv, NEW c \in Conns PROVE MovesLeft(c) \in Nat
<1>1. BytesLeft(Client(c)) \in Nat /\ BytesLeft(Server(c)) \in Nat
  BY EndsOfConns, BytesTyped
<1>2. cursor \in Nat
  BY DEF Inv, TypeOK
<1> QED
  BY <1>1, <1>2 DEF MovesLeft

\* Connections that take no part in a step keep what they have left.
LEMMA OthersAsLong ==
    ASSUME NEW c \in Conns, NEW d \in Conns \ {c},
           stage'[d] = stage[d], told'[d] = told[d],
           \A e \in Ends \ {Client(c), Server(c)} :
                io'[e] = io[e] /\ length'[e] = length[e] /\ sent'[e] = sent[e] /\ taken'[e] = taken[e],
           stage[d] = "list" => UNCHANGED cursor
    PROVE  AsLong(d)
<1>1. /\ Client(d) \in Ends \ {Client(c), Server(c)} /\ Server(d) \in Ends \ {Client(c), Server(c)}
      /\ Peer(Client(d)) = Server(d) /\ Peer(Server(d)) = Client(d)
  BY EndsOfConns
<1>2. StagesLeft(d)' = StagesLeft(d)
  BY <1>1 DEF StagesLeft, PeerLeft, ThreadLeft
<1>3. BytesLeft(Client(d))' = BytesLeft(Client(d)) /\ BytesLeft(Server(d))' = BytesLeft(Server(d))
  BY <1>1 DEF BytesLeft
<1> QED
  BY <1>2, <1>3 DEF AsLong, MovesLeft

LEMMA PeerShortens ==
    ASSUME Inv, WaitInv, NEW c \in Conns, PeerStep(c) \/ PeerGone(c)
    PROVE  Shorter(c) /\ \A d \in Conns \ {c} : AsLong(d)
<1> USE EndsOfConns DEF PeerStep
<1>1. NetTypeOK /\ Client(c) \in Ends /\ Server(c) \in Ends /\ Client(c) # Server(c)
      /\ told \in [Conns -> {"nothing", "ok", "error", "sent", "silence"}]
  BY DEF Inv, TypeOK
<1>2. /\ UNCHANGED <<stage, sent, taken, cursor>> /\ told[c] = "nothing"
      /\ \A d \in Conns \ {c} : told'[d] = told[d]
      /\ \A e \in Ends \ {Client(c)} : io'[e] = io[e] /\ length'[e] = length[e]
  BY <1>1 DEF Connect, Await, Learn, PeerGone, Over, SendBegins, RecvBegins, serverVars, NetTypeOK
<1>3. ThreadLeft(c)' = ThreadLeft(c)
  <2>1. stage'[c] = stage[c] /\ io'[Server(c)] = io[Server(c)]
    BY <1>1, <1>2
  <2> QED
    BY <2>1 DEF ThreadLeft
<1>4. PeerLeft(c)' < PeerLeft(c)
  <2>1. CASE Connect(c)
    BY <1>1, <2>1 DEF Connect, SendBegins, PeerLeft, NetTypeOK, Sending
  <2>2. CASE Await(c)
    <3>1. PeerLeft(c) = 3
      BY <2>2 DEF Await, PeerLeft, Sending
    <3>2. told'[c] = "sent" \/ (told'[c] = "nothing" /\ io'[Client(c)] = "recv_size")
      BY <1>1, <2>2 DEF Await, RecvBegins, NetTypeOK
    <3>3. PeerLeft(c)' \in {0, 2}
      BY <3>2 DEF PeerLeft, Sending, Receiving
    <3> QED
      BY <3>1, <3>3
  <2>3. CASE Learn(c) \/ PeerGone(c)
    <3>1. told'[c] # "nothing"
      BY <1>1, <2>3 DEF Learn, PeerGone, Over
    <3>2. PeerLeft(c)' = 0 /\ PeerLeft(c) > 0
      BY <1>2, <3>1 DEF PeerLeft
    <3> QED
      BY <3>2
  <2> QED
    BY <2>1, <2>2, <2>3
<1>5. Shorter(c)
  BY <1>3, <1>4, StagesTyped DEF Shorter, StagesLeft
<1> QED
  BY <1>2, <1>5, OthersAsLong

LEMMA ThreadShortens ==
    ASSUME Inv, NEW c \in Conns, Accept(c) \/ Dispatch(c) \/ Answer(c) \/ Replied(c)
    PROVE  Shorter(c) /\ \A d \in Conns \ {c} : AsLong(d)
<1> USE EndsOfConns
<1>1. NetTypeOK /\ Place(c) /\ Client(c) \in Ends /\ Server(c) \in Ends /\ Client(c) # Server(c)
      /\ stage \in [Conns -> {"none", "recv", "handle", "list", "answer", "reply", "end"}]
  BY DEF Inv, TypeOK
<1>2. /\ UNCHANGED <<sent, taken, told, cursor>>
      /\ \A d \in Conns \ {c} : stage'[d] = stage[d]
      /\ \A e \in Ends \ {Server(c)} : io'[e] = io[e] /\ length'[e] = length[e]
  BY <1>1 DEF Accept, Dispatch, Answer, Replied, ThreadEnds, Goto, SendBegins, RecvBegins,
              UNCHANGED_Peer, UNCHANGED_Table, NetTypeOK
<1>3. PeerLeft(c)' = PeerLeft(c)
  <2>1. told'[c] = told[c] /\ io'[Client(c)] = io[Client(c)]
    BY <1>1, <1>2
  <2> QED
    BY <2>1 DEF PeerLeft
<1>4. ThreadLeft(c)' < ThreadLeft(c)
  <2>1. CASE Accept(c)
    <3>1. ThreadLeft(c) >= 12
      BY <2>1 DEF Accept, ThreadLeft
    <3>2. stage'[c] \in {"recv", "end"}
      BY <1>1, <2>1 DEF Accept, ThreadEnds, Goto
    <3>3. ThreadLeft(c)' <= 11
      BY <3>2 DEF ThreadLeft
    <3> QED
      BY <3>1, <3>3, StagesTyped DEF ThreadLeft
  <2>2. CASE Dispatch(c)
    <3>1. ThreadLeft(c) >= 10
      BY <2>2 DEF Dispatch, ThreadLeft
    <3>2. stage'[c] \in {"handle", "end"}
      BY <1>1, <2>2 DEF Dispatch, ThreadEnds, Goto
    <3>3. ThreadLeft(c)' <= 9
      BY <3>2 DEF ThreadLeft
    <3> QED
      BY <3>1, <3>3 DEF ThreadLeft
  <2>3. CASE Answer(c)
    <3>1. ThreadLeft(c) >= 4
      BY <2>3 DEF Answer, ThreadLeft
    <3>2. stage'[c] \in {"reply", "end"}
      BY <1>1, <2>3 DEF Answer, ThreadEnds, Goto
    <3>3. ThreadLeft(c)' <= 3
      BY <3>2 DEF ThreadLeft
    <3> QED
      BY <3>1, <3>3 DEF ThreadLeft
  <2>4. CASE Replied(c)
    <3>1. ThreadLeft(c) >= 2
      BY <2>4 DEF Replied, ThreadLeft
    <3>2. stage'[c] = "end"
      BY <1>1, <2>4 DEF Replied, ThreadEnds, Goto
    <3>3. ThreadLeft(c)' <= 1
      BY <3>2 DEF ThreadLeft
    <3> QED
      BY <3>1, <3>3 DEF ThreadLeft
  <2> QED
    BY <2>1, <2>2, <2>3, <2>4
<1>5. Shorter(c)
  BY <1>3, <1>4, StagesTyped DEF Shorter, StagesLeft, ThreadLeft, PeerLeft
<1> QED
  BY <1>2, <1>5, OthersAsLong

\* Whoever lists runs has the statement, so nobody else moves its cursor.
LEMMA HandlersShorten ==
    ASSUME Inv, ListInv, NEW c \in Conns,
           \/ HandleUnknown(c) \/ HandleNewWorker(c) \/ HandleQueueRun(c) \/ HandleFinishedRun(c)
           \/ BeginList(c) \/ ListRow(c) \/ EndList(c)
    PROVE  Shorter(c) /\ \A d \in Conns \ {c} : AsLong(d)
<1>1. stage \in [Conns -> {"none", "recv", "handle", "list", "answer", "reply", "end"}]
      /\ cursor \in Nat
  BY DEF Inv, TypeOK
<1>2. UNCHANGED <<io, length, sent, taken, told>>
      /\ \A d \in Conns \ {c} : stage'[d] = stage[d]
  BY <1>1 DEF HandleUnknown, HandleNewWorker, HandleQueueRun, HandleFinishedRun, BeginList, ListRow, EndList,
              Returns, Goto, UNCHANGED_Peer
<1>3. PeerLeft(c)' = PeerLeft(c) /\ BytesLeft(Client(c))' = BytesLeft(Client(c))
      /\ BytesLeft(Server(c))' = BytesLeft(Server(c))
  BY <1>2 DEF PeerLeft, BytesLeft
<1>4. ASSUME NEW d \in Conns \ {c}, stage[d] = "list"
      PROVE  UNCHANGED cursor
  <2>1. holder = d
    BY <1>4 DEF ListInv, Listing
  <2>2. stage[c] # "list" /\ holder # Nobody
    BY <2>1, NobodyAssumption DEF ListInv, Listing
  <2> QED
    BY <2>2 DEF HandleUnknown, HandleNewWorker, HandleQueueRun, HandleFinishedRun, BeginList, ListRow,
                EndList, UNCHANGED_Table
<1>5. CASE ListRow(c)
  <2>1. UNCHANGED stage /\ stage[c] = "list" /\ cursor > 0 /\ cursor' = cursor - 1
    BY <1>5 DEF ListRow
  <2>2. StagesLeft(c)' = StagesLeft(c)
    BY <1>2, <1>3, <2>1 DEF StagesLeft, ThreadLeft
  <2>3. MovesLeft(c)' < MovesLeft(c)
    BY <1>1, <1>3, <2>1, BytesTyped, EndsOfConns DEF MovesLeft
  <2> QED
    BY <1>2, <1>4, <2>2, <2>3, OthersAsLong DEF Shorter
<1>6. CASE ~ListRow(c)
  <2>1. \/ stage[c] = "handle" /\ stage'[c] \in {"list", "answer"}
        \/ stage[c] = "list" /\ stage'[c] = "answer"
    BY <1>1, <1>6 DEF HandleUnknown, HandleNewWorker, HandleQueueRun, HandleFinishedRun, BeginList, EndList,
                      Handles, Returns, Goto
  <2>2. ThreadLeft(c)' < ThreadLeft(c)
    BY <1>2, <2>1 DEF ThreadLeft
  <2>3. Shorter(c)
    BY <1>3, <2>2, StagesTyped DEF Shorter, StagesLeft, ThreadLeft, PeerLeft
  <2> QED
    BY <1>2, <1>4, <2>3, OthersAsLong
<1> QED
  BY <1>5, <1>6

\* The network ends a call of an end, or moves some bytes for it.
LEMMA NetMoves ==
    ASSUME Inv, NEW e \in Ends, NetStep(e)
    PROVE  /\ UNCHANGED <<length, told, stage, cursor>>
           /\ \A f \in Ends \ {e} : io'[f] = io[f] /\ sent'[f] = sent[f] /\ taken'[f] = taken[f]
           /\ \/ io[e] \in Sending /\ io'[e] \in {"sent", "failed"}
              \/ io[e] \in Receiving /\ io'[e] \in {"received", "failed"}
              \/ /\ io[e] \in Sending /\ io'[e] \in Sending
                 /\ sent[e] < sent'[e] /\ taken'[e] = taken[e]
              \/ /\ io[e] \in Receiving /\ io'[e] \in Receiving
                 /\ taken[e] < taken'[e] /\ sent'[e] = sent[e]
<1>1. /\ NetTypeOK /\ Frame(e) /\ sent[e] \in Nat /\ taken[e] \in Nat /\ size[e] \in Nat
      /\ length[e] \in Nat
  BY Numbers DEF Inv, TypeOK, NetTypeOK
<1>2. UNCHANGED <<length, told, stage, cursor>>
  BY DEF NetStep, IO, Send, SendFails, Recv, RecvEnds, RecvFails, serverVars
<1>3. \A f \in Ends \ {e} : io'[f] = io[f] /\ sent'[f] = sent[f] /\ taken'[f] = taken[f]
  BY <1>1 DEF NetTypeOK, NetStep, IO, Send, SendFails, Recv, RecvEnds, RecvFails, Took
<1>4. CASE SendFails(e)
  BY <1>1, <1>2, <1>3, <1>4 DEF SendFails, NetTypeOK
<1>5. CASE RecvEnds(e) \/ RecvFails(e)
  BY <1>1, <1>2, <1>3, <1>5 DEF RecvEnds, RecvFails, NetTypeOK
<1>6. CASE Send(e)
  <2>1. PICK k \in Moves(Goal(e) - sent[e]) :
            /\ sent' = [sent EXCEPT ![e] = @ + k]
            /\ io' = [io EXCEPT ![e] =
                IF sent[e] + k < Goal(e) THEN @ ELSE IF @ = "send_size" THEN "send_data" ELSE "sent"]
    BY <1>6 DEF Send
  <2>2. io[e] \in Sending /\ UNCHANGED taken
    BY <1>6 DEF Send
  <2>3. Goal(e) \in Nat /\ sent[e] < Goal(e)
    BY <1>1, <2>2 DEF Goal, Frame, Sending, SizeBytes
  <2>4. k \in Nat /\ k > 0
    BY <1>1, <2>3, Numbers
  <2>5. sent'[e] = sent[e] + k
    BY <1>1, <2>1 DEF NetTypeOK
  <2>6. io'[e] \in Sending \union {"sent"}
    BY <1>1, <2>1, <2>2 DEF NetTypeOK, Sending
  <2> QED
    BY <1>1, <1>2, <1>3, <2>2, <2>4, <2>5, <2>6
<1>7. CASE Recv(e)
  <2>1. PICK k \in Moves(Goal(e) - taken[e]) : Took(e, k, taken[e] + k = Goal(e))
    BY <1>7 DEF Recv
  <2>2. io[e] \in Receiving /\ UNCHANGED sent
    BY <1>7 DEF Recv
  <2>3. Goal(e) \in Nat /\ taken[e] < Goal(e)
    BY <1>1, <2>2 DEF Goal, Frame, Receiving, SizeBytes
  <2>4. k \in Nat /\ k > 0
    BY <1>1, <2>3, Numbers
  <2>5. taken'[e] = taken[e] + k
    BY <1>1, <2>1 DEF NetTypeOK, Took
  <2>6. io'[e] \in Receiving \union {"received"}
    BY <1>1, <2>1, <2>2 DEF NetTypeOK, Took, Receiving
  <2> QED
    BY <1>1, <1>2, <1>3, <2>2, <2>4, <2>5, <2>6
<1> QED
  BY <1>4, <1>5, <1>6, <1>7 DEF NetStep, IO

LEMMA NatsTyped ==
    ASSUME Inv, NEW e \in Ends
    PROVE  sent[e] \in Nat /\ taken[e] \in Nat /\ length[e] \in Nat
<1>1. NetTypeOK
  BY DEF Inv, TypeOK
<1> QED
  BY <1>1, Numbers DEF NetTypeOK

LEMMA ShorterStages ==
    ASSUME NEW c \in Conns,
           \/ PeerLeft(c)' < PeerLeft(c) /\ ThreadLeft(c)' = ThreadLeft(c)
           \/ PeerLeft(c)' = PeerLeft(c) /\ ThreadLeft(c)' < ThreadLeft(c)
    PROVE  Shorter(c)
<1>1. /\ PeerLeft(c) \in 0 .. 5 /\ PeerLeft(c)' \in 0 .. 5
      /\ ThreadLeft(c) \in 0 .. 13 /\ ThreadLeft(c)' \in 0 .. 13
  BY StagesTyped
<1>2. StagesLeft(c)' < StagesLeft(c)
  BY <1>1 DEF StagesLeft
<1> QED
  BY <1>2 DEF Shorter

LEMMA NetShortens ==
    ASSUME Inv, WaitInv, NEW c \in Conns, NetStep(Client(c)) \/ NetStep(Server(c))
    PROVE  Shorter(c) /\ \A d \in Conns \ {c} : AsLong(d)
<1>1. /\ Client(c) \in Ends /\ Server(c) \in Ends /\ Client(c) # Server(c) /\ Peer(Client(c)) = Server(c) /\ Peer(Server(c)) = Client(c)
      /\ \A e \in Ends : e # Client(c) /\ e # Server(c) => e \in Ends \ {Client(c), Server(c)}
  BY EndsOfConns
<1>2. /\ sent[Client(c)] \in Nat /\ sent[Server(c)] \in Nat
      /\ taken[Client(c)] \in Nat /\ taken[Server(c)] \in Nat
      /\ length[Client(c)] \in Nat /\ length[Server(c)] \in Nat /\ cursor \in Nat
  BY <1>1, NatsTyped DEF Inv, TypeOK
<1>3. /\ sent'[Client(c)] \in Nat /\ sent'[Server(c)] \in Nat
      /\ taken'[Client(c)] \in Nat /\ taken'[Server(c)] \in Nat
  <2>1. Inv'
    BY <1>1, NetKeeps
  <2>2. NetTypeOK'
    BY <2>1 DEF Inv, TypeOK
  <2> QED
    BY <1>1, <2>2 DEF NetTypeOK
<1>4. UNCHANGED <<length, told, stage, cursor>>
  BY <1>1, NetMoves
<1>5. \A d \in Conns \ {c} : AsLong(d)
  <2>1. \A f \in Ends \ {Client(c), Server(c)} : io'[f] = io[f] /\ sent'[f] = sent[f] /\ taken'[f] = taken[f]
    BY <1>1, NetMoves
  <2> QED
    BY <1>4, <2>1, OthersAsLong
<1>6. ASSUME StagesLeft(c)' = StagesLeft(c),
             sent[Client(c)] <= sent'[Client(c)], sent[Server(c)] <= sent'[Server(c)], taken[Client(c)] <= taken'[Client(c)], taken[Server(c)] <= taken'[Server(c)],
             \/ sent[Client(c)] < sent'[Client(c)] \/ sent[Server(c)] < sent'[Server(c)] \/ taken[Client(c)] < taken'[Client(c)] \/ taken[Server(c)] < taken'[Server(c)]
      PROVE  Shorter(c)
  <2>1. /\ BytesLeft(Client(c)) = 2 * (SizeBytes + length[Client(c)]) - sent[Client(c)] - taken[Server(c)]
        /\ BytesLeft(Client(c))' = 2 * (SizeBytes + length[Client(c)]) - sent'[Client(c)] - taken'[Server(c)]
        /\ BytesLeft(Server(c)) = 2 * (SizeBytes + length[Server(c)]) - sent[Server(c)] - taken[Client(c)]
        /\ BytesLeft(Server(c))' = 2 * (SizeBytes + length[Server(c)]) - sent'[Server(c)] - taken'[Client(c)]
    BY <1>1, <1>4 DEF BytesLeft
  <2>2. /\ BytesLeft(Client(c)) \in Int /\ BytesLeft(Client(c))' \in Int /\ BytesLeft(Server(c)) \in Int /\ BytesLeft(Server(c))' \in Int
        /\ BytesLeft(Client(c))' + BytesLeft(Server(c))' < BytesLeft(Client(c)) + BytesLeft(Server(c))
    BY <1>2, <1>3, <1>6, <2>1 DEF SizeBytes
  <2>3. MovesLeft(c)' < MovesLeft(c)
    BY <1>2, <1>4, <2>2 DEF MovesLeft
  <2> QED
    BY <1>6, <2>3 DEF Shorter
<1>7. CASE NetStep(Client(c))
  <2>1. \A f \in Ends \ {Client(c)} : io'[f] = io[f] /\ sent'[f] = sent[f] /\ taken'[f] = taken[f]
    BY <1>1, <1>7, NetMoves
  <2>2. io'[Server(c)] = io[Server(c)] /\ sent'[Server(c)] = sent[Server(c)] /\ taken'[Server(c)] = taken[Server(c)]
    BY <1>1, <2>1
  <2>3. ThreadLeft(c)' = ThreadLeft(c)
    BY <1>4, <2>2 DEF ThreadLeft
  <2>4. io[Client(c)] \in Sending \union Receiving
    BY <1>1, <1>7, NetMoves
  <2>5. told[c] = "nothing" /\ told'[c] = "nothing"
    BY <1>4, <2>4 DEF WaitInv, Alive, Sending, Receiving
  <2>6. CASE io'[Client(c)] \in {"sent", "received", "failed"}
    <3>1. \/ io[Client(c)] \in Sending /\ io'[Client(c)] \in {"sent", "failed"}
          \/ io[Client(c)] \in Receiving /\ io'[Client(c)] \in {"received", "failed"}
      BY <1>1, <1>7, <2>6, NetMoves DEF Sending, Receiving
    <3>2. PeerLeft(c)' < PeerLeft(c)
      BY <2>5, <3>1 DEF PeerLeft, Sending, Receiving
    <3> QED
      BY <1>5, <2>3, <3>2, ShorterStages
  <2>7. CASE io'[Client(c)] \notin {"sent", "received", "failed"}
    <3>1. /\ \/ io[Client(c)] \in Sending /\ io'[Client(c)] \in Sending
             \/ io[Client(c)] \in Receiving /\ io'[Client(c)] \in Receiving
          /\ \/ sent[Client(c)] < sent'[Client(c)] /\ taken'[Client(c)] = taken[Client(c)]
             \/ taken[Client(c)] < taken'[Client(c)] /\ sent'[Client(c)] = sent[Client(c)]
      BY <1>1, <1>7, <2>7, NetMoves
    <3>2. StagesLeft(c)' = StagesLeft(c)
      BY <2>3, <2>5, <3>1 DEF StagesLeft, PeerLeft, Sending, Receiving
    <3>3. /\ sent[Client(c)] <= sent'[Client(c)] /\ sent[Server(c)] <= sent'[Server(c)]
          /\ taken[Client(c)] <= taken'[Client(c)] /\ taken[Server(c)] <= taken'[Server(c)]
      BY <1>2, <1>3, <2>2, <3>1
    <3>4. \/ sent[Client(c)] < sent'[Client(c)] \/ sent[Server(c)] < sent'[Server(c)]
          \/ taken[Client(c)] < taken'[Client(c)] \/ taken[Server(c)] < taken'[Server(c)]
      BY <3>1
    <3> QED
      BY <1>5, <1>6, <3>2, <3>3, <3>4
  <2> QED
    BY <2>6, <2>7
<1>8. CASE NetStep(Server(c))
  <2>1. \A f \in Ends \ {Server(c)} : io'[f] = io[f] /\ sent'[f] = sent[f] /\ taken'[f] = taken[f]
    BY <1>1, <1>8, NetMoves
  <2>2. io'[Client(c)] = io[Client(c)] /\ sent'[Client(c)] = sent[Client(c)] /\ taken'[Client(c)] = taken[Client(c)]
    BY <1>1, <2>1
  <2>3. PeerLeft(c)' = PeerLeft(c)
    BY <1>4, <2>2 DEF PeerLeft
  <2>4. io[Server(c)] \in Sending \union Receiving
    BY <1>1, <1>8, NetMoves
  <2>5. CASE io'[Server(c)] \in {"sent", "received", "failed"}
    <3>1. ThreadLeft(c)' < ThreadLeft(c)
      BY <1>4, <2>4, <2>5 DEF ThreadLeft, Sending, Receiving
    <3> QED
      BY <1>5, <2>3, <3>1, ShorterStages
  <2>6. CASE io'[Server(c)] \notin {"sent", "received", "failed"}
    <3>1. /\ io'[Server(c)] \in Sending \union Receiving
          /\ \/ sent[Server(c)] < sent'[Server(c)] /\ taken'[Server(c)] = taken[Server(c)]
             \/ taken[Server(c)] < taken'[Server(c)] /\ sent'[Server(c)] = sent[Server(c)]
      BY <1>1, <1>8, <2>6, NetMoves
    <3>2. StagesLeft(c)' = StagesLeft(c)
      BY <1>4, <2>3, <2>4, <3>1 DEF StagesLeft, ThreadLeft
    <3>3. /\ sent[Client(c)] <= sent'[Client(c)] /\ sent[Server(c)] <= sent'[Server(c)]
          /\ taken[Client(c)] <= taken'[Client(c)] /\ taken[Server(c)] <= taken'[Server(c)]
      BY <1>2, <1>3, <2>2, <3>1
    <3>4. \/ sent[Client(c)] < sent'[Client(c)] \/ sent[Server(c)] < sent'[Server(c)]
          \/ taken[Client(c)] < taken'[Client(c)] \/ taken[Server(c)] < taken'[Server(c)]
      BY <3>1
    <3> QED
      BY <1>5, <1>6, <3>2, <3>3, <3>4
  <2> QED
    BY <2>5, <2>6
<1> QED
  BY <1>5, <1>7, <1>8

LEMMA ServerGoneShortens ==
    ASSUME Inv, ServerGone, NEW c \in Conns
    PROVE  Shorter(c) \/ AsLong(c)
<1>1. /\ Client(c) \in Ends /\ Server(c) \in Ends /\ Client(c)[2] = "client" /\ Server(c)[2] = "server"
      /\ Place(c)
  BY EndsOfConns DEF Inv, Client, Server
<1>2. /\ UNCHANGED <<length, sent, taken, told>>
      /\ io'[Client(c)] = io[Client(c)] /\ io'[Server(c)] = "failed" /\ stage'[c] = "end"
  BY <1>1 DEF ServerGone
<1>3. PeerLeft(c)' = PeerLeft(c)
  BY <1>2 DEF PeerLeft
<1>4. ThreadLeft(c)' = 0
  BY <1>2 DEF ThreadLeft, Sending, Receiving
<1>5. CASE ThreadLeft(c) = 0
  <2>1. stage[c] # "list"
    BY <1>5 DEF ThreadLeft
  <2>2. MovesLeft(c)' = MovesLeft(c)
    BY <1>2, <2>1 DEF MovesLeft, BytesLeft
  <2> QED
    BY <1>3, <1>4, <1>5, <2>2 DEF AsLong, StagesLeft
<1>6. CASE ThreadLeft(c) # 0
  BY <1>3, <1>4, <1>6, StagesTyped DEF Shorter, StagesLeft
<1> QED
  BY <1>5, <1>6

\* CallsEnd rests on this and on NeverStuck (net_send, net_recv, command.c):
\* whatever happens on a connection leaves less of its call to do, failures
\* included, and what happens elsewhere does not bring any of it back, although
\* the statement that lists runs is shared.  Both measures are natural numbers.
THEOREM CallsShorten ==
    /\ Spec => [](\A c \in Conns : StagesLeft(c) \in Nat /\ MovesLeft(c) \in Nat)
    /\ Spec => [][\A c \in Conns : Shorter(c) \/ (AsLong(c) /\ ~Own(c))]_vars
<1>1. ASSUME Inv, WaitInv, ListInv, NEW c \in Conns, Own(c)
      PROVE  Shorter(c) /\ \A d \in Conns \ {c} : AsLong(d)
  <2>1. CASE PeerStep(c) \/ PeerGone(c)
    BY <1>1, <2>1, PeerShortens
  <2>2. CASE ThreadStep(c)
    BY <1>1, <2>2, ThreadShortens, HandlersShorten DEF ThreadStep
  <2>3. CASE NetStep(Client(c)) \/ NetStep(Server(c))
    BY <1>1, <2>3, NetShortens
  <2> QED
    BY <1>1, <2>1, <2>2, <2>3 DEF Own
<1>2. ASSUME Inv, WaitInv, ListInv, Next, NEW c \in Conns, ~Own(c)
      PROVE  Shorter(c) \/ AsLong(c)
  <2>1. CASE ServerGone
    BY <1>2, <2>1, ServerGoneShortens
  <2>2. ASSUME NEW d \in Conns, Own(d)
        PROVE  AsLong(c)
    BY <1>1, <1>2, <2>2
  <2>3. \A e \in Ends : NetStep(e) => \E d \in Conns : Own(d)
    BY EndsOfConns DEF Own
  <2> QED
    BY <1>2, <2>1, <2>2, <2>3 DEF Next, Own
<1>3. Inv /\ WaitInv /\ ListInv /\ [Next]_vars =>
          [\A c \in Conns : Shorter(c) \/ (AsLong(c) /\ ~Own(c))]_vars
  BY <1>1, <1>2
<1>4. Inv => (\A c \in Conns : StagesLeft(c) \in Nat /\ MovesLeft(c) \in Nat)
  BY StagesTyped, MovesTyped
<1>5. Spec => [](\A c \in Conns : StagesLeft(c) \in Nat /\ MovesLeft(c) \in Nat)
  BY <1>4, Invariance, PTL
<1> QED
  BY <1>3, <1>5, Invariance, Lists, WaitInit, WaitStep, PTL DEF Spec

=============================================================================
