--------------------------- MODULE BankChainProofs ---------------------------
(***************************************************************************)
(* Type correctness of BankChain, that no account is ever overdrawn, and   *)
(* what a server never forgets, for every number of servers, clients,      *)
(* threads and requests, every configuration and whichever threads of the  *)
(* servers and of the master overlap.                                      *)
(***************************************************************************)
EXTENDS BankChain, SequenceFacts, FiniteSetTheorems, SequenceTheorems, TLAPS

\* A thread that has looked a balance up and not yet written one back holds
\* a balance that is not negative. NonNegative alone is not inductive: what
\* ProcApply writes is computed from this local, not from acct.
LookedUp ==
    \A s \in Server, t \in ThreadId : thr[s][t].pc = "apply" => thr[s][t].bal \in Nat

BankInv == TypeOK /\ NonNegative /\ LookedUp

-----------------------------------------------------------------------------
(* The operators of Ledger and Wire.                                       *)

\* The blank request is a request.
LEMMA BlankIsRequest == BlankReq \in Request
  BY LedgerAssumption DEF BlankReq, Request, ReqType

\* NoConn names some thread.
LEMMA NoConnType == NoConn \in Conn
  BY WireAssumption DEF NoConn, Conn

\* Whatever text a server finds in its buffer, it parses to a request.
LEMMA ParseType ==
  ASSUME NEW m \in Text
  PROVE  Parse(m) \in Request
  <1>1. CASE m \in RequestText
    BY <1>1 DEF Parse, RequestText
  <1>2. CASE m \notin RequestText
    BY <1>2, BlankIsRequest DEF Parse, Request, ReqType
  <1> QED BY <1>1, <1>2

\* A reply goes to a client, or nowhere.
LEMMA AddressType ==
  ASSUME NEW m \in Text
  PROVE  Address(m) \in Client \cup {NoClient}
  BY DEF Address, RequestText, Request

\* The texts the processes write.
LEMMA RawType ==
  ASSUME NEW r \in Request
  PROVE  Raw(r) \in Text
  BY DEF Raw, Text, RequestText

\* What Push writes of a request is a text of a request
\* (Request::Packetize).
LEMMA PushType ==
  ASSUME NEW r \in Request, NEW k \in {"SyncSent", "SyncProc"}
  PROVE  Push(k, r) \in Text
  BY DEF Push, Text, RequestText, Request

\* What Noti writes is a text of a notification (Master::packetize).
LEMMA NotiType ==
  ASSUME NEW k \in NotiKind, NEW p \in Server \cup {NoServer}
  PROVE  Noti(k, p) \in NotiText
  BY DEF Noti, NotiText

\* A request pushed to another server, with or without an address to answer
\* to, is a text of a datagram or a connection.
LEMMA PacketType ==
  ASSUME NEW m \in Text \cup {Nothing}, NEW c \in Conn
  PROVE  [msg |-> m, conn |-> c] \in Packet
  BY DEF Packet

\* AddsentTrans keeps a sequence of requests a sequence of requests.
LEMMA AddType ==
  ASSUME NEW r \in Request, NEW S \in SUBSET Request
  PROVE  /\ AddsentTrans(r, S) \in SUBSET Request
         /\ AckSent(r, S) \in SUBSET Request
         /\ \A P \in SUBSET Request : AckProc(r, S, P) \in SUBSET Request
  BY DEF AddsentTrans, AckSent, AckProc

\* A request that is applied to a balance leaves a balance: this is where
\* ProcReq refuses a withdrawal.
LEMMA NewBalType ==
  ASSUME NEW r \in Request, NEW h, NEW b \in Nat, Applies(r, h, b)
  PROVE  NewBal(r, b) \in Nat
  BY DEF Applies, NewBal, Request

\* The balance ProcReq puts in a reply is a balance.
LEMMA ReplyBalType ==
  ASSUME NEW r \in Request, NEW h, NEW b \in Nat
  PROVE  ReplyBal(r, h, b) \in Balance
  BY NewBalType DEF ReplyBal, Balance, Garbage

\* The outcomes ProcReq may give are outcomes.
LEMMA OutcomesType ==
  ASSUME NEW r, NEW h, NEW b
  PROVE  Outcomes(r, h, b) \subseteq Outcome
  BY DEF Outcomes, Outcome

\* A function on the numbers up to n is a sequence.
LEMMA FunctionSeq ==
  ASSUME NEW S, NEW n \in Nat, NEW f, f = [i \in 1..n |-> f[i]],
         \A i \in 1..n : f[i] \in S
  PROVE  f \in Seq(S) /\ Len(f) = n
  <1>1. f \in [1..n -> S]
    OBVIOUS
  <1>2. f \in Seq(S)
    BY <1>1, SeqDef
  <1> QED BY <1>1, <1>2

\* The links of a chain are as many as its servers (cal_next).
LEMMA LinksType ==
  ASSUME NEW c \in Seq(Server)
  PROVE  LinksOf(c) \in Seq(Server \cup {NoServer}) /\ Len(LinksOf(c)) = Len(c)
  <1>1. /\ DOMAIN c = 1..Len(c) /\ Len(c) \in Nat
        /\ \A i \in 1..Len(c) : c[i] \in Server
    OBVIOUS
  <1>2. \A i \in 1..Len(c) : LinksOf(c)[i] \in Server \cup {NoServer}
    BY <1>1 DEF LinksOf
  <1>3. LinksOf(c) = [i \in 1..Len(c) |-> LinksOf(c)[i]]
    BY <1>1 DEF LinksOf
  <1> QED BY <1>1, <1>2, <1>3, FunctionSeq

-----------------------------------------------------------------------------
(* The part of the invariant that the servers' own steps can disturb.      *)

ServerInv == WireTypeOK /\ ServerTypeOK /\ NonNegative /\ LookedUp

\* A table of threads as the invariant wants it.
ThreadTables ==
    {TT \in [Server -> [ThreadId -> Thread]] :
        \A s \in Server, t \in ThreadId :
            TT[s][t].pc = "apply" => TT[s][t].bal \in Nat}

\* Part of the invariant of a server: the table of threads is well typed
\* and what the threads have looked up is not negative.
LEMMA ServerInvThreads == ServerInv => thr \in ThreadTables
  BY DEF ServerInv, ServerTypeOK, LookedUp, ThreadTables

\* What is left to show of a step, once the variables it changes are done.
LEMMA ServerInvNext ==
  ASSUME WireTypeOK', thr' \in ThreadTables,
         next' \in [Server -> Server \cup {NoServer}],
         acct' \in [Server -> [Account -> Nat]],
         sent' \in [Server -> SUBSET Request],
         proc' \in [Server -> SUBSET Request],
         buf' \in [Server -> Text],
         args' \in [Server -> [Chan -> ArgsSet]],
         job' \in [Server -> JobSet],
         msgCount' \in [Server -> Nat],
         lossCount' \in [Server -> Nat],
         applied' \in [Server -> [Id -> Nat]]
  PROVE  ServerInv'
  BY DEF ServerInv, ServerTypeOK, NonNegative, LookedUp, ThreadTables

\* The types of everything, in the form ServerInvNext wants them back.
LEMMA ServerInvNow ==
  ASSUME ServerInv
  PROVE  /\ WireTypeOK /\ thr \in ThreadTables
         /\ next \in [Server -> Server \cup {NoServer}]
         /\ acct \in [Server -> [Account -> Nat]]
         /\ sent \in [Server -> SUBSET Request]
         /\ proc \in [Server -> SUBSET Request]
         /\ buf \in [Server -> Text]
         /\ args \in [Server -> [Chan -> ArgsSet]]
         /\ job \in [Server -> JobSet]
         /\ msgCount \in [Server -> Nat]
         /\ lossCount \in [Server -> Nat]
         /\ applied \in [Server -> [Id -> Nat]]
  <1>1. ASSUME NEW s \in Server
        PROVE  acct[s] \in [Account -> Nat]
    BY DEF ServerInv, ServerTypeOK, NonNegative
  <1> QED BY <1>1, ServerInvThreads DEF ServerInv, ServerTypeOK

\* An unused entry of the table of threads is a thread.
LEMMA IdleType == Idle \in Thread
  BY BlankIsRequest DEF Idle, Thread, Pc, Balance, Outcome, Chan

\* One thread of one server moves.
LEMMA ThreadMoves ==
  ASSUME NEW TT \in ThreadTables, NEW s \in Server, NEW t \in ThreadId,
         NEW T \in Thread, T.pc = "apply" => T.bal \in Nat
  PROVE  [TT EXCEPT ![s][t] = T] \in ThreadTables
  BY DEF ThreadTables

\* A thread that only moves on keeps the table well typed (Sync, Reply).
LEMMA GotoType ==
  ASSUME NEW s \in Server, NEW t \in ThreadId, thr \in ThreadTables,
         NEW pc \in Pc \ {"apply"}, Goto(s, t, pc)
  PROVE  thr' \in ThreadTables
  <1> DEFINE T == [thr[s][t] EXCEPT !.pc = pc]
  <1>1. thr[s][t] \in Thread
    BY DEF ThreadTables
  <1>2. T \in Thread /\ T.pc # "apply"
    BY <1>1 DEF Thread
  <1>3. thr' = [thr EXCEPT ![s][t] = T]
    BY DEF Goto, ThreadTables
  <1> QED BY <1>2, <1>3, ThreadMoves

\* A thread that ends keeps the table well typed (Sync, Reply).
LEMMA EndsType ==
  ASSUME NEW s \in Server, NEW t \in ThreadId, thr \in ThreadTables, Ends(s, t)
  PROVE  thr' \in ThreadTables
  BY IdleType, ThreadMoves DEF Ends, Idle

\* A thread that main starts keeps the table well typed (Pthread_create).
LEMMA SpawnType ==
  ASSUME thr \in ThreadTables, NEW s \in Server, NEW c \in Chan, Spawn(s, c)
  PROVE  thr' \in ThreadTables
  <1> DEFINE free == {t \in ThreadId : thr[s][t].pc = "idle"}
             t0 == CHOOSE t \in free : TRUE
             role == IF isTail(s) THEN "Reply" ELSE "Sync"
             T == [Idle EXCEPT !.role = role, !.chan = c,
                      !.pc = IF role = "Reply" THEN "start" ELSE "connect"]
  <1>1. t0 \in ThreadId
    BY DEF Spawn
  <1>2. T \in Thread /\ T.pc # "apply"
    BY IdleType DEF Thread, Pc, Chan, Idle
  <1>3. thr' = [thr EXCEPT ![s][t0] = T]
    BY DEF Spawn
  <1> QED BY <1>1, <1>2, <1>3, ThreadMoves

\* An ACK, or the end of a server, wakes threads and moves none.
LEMMA AckedType ==
  ASSUME NEW TT \in ThreadTables, NEW s, NEW c \in Conn
  PROVE  Acked(TT, s, c) \in ThreadTables
  <1>1. CASE Acked(TT, s, c) = TT
    BY <1>1
  <1>2. CASE Acked(TT, s, c) # TT
    <2> DEFINE T == [TT[c.srv][c.thr] EXCEPT !.ack = "acked"]
    <2>1. c.srv \in Server /\ c.thr \in ThreadId
      BY <1>2 DEF Acked, Conn
    <2>2. Acked(TT, s, c) = [TT EXCEPT ![c.srv][c.thr] = T]
      BY <1>2, <2>1 DEF Acked, ThreadTables
    <2>3. TT[c.srv][c.thr] \in Thread
      BY <2>1 DEF ThreadTables
    <2>4. T \in Thread /\ T.pc = TT[c.srv][c.thr].pc /\ T.bal = TT[c.srv][c.thr].bal
      BY <2>3 DEF Thread
    <2>5. TT[c.srv][c.thr].pc = "apply" => TT[c.srv][c.thr].bal \in Nat
      BY <2>1 DEF ThreadTables
    <2>6. T.pc = "apply" => T.bal \in Nat
      BY ONLY <2>4, <2>5
    <2> HIDE DEF T
    <2>7. [TT EXCEPT ![c.srv][c.thr] = T] \in ThreadTables
      BY <2>1, <2>4, <2>6, ThreadMoves
    <2> QED BY <2>2, <2>7
  <1> QED BY <1>1, <1>2

\* Connections closed by a process that goes down leave the table of
\* threads well typed (exit).
LEMMA HungUpType ==
  ASSUME NEW T \in Thread, NEW s
  PROVE  /\ HungUp(T, s) \in Thread
         /\ HungUp(T, s).pc = T.pc /\ HungUp(T, s).bal = T.bal
  BY DEF HungUp, Thread

\* A packet written to the connection of a server keeps the queues of
\* connections well typed (connect, write).
LEMMA ConnectType ==
  ASSUME tcp \in [Server -> Seq(Packet)], NEW s \in Server,
         NEW m \in Text \cup {Nothing}, NEW c \in Conn, Connect(s, m, c)
  PROVE  tcp' \in [Server -> Seq(Packet)]
  <1>1. [msg |-> m, conn |-> c] \in Packet
    BY PacketType
  <1>2. Append(tcp[s], [msg |-> m, conn |-> c]) \in Seq(Packet)
    BY <1>1
  <1> QED BY <1>2 DEF Connect

-----------------------------------------------------------------------------
(* The end of a server.                                                    *)

\* A server that goes down, at the end of its life time or by a signal,
\* keeps the invariant of the servers (Closesockets, exit).
LEMMA DownStep ==
  ASSUME ServerInv, NEW s \in Server, Down(s)
  PROVE  ServerInv'
  <1> USE ServerInvNow
  <1>1. thr' \in ThreadTables
    <2>1. thr' \in [Server -> [ThreadId -> Thread]]
      BY IdleType, HungUpType DEF Down, ThreadTables
    <2>2. ASSUME NEW p \in Server, NEW t \in ThreadId, thr'[p][t].pc = "apply"
          PROVE  thr'[p][t].bal \in Nat
      <3>1. CASE p = s
        BY <2>2, <3>1 DEF Down, Idle
      <3>2. CASE p # s
        <4>1. thr'[p][t] = HungUp(thr[p][t], s)
          BY <3>2 DEF Down
        <4>2. thr[p][t] \in Thread /\ (thr[p][t].pc = "apply" => thr[p][t].bal \in Nat)
          BY DEF ThreadTables
        <4>3. HungUp(thr[p][t], s).pc = thr[p][t].pc
              /\ HungUp(thr[p][t], s).bal = thr[p][t].bal
          BY <4>2, HungUpType
        <4> QED BY ONLY <2>2, <4>1, <4>2, <4>3
      <3> QED BY <3>1, <3>2
    <2> QED BY <2>1, <2>2 DEF ThreadTables
  <1>2. WireTypeOK'
    BY DEF Down, WireTypeOK
  <1>3. buf' \in [Server -> Text]
    BY BlankIsRequest, RawType DEF Down
  <1>4. args' \in [Server -> [Chan -> ArgsSet]]
    BY BlankIsRequest, NoConnType DEF Down, NoArgs, ArgsSet
  <1>5. job' \in [Server -> JobSet]
    BY DEF Down, NoJob, JobSet
  <1>6. /\ next' \in [Server -> Server \cup {NoServer}]
        /\ acct' \in [Server -> [Account -> Nat]]
        /\ applied' \in [Server -> [Id -> Nat]]
    BY DEF Down, NoBooks, NeverApplied
  <1>7. /\ sent' \in [Server -> SUBSET Request]
        /\ proc' \in [Server -> SUBSET Request]
        /\ msgCount' \in [Server -> Nat]
        /\ lossCount' \in [Server -> Nat]
    BY DEF Down
  <1> QED BY <1>1, <1>2, <1>3, <1>4, <1>5, <1>6, <1>7, ServerInvNext

-----------------------------------------------------------------------------
(* The select loop.                                                        *)

\* Taking a datagram from the socket keeps the queues well typed (recvfrom
\* in main).
LEMMA TakeDatagramType ==
  ASSUME ServerInv, NEW s \in Server, udp[s] # <<>>, TakeDatagram(s)
  PROVE  /\ Head(udp[s]) \in Text
         /\ udp' \in [Server -> Seq(Text)]
         /\ buf' \in [Server -> Text]
  <1>1. udp \in [Server -> Seq(Text)] /\ buf \in [Server -> Text]
    BY ServerInvNow DEF WireTypeOK
  <1>2. Head(udp[s]) \in Text /\ Tail(udp[s]) \in Seq(Text)
    BY <1>1
  <1> QED BY <1>1, <1>2 DEF TakeDatagram

\* The connection main accepts next carries a packet.
LEMMA HeadPacketType ==
  ASSUME ServerInv, NEW s \in Server, tcp[s] # <<>>
  PROVE  /\ Head(tcp[s]).msg # Nothing => Head(tcp[s]).msg \in Text
         /\ Head(tcp[s]).conn \in Conn
         /\ Tail(tcp[s]) \in Seq(Packet)
  <1>1. tcp \in [Server -> Seq(Packet)]
    BY ServerInvNow DEF WireTypeOK
  <1>2. Head(tcp[s]) \in Packet /\ Tail(tcp[s]) \in Seq(Packet)
    BY <1>1
  <1> QED BY <1>2 DEF Packet

\* Accepting a connection keeps the queues well typed (accept in main).
LEMMA TakePacketType ==
  ASSUME ServerInv, NEW s \in Server, tcp[s] # <<>>,
         Head(tcp[s]).msg # Nothing, TakePacket(s)
  PROVE  tcp' \in [Server -> Seq(Packet)] /\ buf' \in [Server -> Text]
  <1>1. tcp \in [Server -> Seq(Packet)] /\ buf \in [Server -> Text]
    BY ServerInvNow DEF WireTypeOK
  <1> QED BY <1>1, HeadPacketType DEF TakePacket

\* A notification of the master keeps the invariant of the servers
\* (Proc_master_notification).
LEMMA RecvNotificationStep ==
  ASSUME ServerInv, NEW s \in Server, RecvNotification(s)
  PROVE  ServerInv'
  <1> USE ServerInvNow
  <1> DEFINE n == Head(udp[s])
  <1>1. /\ n \in Text
        /\ udp' \in [Server -> Seq(Text)]
        /\ buf' \in [Server -> Text]
    BY TakeDatagramType DEF RecvNotification, Datagram
  <1>2. n.port \in Server \cup {NoServer}
    BY <1>1 DEF RecvNotification, Text, RequestText, NotiText, NotiKind
  <1>3. next' \in [Server -> Server \cup {NoServer}]
    BY <1>2 DEF RecvNotification
  <1>4. job' \in [Server -> JobSet]
    BY DEF RecvNotification, SyncJob, JobSet, NoJob
  <1>5. WireTypeOK'
    BY <1>1 DEF RecvNotification, WireTypeOK
  <1> QED BY <1>1, <1>3, <1>4, <1>5, ServerInvNext DEF RecvNotification, books

\* A request dropped by the simulated loss keeps the invariant of the
\* servers.
LEMMA DropRequestStep ==
  ASSUME ServerInv, NEW s \in Server, DropRequest(s)
  PROVE  ServerInv'
  <1> USE ServerInvNow
  <1>1. udp' \in [Server -> Seq(Text)] /\ buf' \in [Server -> Text]
    BY TakeDatagramType DEF DropRequest, RequestWaiting, Datagram
  <1>2. lossCount' \in [Server -> Nat]
    BY DEF DropRequest
  <1>3. WireTypeOK'
    BY <1>1 DEF DropRequest, WireTypeOK
  <1> QED BY <1>1, <1>2, <1>3, ServerInvNext DEF DropRequest, books

\* A request of a client, for which main starts a thread, keeps the
\* invariant of the servers.
LEMMA RecvRequestStep ==
  ASSUME ServerInv, NEW s \in Server, RecvRequest(s)
  PROVE  ServerInv'
  <1> USE ServerInvNow
  <1>1. /\ Head(udp[s]) \in Text
        /\ udp' \in [Server -> Seq(Text)]
        /\ buf' \in [Server -> Text]
    BY TakeDatagramType DEF RecvRequest, RequestWaiting, Datagram
  <1>2. lossCount' \in [Server -> Nat] /\ msgCount' \in [Server -> Nat]
    BY DEF RecvRequest
  <1>3. args' \in [Server -> [Chan -> ArgsSet]]
    <2>1. [req |-> Parse(Head(udp[s])), conn |-> NoConn] \in ArgsSet
      BY <1>1, ParseType, NoConnType DEF ArgsSet
    <2> QED BY <2>1 DEF RecvRequest
  <1>4. thr' \in ThreadTables
    BY SpawnType DEF RecvRequest, Chan
  <1>5. WireTypeOK'
    BY <1>1 DEF RecvRequest, WireTypeOK
  <1> QED BY <1>1, <1>2, <1>3, <1>4, <1>5, ServerInvNext DEF RecvRequest, books

\* A request of the previous server keeps the invariant of the servers
\* (main, accept).
LEMMA AcceptRequestStep ==
  ASSUME ServerInv, NEW s \in Server, AcceptRequest(s)
  PROVE  ServerInv'
  <1> USE ServerInvNow
  <1>1. tcp' \in [Server -> Seq(Packet)] /\ buf' \in [Server -> Text]
    BY TakePacketType DEF AcceptRequest, Accepts
  <1>2. msgCount' \in [Server -> Nat]
    BY DEF AcceptRequest
  <1>3. args' \in [Server -> [Chan -> ArgsSet]]
    <2>1. Head(tcp[s]).msg \in Text /\ Head(tcp[s]).conn \in Conn
      BY HeadPacketType DEF AcceptRequest, Accepts
    <2>2. [req |-> Parse(Head(tcp[s]).msg), conn |-> Head(tcp[s]).conn] \in ArgsSet
      BY <2>1, ParseType DEF ArgsSet
    <2> QED BY <2>2 DEF AcceptRequest
  <1>4. thr' \in ThreadTables
    BY SpawnType DEF AcceptRequest, Chan
  <1>5. WireTypeOK'
    BY <1>1 DEF AcceptRequest, WireTypeOK
  <1> QED BY <1>1, <1>2, <1>3, <1>4, <1>5, ServerInvNext DEF AcceptRequest, books

\* A request of the previous server's sentTrans, passed on, keeps the
\* invariant of the servers (Sync_Sent).
LEMMA AcceptSyncSentStep ==
  ASSUME ServerInv, NEW s \in Server, AcceptSyncSent(s)
  PROVE  ServerInv'
  <1> USE ServerInvNow
  <1> DEFINE m == Head(tcp[s]).msg
             rest == [tcp EXCEPT ![s] = Tail(@)]
  <1>1. m \in Text /\ Tail(tcp[s]) \in Seq(Packet)
    BY HeadPacketType DEF AcceptSyncSent, Accepts
  <1>2. rest \in [Server -> Seq(Packet)]
    BY <1>1 DEF WireTypeOK
  <1>3. tcp' \in [Server -> Seq(Packet)]
    <2>1. CASE isTail(s)
      BY <1>2, <2>1 DEF AcceptSyncSent
    <2>2. CASE ~isTail(s)
      <3>1. next[s] \in Server
        BY <2>2 DEF AcceptSyncSent, NextUp
      <3>2. [msg |-> m, conn |-> NoConn] \in Packet
        BY <1>1, NoConnType, PacketType
      <3>3. Append(rest[next[s]], [msg |-> m, conn |-> NoConn]) \in Seq(Packet)
        BY <1>2, <3>1, <3>2
      <3>4. tcp' = [rest EXCEPT ![next[s]] =
                       Append(@, [msg |-> m, conn |-> NoConn])]
        BY <2>2 DEF AcceptSyncSent
      <3> HIDE DEF rest, m
      <3> QED BY <1>2, <3>1, <3>3, <3>4
    <2> QED BY <2>1, <2>2
  <1>4. buf' \in [Server -> Text]
    BY <1>1 DEF AcceptSyncSent
  <1>5. sent' \in [Server -> SUBSET Request]
    <2>1. AddsentTrans(Parse(m), sent[s]) \in SUBSET Request
      BY <1>1, ParseType, AddType
    <2> QED BY <2>1 DEF AcceptSyncSent
  <1>6. WireTypeOK'
    BY <1>3 DEF AcceptSyncSent, WireTypeOK
  <1> QED BY <1>4, <1>5, <1>6, ServerInvNext DEF AcceptSyncSent

\* The same when the server has no next to pass it on to (Sync_Sent).
LEMMA AcceptSyncSentNoNextStep ==
  ASSUME ServerInv, NEW s \in Server, AcceptSyncSentNoNext(s)
  PROVE  ServerInv'
  <1> USE ServerInvNow
  <1> DEFINE m == Head(tcp[s]).msg
  <1>1. CASE Down(s)
    BY <1>1, DownStep
  <1>2. CASE ~Down(s)
    <2>1. tcp' \in [Server -> Seq(Packet)] /\ buf' \in [Server -> Text]
      BY <1>2, TakePacketType DEF AcceptSyncSentNoNext, Accepts
    <2>2. m \in Text
      BY HeadPacketType DEF AcceptSyncSentNoNext, Accepts
    <2>3. AddsentTrans(Parse(m), sent[s]) \in SUBSET Request
      BY <2>2, ParseType, AddType
    <2>4. sent' \in [Server -> SUBSET Request]
      BY <1>2, <2>3 DEF AcceptSyncSentNoNext
    <2>5. WireTypeOK'
      BY <1>2, <2>1 DEF AcceptSyncSentNoNext, WireTypeOK
    <2> QED BY <1>2, <2>1, <2>4, <2>5, ServerInvNext DEF AcceptSyncSentNoNext
  <1> QED BY <1>1, <1>2

\* ProcReq on a replayed deposit or withdrawal keeps the balances well
\* typed and non-negative.
LEMMA CreditType ==
  ASSUME ServerInv, NEW s \in Server, NEW r \in Request, NEW b \in Nat,
         Credit(s, r, b)
  PROVE  /\ acct' \in [Server -> [Account -> Nat]]
         /\ applied' \in [Server -> [Id -> Nat]]
  <1>1. acct \in [Server -> [Account -> Nat]] /\ applied \in [Server -> [Id -> Nat]]
    BY ServerInvNow
  <1>2. r.acct \in Account /\ r.id \in Id
    BY DEF Request
  <1> QED BY <1>1, <1>2 DEF Credit

\* A replayed request of the previous server's procTrans keeps the
\* invariant of the servers (Sync_Hist).
LEMMA AcceptSyncProcStep ==
  ASSUME ServerInv, NEW s \in Server, AcceptSyncProc(s)
  PROVE  ServerInv'
  <1> USE ServerInvNow
  <1> DEFINE r == Parse(Head(tcp[s]).msg)
             cur == acct[s][r.acct]
             added == AddsentTrans(r, sent[s])
             hist == CheckHist(r, proc[s])
  <1>1. r \in Request
    BY HeadPacketType, ParseType DEF AcceptSyncProc, Accepts
  <1>2. cur \in Nat
    BY <1>1 DEF Request
  <1>3. tcp' \in [Server -> Seq(Packet)] /\ buf' \in [Server -> Text]
    BY TakePacketType DEF AcceptSyncProc, Accepts
  <1>4. /\ acct' \in [Server -> [Account -> Nat]]
        /\ applied' \in [Server -> [Id -> Nat]]
    <2>1. CASE Applies(r, hist, cur)
      <3>1. Credit(s, r, NewBal(r, cur))
        BY <2>1 DEF AcceptSyncProc
      <3>2. NewBal(r, cur) \in Nat
        BY <1>1, <1>2, <2>1, NewBalType
      <3> HIDE DEF r, cur
      <3> QED BY <1>1, <3>1, <3>2, CreditType
    <2>2. CASE ~Applies(r, hist, cur)
      BY <2>2 DEF AcceptSyncProc
    <2> QED BY <2>1, <2>2
  <1>5. added \in SUBSET Request
    BY <1>1, AddType
  <1>6. /\ AckSent(r, added) \in SUBSET Request
        /\ AckProc(r, added, proc[s]) \in SUBSET Request
    BY <1>1, <1>5, AddType
  <1>7. /\ sent' \in [Server -> SUBSET Request]
        /\ proc' \in [Server -> SUBSET Request]
    BY <1>6 DEF AcceptSyncProc
  <1>8. WireTypeOK'
    BY <1>3 DEF AcceptSyncProc, WireTypeOK
  <1> QED BY <1>3, <1>4, <1>7, <1>8, ServerInvNext DEF AcceptSyncProc

\* Every step of the select loop of main keeps the invariant of the
\* servers.
LEMMA MainLoopStep ==
  ASSUME ServerInv, NEW s \in Server, MainLoop(s)
  PROVE  ServerInv'
  <1>1. CASE ExpireOnRequest(s) \/ ExpireOnAccept(s)
    BY <1>1, DownStep DEF ExpireOnRequest, ExpireOnAccept
  <1> QED
    BY <1>1, RecvNotificationStep, DropRequestStep, RecvRequestStep,
       AcceptRequestStep, AcceptSyncSentStep, AcceptSyncSentNoNextStep,
       AcceptSyncProcStep
       DEF MainLoop

-----------------------------------------------------------------------------
(* The synchronization of a new next server.                               *)

\* Pushing one request of sentTrans to a new next server keeps the
\* invariant (Sync_sentTrans).
LEMMA SyncSentTransStep ==
  ASSUME ServerInv, NEW s \in Server, SyncSentTrans(s)
  PROVE  ServerInv'
  <1> USE ServerInvNow
  <1>1. PICK r \in Unsent(s) : /\ Connect(next[s], Push("SyncSent", r), NoConn)
                              /\ job' = [job EXCEPT ![s].sent = @ \cup {r}]
    BY DEF SyncSentTrans
  <1>2. job[s] \in JobSet /\ next[s] \in Server
    BY DEF SyncSentTrans, NextUp
  <1>3. r \in Request
    BY DEF Unsent
  <1>4. tcp' \in [Server -> Seq(Packet)]
    BY <1>1, <1>2, <1>3, PushType, NoConnType, ConnectType DEF WireTypeOK
  <1>5. job' \in [Server -> JobSet]
    <2>1. [job[s] EXCEPT !.sent = @ \cup {r}] \in JobSet
      BY <1>2, <1>3 DEF JobSet
    <2> QED BY <1>1, <2>1
  <1>6. WireTypeOK'
    BY <1>4 DEF SyncSentTrans, WireTypeOK
  <1> QED BY <1>5, <1>6, ServerInvNext DEF SyncSentTrans, books

\* Pushing one request of procTrans to a new next server keeps the
\* invariant (Sync_procTrans).
LEMMA SyncProcTransStep ==
  ASSUME ServerInv, NEW s \in Server, SyncProcTrans(s)
  PROVE  ServerInv'
  <1> USE ServerInvNow
  <1>1. PICK r \in Ahead(s) : /\ Connect(next[s], Push("SyncProc", r), NoConn)
                             /\ job' = [job EXCEPT ![s].last = Rank[r.id]]
    BY DEF SyncProcTrans
  <1>2. job[s] \in JobSet /\ next[s] \in Server
    BY DEF SyncProcTrans, NextUp
  <1>3. r \in Request
    BY DEF Ahead
  <1>4. tcp' \in [Server -> Seq(Packet)]
    BY <1>1, <1>2, <1>3, PushType, NoConnType, ConnectType DEF WireTypeOK
  <1>5. job' \in [Server -> JobSet]
    <2>1. Rank[r.id] \in Nat
      BY <1>3, LedgerAssumption DEF Request
    <2>2. [job[s] EXCEPT !.last = Rank[r.id]] \in JobSet
      BY <1>2, <2>1 DEF JobSet
    <2> QED BY <1>1, <2>2
  <1>6. WireTypeOK'
    BY <1>4 DEF SyncProcTrans, WireTypeOK
  <1> QED BY <1>5, <1>6, ServerInvNext DEF SyncProcTrans, books

\* The end of the iteration over sentTrans keeps the invariant
\* (Sync_sentTrans).
LEMMA SyncSentEndStep ==
  ASSUME ServerInv, NEW s \in Server, SyncSentEnd(s)
  PROVE  ServerInv'
  <1> USE ServerInvNow
  <1>1. job' \in [Server -> JobSet]
    <2>1. [job[s] EXCEPT !.walk = FALSE] \in JobSet
      BY DEF JobSet
    <2> QED BY <2>1 DEF SyncSentEnd
  <1>2. WireTypeOK'
    BY DEF SyncSentEnd, WireTypeOK, wireVars
  <1> QED BY <1>1, <1>2, ServerInvNext DEF SyncSentEnd, books

\* The end of a synchronization keeps the invariant (Pthread_join in main).
LEMMA SyncDoneStep ==
  ASSUME ServerInv, NEW s \in Server, SyncDone(s)
  PROVE  ServerInv'
  <1> USE ServerInvNow
  <1>1. job' \in [Server -> JobSet]
    BY DEF SyncDone, JobSet, NoJob
  <1>2. WireTypeOK'
    BY DEF SyncDone, WireTypeOK, wireVars
  <1> QED BY <1>1, <1>2, ServerInvNext DEF SyncDone, books

-----------------------------------------------------------------------------
(* The threads.                                                            *)

\* Whatever a thread reads of the shared buffer and argument of main has
\* the type of an argument (struct ARGS).
LEMMA ArgsType ==
  ASSUME ServerInv, NEW s \in Server, NEW t \in ThreadId
  PROVE  /\ thr[s][t] \in Thread
         /\ thr[s][t].pc = "apply" => thr[s][t].bal \in Nat
         /\ Args(s, t).req \in Request /\ Args(s, t).conn \in Conn
  <1>1. thr[s][t] \in Thread /\ (thr[s][t].pc = "apply" => thr[s][t].bal \in Nat)
    BY ServerInvNow DEF ThreadTables
  <1>2. thr[s][t].chan \in Chan
    BY <1>1 DEF Thread
  <1>3. Args(s, t) \in ArgsSet
    BY <1>2, ServerInvNow DEF Args
  <1> QED BY <1>1, <1>3 DEF ArgsSet

\* What is left to show of a thread that changes nothing but its own table.
LEMMA ThreadOnly ==
  ASSUME ServerInv, thr' \in ThreadTables,
         UNCHANGED <<wireVars, next, books, buf, args, job, msgCount, lossCount>>
  PROVE  ServerInv'
  <1> USE ServerInvNow
  <1>1. WireTypeOK'
    BY DEF WireTypeOK, wireVars
  <1> QED BY <1>1, ServerInvNext DEF books

\* A thread that forwards its request to the next server keeps the
\* invariant (Sync).
LEMMA SyncConnectStep ==
  ASSUME ServerInv, NEW s \in Server, NEW t \in ThreadId, SyncConnect(s, t)
  PROVE  ServerInv'
  <1> USE ServerInvNow
  <1>1. CASE NextUp(s)
    <2> DEFINE T == [thr[s][t] EXCEPT !.pc = "add", !.peer = next[s]]
    <2>1. /\ Connect(next[s], buf[s], [srv |-> s, thr |-> t])
          /\ thr' = [thr EXCEPT ![s][t].pc = "add", ![s][t].peer = next[s]]
      BY <1>1 DEF SyncConnect
    <2>2. thr[s][t] \in Thread
      BY ArgsType
    <2>3. T \in Thread /\ T.pc # "apply"
      BY <2>2 DEF Thread, Pc
    <2>4. thr' = [thr EXCEPT ![s][t] = T]
      BY <2>1 DEF ThreadTables
    <2>5. thr' \in ThreadTables
      BY <2>3, <2>4, ThreadMoves
    <2>6. [srv |-> s, thr |-> t] \in Conn
      BY DEF Conn
    <2>7. next[s] \in Server /\ buf[s] \in Text
      BY <1>1 DEF NextUp
    <2>8. tcp' \in [Server -> Seq(Packet)]
      BY <2>1, <2>6, <2>7, ConnectType DEF WireTypeOK
    <2>9. WireTypeOK'
      BY <2>8 DEF SyncConnect, WireTypeOK
    <2> QED BY <2>5, <2>9, ServerInvNext DEF SyncConnect, books
  <1>2. CASE ~NextUp(s)
    <2>1. thr' \in ThreadTables
      BY <1>2, EndsType DEF SyncConnect
    <2> QED BY <1>2, <2>1, ThreadOnly DEF SyncConnect, wireVars
  <1> QED BY <1>1, <1>2

\* A thread that enters its request in sentTrans keeps the invariant (Sync,
\* AddsentTrans).
LEMMA SyncAddStep ==
  ASSUME ServerInv, NEW s \in Server, NEW t \in ThreadId, SyncAdd(s, t)
  PROVE  ServerInv'
  <1> USE ServerInvNow
  <1>1. AddsentTrans(Args(s, t).req, sent[s]) \in SUBSET Request
    BY ArgsType, AddType
  <1>2. sent' \in [Server -> SUBSET Request]
    BY <1>1 DEF SyncAdd
  <1>3. thr' \in ThreadTables
    BY GotoType DEF SyncAdd, Pc
  <1>4. WireTypeOK'
    BY DEF SyncAdd, WireTypeOK, wireVars
  <1> QED BY <1>2, <1>3, <1>4, ServerInvNext DEF SyncAdd

\* A thread that reads an ACK and looks up its request keeps the invariant,
\* what it has looked up included (Sync, ProcReq).
LEMMA SyncAckedStep ==
  ASSUME ServerInv, NEW s \in Server, NEW t \in ThreadId, SyncAcked(s, t)
  PROVE  ServerInv'
  <1> USE ServerInvNow
  <1> DEFINE T == [Idle EXCEPT !.pc = "check", !.role = "Sync",
                      !.chan = thr[s][t].chan, !.req = Args(s, t).req]
  <1>1. thr[s][t].chan \in Chan /\ Args(s, t).req \in Request /\ Args(s, t).conn \in Conn
    BY ArgsType DEF Thread
  <1>2. Acked(thr, s, Args(s, t).conn) \in ThreadTables
    BY <1>1, AckedType
  <1>3. T \in Thread /\ T.pc # "apply"
    BY <1>1, IdleType DEF Thread, Pc, Idle
  <1>4. thr' = [Acked(thr, s, Args(s, t).conn) EXCEPT ![s][t] = T]
    BY DEF SyncAcked
  <1> HIDE DEF T
  <1>5. thr' \in ThreadTables
    BY <1>2, <1>3, <1>4, ThreadMoves
  <1> QED BY <1>5, ThreadOnly DEF SyncAcked

\* A Reply thread that has found the address of the client keeps the
\* invariant (Reply, ParseIpaddr).
LEMMA ReplyStartStep ==
  ASSUME ServerInv, NEW s \in Server, NEW t \in ThreadId, ReplyStart(s, t)
  PROVE  ServerInv'
  <1> USE ServerInvNow
  <1> DEFINE T == [thr[s][t] EXCEPT !.pc = "check", !.req = Args(s, t).req,
                      !.dest = Address(buf[s])]
  <1>1. thr[s][t] \in Thread /\ Args(s, t).req \in Request
    BY ArgsType
  <1>2. Address(buf[s]) \in Client \cup {NoClient}
    BY AddressType
  <1>3. T \in Thread /\ T.pc # "apply"
    BY <1>1, <1>2 DEF Thread, Pc
  <1>4. thr' = [thr EXCEPT ![s][t] = T]
    BY DEF ReplyStart, ThreadTables
  <1>5. thr' \in ThreadTables
    BY <1>3, <1>4, ThreadMoves
  <1> QED BY <1>5, ThreadOnly DEF ReplyStart

\* The one place where a balance is looked up.
LEMMA ProcCheckStep ==
  ASSUME ServerInv, NEW s \in Server, NEW t \in ThreadId, ProcCheck(s, t)
  PROVE  ServerInv'
  <1> USE ServerInvNow
  <1> DEFINE r == thr[s][t].req
             T == [thr[s][t] EXCEPT !.pc = "apply", !.hist = CheckHist(r, proc[s]),
                      !.bal = acct[s][r.acct]]
  <1>1. thr[s][t] \in Thread
    BY ArgsType
  <1>2. r \in Request
    BY <1>1 DEF Thread
  <1>3. acct[s][r.acct] \in Nat
    BY <1>2 DEF Request
  <1>4. CheckHist(r, proc[s]) \in {"New", "Inconsistent", "Duplicate"}
    BY DEF CheckHist
  <1>5. T \in Thread /\ T.bal \in Nat
    BY <1>1, <1>3, <1>4 DEF Thread, Pc, Balance
  <1>6. thr' = [thr EXCEPT ![s][t] = T]
    BY DEF ProcCheck, ThreadTables
  <1> HIDE DEF T
  <1>7. thr' \in ThreadTables
    BY <1>5, <1>6, ThreadMoves
  <1> QED BY <1>7, ThreadOnly DEF ProcCheck

\* The one place where a thread writes a balance: it is computed from what
\* ProcCheck looked up, however the account has changed since.
LEMMA ProcApplyStep ==
  ASSUME ServerInv, NEW s \in Server, NEW t \in ThreadId, ProcApply(s, t)
  PROVE  ServerInv'
  <1> USE ServerInvNow
  <1> DEFINE T == thr[s][t]
             pc == IF T.role = "Reply" THEN "send" ELSE "hist"
  <1>1. PICK o \in Outcomes(T.req, T.hist, T.bal) :
           thr' = [thr EXCEPT ![s][t].pc = pc, ![s][t].outcome = o,
                              ![s][t].bal = ReplyBal(T.req, T.hist, T.bal)]
    BY DEF ProcApply
  <1>2. T \in Thread /\ T.bal \in Nat
    BY ArgsType DEF ProcApply, At
  <1>3. T.req \in Request
    BY <1>2 DEF Thread
  <1>4. o \in Outcome
    BY <1>1, OutcomesType
  <1>5. ReplyBal(T.req, T.hist, T.bal) \in Balance
    BY <1>2, <1>3, ReplyBalType
  <1> DEFINE U == [T EXCEPT !.pc = pc, !.outcome = o,
                      !.bal = ReplyBal(T.req, T.hist, T.bal)]
  <1>6. U \in Thread /\ U.pc # "apply"
    BY <1>2, <1>4, <1>5 DEF Thread, Pc
  <1>7. thr' = [thr EXCEPT ![s][t] = U]
    BY <1>1 DEF ThreadTables
  <1> HIDE DEF U
  <1>8. thr' \in ThreadTables
    BY <1>6, <1>7, ThreadMoves
  <1>9. /\ acct' \in [Server -> [Account -> Nat]]
        /\ applied' \in [Server -> [Id -> Nat]]
    <2>1. CASE Applies(T.req, T.hist, T.bal)
      <3>1. Credit(s, T.req, NewBal(T.req, T.bal))
        BY <2>1 DEF ProcApply
      <3>2. NewBal(T.req, T.bal) \in Nat
        BY <1>2, <1>3, <2>1, NewBalType
      <3> QED BY <1>3, <3>1, <3>2, CreditType
    <2>2. CASE ~Applies(T.req, T.hist, T.bal)
      BY <2>2 DEF ProcApply
    <2> QED BY <2>1, <2>2
  <1>10. WireTypeOK'
    BY DEF ProcApply, WireTypeOK, wireVars
  <1> QED BY <1>8, <1>9, <1>10, ServerInvNext DEF ProcApply

\* A reply sent to the client keeps the invariant (Reply, Sendto).
LEMMA ReplySendStep ==
  ASSUME ServerInv, NEW s \in Server, NEW t \in ThreadId, ReplySend(s, t)
  PROVE  ServerInv'
  <1> USE ServerInvNow
  <1> DEFINE T == thr[s][t]
             m == Reply(T.req.id, T.outcome, T.bal)
  <1>1. T \in Thread
    BY ArgsType
  <1>2. m \in ReplyText
    BY <1>1 DEF Thread, Request, Reply, ReplyText
  <1>3. inbox \in Seq(ReplyText \cup NotiText)
    BY DEF WireTypeOK
  <1>4. inbox' \in Seq(ReplyText \cup NotiText)
    BY <1>2, <1>3 DEF ReplySend, ToClient
  <1>5. thr' \in ThreadTables
    BY GotoType DEF ReplySend, Pc
  <1>6. WireTypeOK'
    BY <1>4 DEF ReplySend, WireTypeOK
  <1> QED BY <1>5, <1>6, ServerInvNext DEF ReplySend, books

\* A request that the tail enters in its history keeps the invariant
\* (Reply, AckHist).
LEMMA ReplyHistStep ==
  ASSUME ServerInv, NEW s \in Server, NEW t \in ThreadId, ReplyHist(s, t)
  PROVE  ServerInv'
  <1> USE ServerInvNow
  <1> DEFINE r == Args(s, t).req
             added == AddsentTrans(r, sent[s])
  <1>1. r \in Request
    BY ArgsType
  <1>2. added \in SUBSET Request
    BY <1>1, AddType
  <1>3. /\ AckSent(r, added) \in SUBSET Request
        /\ AckProc(r, added, proc[s]) \in SUBSET Request
    BY <1>1, <1>2, AddType
  <1>4. /\ sent' \in [Server -> SUBSET Request]
        /\ proc' \in [Server -> SUBSET Request]
    BY <1>3 DEF ReplyHist
  <1>5. thr' \in ThreadTables
    BY GotoType DEF ReplyHist, Pc
  <1>6. WireTypeOK'
    BY DEF ReplyHist, WireTypeOK, wireVars
  <1> QED BY <1>4, <1>5, <1>6, ServerInvNext DEF ReplyHist

\* A request that a server enters in its history after an ACK keeps the
\* invariant (Sync, AckHist).
LEMMA SyncHistStep ==
  ASSUME ServerInv, NEW s \in Server, NEW t \in ThreadId, SyncHist(s, t)
  PROVE  ServerInv'
  <1> USE ServerInvNow
  <1> DEFINE r == Args(s, t).req
  <1>1. r \in Request
    BY ArgsType
  <1>2. /\ AckSent(r, sent[s]) \in SUBSET Request
        /\ AckProc(r, sent[s], proc[s]) \in SUBSET Request
    BY <1>1, AddType
  <1>3. /\ sent' \in [Server -> SUBSET Request]
        /\ proc' \in [Server -> SUBSET Request]
    BY <1>2 DEF SyncHist
  <1>4. thr' \in ThreadTables
    BY EndsType DEF SyncHist
  <1>5. WireTypeOK'
    BY DEF SyncHist, WireTypeOK, wireVars
  <1> QED BY <1>3, <1>4, <1>5, ServerInvNext DEF SyncHist

\* The ACK of the tail keeps the invariant (Reply, write).
LEMMA ReplyAckStep ==
  ASSUME ServerInv, NEW s \in Server, NEW t \in ThreadId, ReplyAck(s, t)
  PROVE  ServerInv'
  <1> USE ServerInvNow
  <1>1. Acked(thr, s, Args(s, t).conn) \in ThreadTables
    BY ArgsType, AckedType
  <1>2. thr' = [Acked(thr, s, Args(s, t).conn) EXCEPT ![s][t] = Idle]
    BY DEF ReplyAck
  <1>3. thr' \in ThreadTables
    BY <1>1, <1>2, IdleType, ThreadMoves DEF Idle
  <1> QED BY <1>3, ThreadOnly DEF ReplyAck

\* Every step of a Sync or Reply thread keeps the invariant of the servers.
LEMMA ThreadsStep ==
  ASSUME ServerInv, NEW s \in Server, NEW t \in ThreadId, ThreadStep(s, t)
  PROVE  ServerInv'
  <1>1. CASE SyncNullNext(s, t) \/ ReplyNowhere(s, t)
    BY <1>1, DownStep DEF SyncNullNext, ReplyNowhere
  <1>2. CASE SyncEof(s, t)
    <2>1. thr' \in ThreadTables
      BY <1>2, ServerInvNow, EndsType DEF SyncEof
    <2> QED BY <1>2, <2>1, ThreadOnly DEF SyncEof
  <1> QED
    BY <1>1, <1>2, SyncConnectStep, SyncAddStep, SyncAckedStep, SyncHistStep,
       ReplyStartStep, ProcCheckStep, ProcApplyStep, ReplySendStep,
       ReplyHistStep, ReplyAckStep
       DEF ThreadStep

-----------------------------------------------------------------------------
(* Main and the threads while they overlap.                                *)

\* The thread for Sync_Hist keeps the table well typed (Pthread_create).
LEMMA HistThreadType ==
  ASSUME thr \in ThreadTables, NEW s \in Server, NEW m \in Text, HistThread(s, m)
  PROVE  thr' \in ThreadTables
  <1> DEFINE free == {t \in ThreadId : thr[s][t].pc = "idle"}
             t0 == CHOOSE t \in free : TRUE
             T == [Idle EXCEPT !.pc = "check", !.role = "Hist", !.req = Parse(m)]
  <1>1. t0 \in ThreadId
    BY DEF HistThread
  <1>2. T \in Thread /\ T.pc # "apply"
    BY IdleType, ParseType DEF Thread, Pc, Idle
  <1>3. thr' = [thr EXCEPT ![s][t0] = T]
    BY DEF HistThread
  <1> QED BY <1>1, <1>2, <1>3, ThreadMoves

\* A request of procTrans that a thread is started for, and an empty
\* connection, keep the invariant of the servers (main, accept and read).
LEMMA MainOverlapStep ==
  ASSUME ServerInv, NEW s \in Server, MainOverlap(s)
  PROVE  ServerInv'
  <1> USE ServerInvNow
  <1> DEFINE rest == [tcp EXCEPT ![s] = Tail(@)]
  <1>0. CASE EmptyDown(s)
    BY <1>0, DownStep DEF EmptyDown
  <1>1. CASE ~EmptyDown(s)
    <2>1. /\ rest \in [Server -> Seq(Packet)]
          /\ Head(tcp[s]).conn \in Conn
          /\ buf[s] \in Text /\ Parse(buf[s]) \in Request
      BY <1>1, HeadPacketType, ParseType
         DEF MainOverlap, StartSyncHist, EmptyRequest, EmptySyncSent,
             EmptySyncHist, Accepts, ReadsNothing, WireTypeOK
    <2>2. CASE StartSyncHist(s)
      <3>1. tcp' \in [Server -> Seq(Packet)] /\ buf' \in [Server -> Text]
        BY <2>2, TakePacketType DEF StartSyncHist, Accepts
      <3>2. thr' \in ThreadTables
        BY <2>2, HeadPacketType, HistThreadType DEF StartSyncHist, Accepts
      <3>3. WireTypeOK'
        BY <2>2, <3>1 DEF StartSyncHist, WireTypeOK
      <3> QED BY <2>2, <3>1, <3>2, <3>3, ServerInvNext DEF StartSyncHist, books
    <2>3. CASE EmptyRequest(s)
      <3>1. args' \in [Server -> [Chan -> ArgsSet]]
        <4>1. [req |-> Parse(buf[s]), conn |-> Head(tcp[s]).conn] \in ArgsSet
          BY <2>1 DEF ArgsSet
        <4> QED BY <2>3, <4>1 DEF EmptyRequest
      <3>2. thr' \in ThreadTables
        BY <2>3, SpawnType DEF EmptyRequest, Chan
      <3>3. WireTypeOK'
        BY <2>1, <2>3 DEF EmptyRequest, WireTypeOK
      <3>4. msgCount' \in [Server -> Nat]
        BY <2>3 DEF EmptyRequest
      <3> QED BY <2>3, <3>1, <3>2, <3>3, <3>4, ServerInvNext DEF EmptyRequest, books
    <2>4. CASE EmptySyncSent(s)
      <3>1. tcp' \in [Server -> Seq(Packet)]
        <4>1. CASE NextUp(s)
          <5>1. next[s] \in Server
            BY <4>1 DEF NextUp
          <5>2. [msg |-> buf[s], conn |-> NoConn] \in Packet
            BY <2>1, NoConnType, PacketType
          <5>3. Append(rest[next[s]], [msg |-> buf[s], conn |-> NoConn]) \in Seq(Packet)
            BY <2>1, <5>1, <5>2
          <5>4. tcp' = [rest EXCEPT ![next[s]] =
                           Append(@, [msg |-> buf[s], conn |-> NoConn])]
            BY <2>4, <4>1 DEF EmptySyncSent
          <5> HIDE DEF rest
          <5> QED BY <2>1, <5>1, <5>3, <5>4
        <4>2. CASE ~NextUp(s)
          BY <2>1, <2>4, <4>2 DEF EmptySyncSent
        <4> QED BY <4>1, <4>2
      <3>2. AddsentTrans(Parse(buf[s]), sent[s]) \in SUBSET Request
        BY <2>1, AddType
      <3>3. sent' \in [Server -> SUBSET Request]
        BY <2>4, <3>2 DEF EmptySyncSent
      <3>4. WireTypeOK'
        BY <2>4, <3>1 DEF EmptySyncSent, WireTypeOK
      <3> QED BY <2>4, <3>3, <3>4, ServerInvNext DEF EmptySyncSent
    <2>5. CASE EmptySyncHist(s)
      <3>1. thr' \in ThreadTables
        BY <2>1, <2>5, HistThreadType DEF EmptySyncHist
      <3>2. WireTypeOK'
        BY <2>1, <2>5 DEF EmptySyncHist, WireTypeOK
      <3> QED BY <2>5, <3>1, <3>2, ServerInvNext DEF EmptySyncHist, books
    <2> QED BY <1>1, <2>2, <2>3, <2>4, <2>5 DEF MainOverlap
  <1> QED BY <1>0, <1>1

\* A connection that is open and not yet written to keeps the invariant
\* (Sync, connect).
LEMMA SyncOpenStep ==
  ASSUME ServerInv, NEW s \in Server, NEW t \in ThreadId, SyncOpen(s, t)
  PROVE  ServerInv'
  <1> USE ServerInvNow
  <1>1. CASE NextUp(s)
    <2> DEFINE T == [thr[s][t] EXCEPT !.pc = "write", !.peer = next[s]]
    <2>1. /\ Connect(next[s], Nothing, [srv |-> s, thr |-> t])
          /\ thr' = [thr EXCEPT ![s][t].pc = "write", ![s][t].peer = next[s]]
      BY <1>1 DEF SyncOpen
    <2>2. thr[s][t] \in Thread
      BY ArgsType
    <2>3. T \in Thread /\ T.pc # "apply"
      BY <2>2 DEF Thread, Pc
    <2>4. thr' = [thr EXCEPT ![s][t] = T]
      BY <2>1 DEF ThreadTables
    <2>5. thr' \in ThreadTables
      BY <2>3, <2>4, ThreadMoves
    <2>6. [srv |-> s, thr |-> t] \in Conn
      BY DEF Conn
    <2>7. next[s] \in Server
      BY <1>1 DEF NextUp
    <2>8. tcp' \in [Server -> Seq(Packet)]
      BY <2>1, <2>6, <2>7, ConnectType DEF WireTypeOK
    <2>9. WireTypeOK'
      BY <2>8 DEF SyncOpen, WireTypeOK
    <2> QED BY <2>5, <2>9, ServerInvNext DEF SyncOpen, books
  <1>2. CASE ~NextUp(s)
    <2>1. thr' \in ThreadTables
      BY <1>2, EndsType DEF SyncOpen
    <2> QED BY <1>2, <2>1, ThreadOnly DEF SyncOpen, wireVars
  <1> QED BY <1>1, <1>2

\* What is written on an open connection keeps the invariant (Sync, write).
LEMMA SyncWriteStep ==
  ASSUME ServerInv, NEW s \in Server, NEW t \in ThreadId, SyncWrite(s, t)
  PROVE  ServerInv'
  <1> USE ServerInvNow
  <1> DEFINE p == thr[s][t].peer
             c == [srv |-> s, thr |-> t]
             written(q) == IF q.msg = Nothing /\ q.conn = c
                           THEN [q EXCEPT !.msg = buf[s]] ELSE q
  <1>1. thr' \in ThreadTables
    BY GotoType, EndsType DEF SyncWrite, Pc
  <1>2. tcp' \in [Server -> Seq(Packet)]
    <2>1. CASE thr[s][t].ack = "none"
      <3>1. tcp' = [tcp EXCEPT ![p] = [i \in DOMAIN @ |-> written(@[i])]]
        BY <2>1 DEF SyncWrite
      <3>2. ASSUME p \in Server
            PROVE  [i \in DOMAIN tcp[p] |-> written(tcp[p][i])] \in Seq(Packet)
        <4>1. tcp[p] \in Seq(Packet) /\ buf[s] \in Text
          BY <3>2 DEF WireTypeOK
        <4>2. ASSUME NEW i \in DOMAIN tcp[p]
              PROVE  written(tcp[p][i]) \in Packet
          <5>1. tcp[p][i] \in Packet
            BY <4>1, <4>2
          <5> QED BY <4>1, <5>1 DEF Packet
        <4>3. DOMAIN tcp[p] = 1..Len(tcp[p]) /\ Len(tcp[p]) \in Nat
          BY <4>1
        <4> HIDE DEF written, p
        <4> QED BY <4>2, <4>3, FunctionSeq
      <3> HIDE DEF written, p
      <3>3. CASE p \in Server
        BY <3>1, <3>2, <3>3 DEF WireTypeOK
      <3>4. CASE p \notin Server
        BY <3>1, <3>4 DEF WireTypeOK
      <3> QED BY <3>3, <3>4
    <2>2. CASE thr[s][t].ack # "none"
      BY <2>2 DEF SyncWrite, WireTypeOK
    <2> QED BY <2>1, <2>2
  <1>3. WireTypeOK'
    BY <1>2 DEF SyncWrite, WireTypeOK
  <1> QED BY <1>1, <1>3, ServerInvNext DEF SyncWrite, books

\* A Sync thread that hands on the ACK, and then reads its request, keeps the
\* invariant (Sync).
LEMMA PassTakeStep ==
  ASSUME ServerInv, NEW s \in Server, NEW t \in ThreadId,
         SyncPassAck(s, t) \/ SyncTake(s, t)
  PROVE  ServerInv'
  <1> USE ServerInvNow
  <1>1. /\ thr[s][t] \in Thread /\ thr[s][t].chan \in Chan
        /\ Args(s, t).req \in Request /\ Args(s, t).conn \in Conn
    BY ArgsType DEF Thread
  <1>2. CASE SyncPassAck(s, t)
    <2> DEFINE T == [Idle EXCEPT !.pc = "passed", !.role = "Sync",
                        !.chan = thr[s][t].chan]
    <2>1. Acked(thr, s, Args(s, t).conn) \in ThreadTables
      BY <1>1, AckedType
    <2>2. T \in Thread /\ T.pc # "apply"
      BY <1>1, IdleType DEF Thread, Pc, Idle
    <2>3. thr' = [Acked(thr, s, Args(s, t).conn) EXCEPT ![s][t] = T]
      BY <1>2 DEF SyncPassAck
    <2> HIDE DEF T
    <2>4. thr' \in ThreadTables
      BY <2>1, <2>2, <2>3, ThreadMoves
    <2> QED BY <1>2, <2>4, ThreadOnly DEF SyncPassAck
  <1>3. CASE SyncTake(s, t)
    <2> DEFINE T == [thr[s][t] EXCEPT !.pc = "check", !.req = Args(s, t).req]
    <2>1. T \in Thread /\ T.pc # "apply"
      BY <1>1 DEF Thread, Pc
    <2>2. thr' = [thr EXCEPT ![s][t] = T]
      BY <1>3 DEF SyncTake, ThreadTables
    <2>3. thr' \in ThreadTables
      BY <2>1, <2>2, ThreadMoves
    <2> QED BY <1>3, <2>3, ThreadOnly DEF SyncTake
  <1> QED BY <1>2, <1>3

\* The two calls by which a Reply or a Sync_Hist thread gets its request into
\* the history keep the invariant (AddsentTrans, AckHist).
LEMMA AddAckStep ==
  ASSUME ServerInv, NEW s \in Server, NEW t \in ThreadId,
         AddSent(s, t) \/ AckHist(s, t)
  PROVE  ServerInv'
  <1> USE ServerInvNow
  <1>1. Asked(s, t) \in Request
    BY ArgsType DEF Asked, Thread
  <1>2. WireTypeOK'
    BY DEF AddSent, AckHist, WireTypeOK, wireVars
  <1>3. thr' \in ThreadTables
    BY GotoType, EndsType DEF AddSent, AckHist, Pc
  <1>4. CASE AddSent(s, t)
    <2>1. AddsentTrans(Asked(s, t), sent[s]) \in SUBSET Request
      BY <1>1, AddType
    <2>2. sent' \in [Server -> SUBSET Request]
      BY <1>4, <2>1 DEF AddSent
    <2> QED BY <1>2, <1>3, <1>4, <2>2, ServerInvNext DEF AddSent
  <1>5. CASE AckHist(s, t)
    <2>1. /\ AckSent(Asked(s, t), sent[s]) \in SUBSET Request
          /\ AckProc(Asked(s, t), sent[s], proc[s]) \in SUBSET Request
      BY <1>1, AddType
    <2>2. /\ sent' \in [Server -> SUBSET Request]
          /\ proc' \in [Server -> SUBSET Request]
      BY <1>5, <2>1 DEF AckHist
    <2> QED BY <1>2, <1>3, <1>5, <2>2, ServerInvNext DEF AckHist
  <1> QED BY <1>4, <1>5

\* Every step of a thread that overlaps with others keeps the invariant of the
\* servers.
LEMMA ThreadOverlapStep ==
  ASSUME ServerInv, NEW s \in Server, NEW t \in ThreadId, ThreadOverlap(s, t)
  PROVE  ServerInv'
  BY SyncOpenStep, SyncWriteStep, PassTakeStep, AddAckStep DEF ThreadOverlap

-----------------------------------------------------------------------------
(* The client process and the master leave the servers' memory alone.      *)

\* A step that touches nothing of a server but its sockets keeps the
\* invariant of the servers if the sockets stay well typed.
LEMMA ServerInvWire ==
  ASSUME ServerInv, WireTypeOK', UNCHANGED serverVars
  PROVE  ServerInv'
  <1> USE ServerInvNow
  <1> QED BY ServerInvNext DEF serverVars, books

\* A datagram sent to a server keeps the queues of datagrams well typed
\* (sendto).
LEMMA ToServerType ==
  ASSUME WireTypeOK, NEW s, NEW m \in Text, ToServer(s, m)
  PROVE  udp' \in [Server -> Seq(Text)]
  <1>1. udp \in [Server -> Seq(Text)]
    BY DEF WireTypeOK
  <1>2. CASE s \in Server /\ up[s]
    <2>1. Append(udp[s], m) \in Seq(Text)
      BY <1>1, <1>2
    <2> QED BY <1>1, <1>2, <2>1 DEF ToServer
  <1>3. CASE ~(s \in Server /\ up[s])
    BY <1>1, <1>3 DEF ToServer
  <1> QED BY <1>2, <1>3

\* The variables of the client process and of the wire, after its step.
ClientStepOK == WireTypeOK' /\ ClientTypeOK'

\* The current request is a request of a client, and its text a text
\* (SendReq).
LEMMA CurrentType ==
  ASSUME ClientTypeOK
  PROVE  /\ Current \in Request /\ Current.from \in Client
         /\ Raw(Current) \in Text
  <1>1. Current \in Request /\ Current.from \in Client
    BY ClientAssumption DEF ClientTypeOK, Current
  <1> QED BY <1>1, RawType

\* Going on to the next request keeps the position within the script (main,
\* SendReq).
LEMMA AdvanceType ==
  ASSUME WireTypeOK, ClientTypeOK, NEW rest \in Seq(ReplyText \cup NotiText),
         Advance(rest)
  PROVE  /\ pos' \in DOMAIN Script /\ cpc' \in ClientPc
         /\ sock' \in Client \cup {NoClient}
         /\ inbox' \in Seq(ReplyText \cup NotiText)
         /\ retrans' \in 0..RetransTime
  <1>1. pos' \in DOMAIN Script
    <2>1. Script \in Seq(Request) /\ pos \in 1..Len(Script)
      BY ClientAssumption DEF ClientTypeOK
    <2> QED BY <2>1 DEF Advance
  <1>2. cpc' \in ClientPc
    BY DEF Advance, ClientPc
  <1>3. sock' \in Client \cup {NoClient} /\ inbox' \in Seq(ReplyText \cup NotiText)
    BY DEF Advance, WireTypeOK
  <1>4. retrans' \in 0..RetransTime
    BY ClientAssumption DEF Advance
  <1> QED BY <1>1, <1>2, <1>3, <1>4

\* What a client does when a sleep or its timer ends keeps the types
\* (SendReq).
LEMMA TimerStep ==
  ASSUME WireTypeOK, ClientTypeOK, OpenSocket \/ SendRequest \/ Resend \/ GiveUp
  PROVE  ClientStepOK
  <1> USE DEF ClientStepOK
  <1>1. CASE OpenSocket
    <2>1. Current.from \in Client
      BY CurrentType
    <2> QED BY <1>1, <2>1 DEF OpenSocket, WireTypeOK, ClientTypeOK, ClientPc
  <1>2. CASE SendRequest
    <2>1. CASE view = <<>>
      BY <1>2, <2>1, ClientAssumption
         DEF SendRequest, WireTypeOK, ClientTypeOK, ClientPc
    <2>2. CASE view # <<>>
      <3>1. udp' \in [Server -> Seq(Text)]
        BY <1>2, <2>2, CurrentType, ToServerType DEF SendRequest
      <3>2. WireTypeOK'
        BY <1>2, <2>2, <3>1 DEF SendRequest, WireTypeOK
      <3> QED BY <1>2, <2>2, <3>2, ClientAssumption
              DEF SendRequest, ClientTypeOK, ClientPc
    <2> QED BY <2>1, <2>2
  <1>3. CASE Resend
    <2>1. udp' \in [Server -> Seq(Text)]
      BY <1>3, CurrentType, ToServerType DEF Resend
    <2>2. WireTypeOK'
      BY <1>3, <2>1 DEF Resend, WireTypeOK
    <2>3. retrans' \in 0..RetransTime
      BY <1>3, ClientAssumption DEF Resend, ClientTypeOK
    <2> QED BY <1>3, <2>2, <2>3 DEF Resend, ClientTypeOK
  <1>4. CASE GiveUp
    <2>1. <<>> \in Seq(ReplyText \cup NotiText)
      OBVIOUS
    <2>2. /\ pos' \in DOMAIN Script /\ cpc' \in ClientPc
          /\ sock' \in Client \cup {NoClient}
          /\ inbox' \in Seq(ReplyText \cup NotiText)
          /\ retrans' \in 0..RetransTime
      BY <1>4, <2>1, AdvanceType DEF GiveUp
    <2> QED BY <1>4, <2>2 DEF GiveUp, WireTypeOK, ClientTypeOK
  <1> QED BY <1>1, <1>2, <1>3, <1>4

\* A datagram a client receives keeps the types (SendReq,
\* proc_push_notification).
LEMMA ReceiveStep ==
  ASSUME WireTypeOK, ClientTypeOK, RecvReply \/ RecvFail \/ RecvExtension
  PROVE  ClientStepOK
  <1> USE DEF ClientStepOK
  <1> DEFINE m == Head(inbox)
  <1>1. inbox \in Seq(ReplyText \cup NotiText) /\ inbox # <<>>
    BY DEF WireTypeOK, RecvReply, RecvFail, RecvExtension, Arrived
  <1>2. m \in ReplyText \cup NotiText /\ Tail(inbox) \in Seq(ReplyText \cup NotiText)
    BY <1>1
  <1>3. CASE RecvReply
    <2>1. m \in ReplyText
      BY <1>2, <1>3 DEF RecvReply, Arrived, NotiText, NotiKind
    <2>2. accepted' \in [DOMAIN Script -> ReplyText \cup {NoReply}]
      BY <1>3, <2>1 DEF RecvReply, ClientTypeOK
    <2>3. /\ pos' \in DOMAIN Script /\ cpc' \in ClientPc
          /\ sock' \in Client \cup {NoClient}
          /\ inbox' \in Seq(ReplyText \cup NotiText)
          /\ retrans' \in 0..RetransTime
      BY <1>2, <1>3, AdvanceType DEF RecvReply
    <2> QED BY <1>3, <2>2, <2>3 DEF RecvReply, WireTypeOK, ClientTypeOK
  <1>4. CASE RecvFail
    <2>1. RemoveServer(m.port) \in Seq(Server \cup {NoServer})
      <3>1. view \in Seq(Server \cup {NoServer})
        BY DEF ClientTypeOK
      <3>2. CASE \E i \in DOMAIN view : view[i] = m.port
        <4> DEFINE k == CHOOSE i \in DOMAIN view :
                           view[i] = m.port /\ \A j \in 1..(i - 1) : view[j] # m.port
        <4>1. k \in DOMAIN view
          BY <3>1, <3>2, FirstIndex
        <4>2. RemoveServer(m.port)
                = SubSeq(view, 1, k - 1) \o SubSeq(view, k + 1, Len(view))
          BY <3>2 DEF RemoveServer
        <4> HIDE DEF k
        <4> QED BY <3>1, <4>1, <4>2, RemoveType
      <3>3. CASE ~\E i \in DOMAIN view : view[i] = m.port
        BY <3>1, <3>3 DEF RemoveServer
      <3> QED BY <3>2, <3>3
    <2> QED BY <1>2, <1>4, <2>1 DEF RecvFail, WireTypeOK, ClientTypeOK, ClientPc
  <1>5. CASE RecvExtension
    <2>1. m.port \in Server \cup {NoServer}
      BY <1>2, <1>5 DEF RecvExtension, Arrived, ReplyText, NotiText
    <2>2. Append(view, m.port) \in Seq(Server \cup {NoServer})
      BY <2>1 DEF ClientTypeOK
    <2> QED BY <1>2, <1>5, <2>2 DEF RecvExtension, WireTypeOK, ClientTypeOK
  <1> QED BY <1>3, <1>4, <1>5

\* The place of a server of the chain is an index of the chain
\* (Search_Prev_Server).
LEMMA IndexOfType ==
  ASSUME MasterTypeOK, NEW s, InChain(s)
  PROVE  IndexOf(s) \in DOMAIN chain
  BY FirstIndex DEF MasterTypeOK, InChain, IndexOf

\* A notification of the clients keeps the types of their sockets
\* (client_notify).
LEMMA ToClientsType ==
  ASSUME WireTypeOK, NEW m \in NotiText, ToClients(m)
  PROVE  inbox' \in Seq(ReplyText \cup NotiText)
  BY DEF WireTypeOK, ToClients

\* The chain and the links without one server (Search_Prev_Server).
LEMMA RemovedType ==
  ASSUME MasterTypeOK, NEW s, InChain(s)
  PROVE  LET i == IndexOf(s)
         IN  /\ Removed(s) \in Seq(Server)
             /\ Len(Removed(s)) = Len(chain) - 1
             /\ SubSeq(links, 1, i - 1) \o SubSeq(links, i + 1, Len(links))
                   \in Seq(Server \cup {NoServer})
             /\ Len(SubSeq(links, 1, i - 1) \o SubSeq(links, i + 1, Len(links)))
                   = Len(links) - 1
  <1> DEFINE i == IndexOf(s)
  <1>1. i \in DOMAIN chain
    BY IndexOfType
  <1>2. /\ chain \in Seq(Server) /\ links \in Seq(Server \cup {NoServer})
        /\ Len(links) = Len(chain)
    BY DEF MasterTypeOK
  <1>3. i \in DOMAIN links
    BY <1>1, <1>2
  <1>4. Removed(s) = Drop(chain, i)
    BY DEF Removed, Drop
  <1> HIDE DEF i
  <1>5. Drop(chain, i) \in Seq(Server) /\ Len(Drop(chain, i)) = Len(chain) - 1
    BY <1>1, <1>2, DropIndex
  <1>6. /\ Drop(links, i) \in Seq(Server \cup {NoServer})
        /\ Len(Drop(links, i)) = Len(links) - 1
    BY <1>2, <1>3, DropIndex
  <1> QED BY <1>4, <1>5, <1>6 DEF Drop, i

\* Every step of the master whose threads leave each other alone keeps the
\* types (handle_ping, probing, server_notify).
LEMMA PromptMasterStep ==
  ASSUME WireTypeOK, MasterTypeOK,
         \/ \E s \in Server : DetectFail(s) \/ DetectJoin(s)
         \/ \E n \in notices : ServerNotify(n)
  PROVE  WireTypeOK' /\ MasterTypeOK'
  <1>1. ASSUME NEW s \in Server, DetectFail(s)
        PROVE  WireTypeOK' /\ MasterTypeOK'
    <2>1. inbox' \in Seq(ReplyText \cup NotiText)
      BY <1>1, NotiType, ToClientsType DEF DetectFail, NotiKind
    <2> QED BY <1>1, <2>1 DEF DetectFail, WireTypeOK, MasterTypeOK, Notice
  <1>2. ASSUME NEW s \in Server, DetectJoin(s)
        PROVE  WireTypeOK' /\ MasterTypeOK'
    <2>1. inbox' \in Seq(ReplyText \cup NotiText)
      BY <1>2, NotiType, ToClientsType DEF DetectJoin, NotiKind
    <2>2. /\ chain' \in Seq(Server) /\ links' \in Seq(Server \cup {NoServer})
          /\ Len(links') = Len(chain')
      BY <1>2 DEF DetectJoin, MasterTypeOK
    <2> QED BY <1>2, <2>1, <2>2 DEF DetectJoin, WireTypeOK, MasterTypeOK, Notice
  <1>3. ASSUME NEW n \in notices, ServerNotify(n)
        PROVE  WireTypeOK' /\ MasterTypeOK'
    <2> DEFINE i == IndexOf(n.srv)
               now == IF n.kind = "Fail" THEN Removed(n.srv) ELSE chain
               link == IF i \in DOMAIN now THEN now[i] ELSE NoServer
    <2>1. chain \in Seq(Server) /\ notices' \in SUBSET Notice
      BY <1>3 DEF ServerNotify, MasterTypeOK
    <2>2. chain' \in Seq(Server) /\ udp' \in [Server -> Seq(Text)]
      <3>1. CASE InChain(n.srv)
        <4>1. Removed(n.srv) \in Seq(Server)
          BY <3>1, RemovedType
        <4>2. now \in Seq(Server)
          BY <2>1, <4>1
        <4>3. link \in Server \cup {NoServer}
          BY <4>2
        <4>4. Noti(NotiOf(n.kind), link) \in Text
          BY <4>3, NotiType DEF NotiKind, NotiOf, Text
        <4>5. udp' \in [Server -> Seq(Text)]
          <5>1. CASE i = 1
            BY <1>3, <3>1, <5>1 DEF ServerNotify, WireTypeOK
          <5>2. CASE i # 1
            <6>1. ToServer(chain[i - 1], Noti(NotiOf(n.kind), link))
              BY <1>3, <3>1, <5>2 DEF ServerNotify
            <6> HIDE DEF i, link
            <6> QED BY <4>4, <6>1, ToServerType
          <5> QED BY <5>1, <5>2
        <4>6. chain' = now
          BY <1>3, <3>1 DEF ServerNotify
        <4> QED BY <4>2, <4>5, <4>6
      <3>2. CASE ~InChain(n.srv)
        BY <1>3, <2>1, <3>2 DEF ServerNotify, WireTypeOK
      <3> QED BY <3>1, <3>2
    <2>3. links' \in Seq(Server \cup {NoServer}) /\ Len(links') = Len(chain')
      BY <1>3, <2>2, LinksType DEF ServerNotify
    <2>4. sheet' \in SUBSET Server
      BY <1>3 DEF ServerNotify, MasterTypeOK
    <2>5. WireTypeOK'
      BY <1>3, <2>2 DEF ServerNotify, WireTypeOK
    <2> QED BY <1>3, <2>1, <2>2, <2>3, <2>4, <2>5 DEF ServerNotify, MasterTypeOK
  <1> QED BY <1>1, <1>2, <1>3

\* The locals of a thread of the master stay well typed.
LEMMA DeskType ==
  ASSUME desk \in [MasterThread -> Task], NEW m \in MasterThread
  PROVE  /\ desk[m] \in Task
         /\ desk[m].at # "idle" =>
               desk[m] \in [at: TaskPc, kind: {"Fail", "Extension"}, srv: Server,
                            prev: Server \cup {NoServer},
                            link: Server \cup {NoServer}]
         /\ \A pc \in TaskPc :
               desk[m].at # "idle" /\ Onward(m, pc) => desk' \in [MasterThread -> Task]
         /\ \A pc \in TaskPc, k \in {"Fail", "Extension"}, s \in Server :
               Begin(m, pc, k, s) => desk' \in [MasterThread -> Task]
         /\ sheet \in SUBSET Server /\ Return(m) =>
               desk' \in [MasterThread -> Task] /\ sheet' \in SUBSET Server
  <1>1. desk[m] \in Task /\ NoTask \in Task
    BY DEF Task
  <1>5. desk[m].at # "idle" =>
           desk[m] \in [at: TaskPc, kind: {"Fail", "Extension"}, srv: Server,
                        prev: Server \cup {NoServer}, link: Server \cup {NoServer}]
    BY <1>1 DEF Task, NoTask
  <1>2. ASSUME NEW pc \in TaskPc, desk[m].at # "idle", Onward(m, pc)
        PROVE  desk' \in [MasterThread -> Task]
    <2>1. [desk[m] EXCEPT !.at = pc] \in Task
      BY <1>2, <1>5 DEF Task
    <2> QED BY <1>2, <2>1 DEF Onward
  <1>3. ASSUME NEW pc \in TaskPc, NEW k \in {"Fail", "Extension"},
               NEW s \in Server, Begin(m, pc, k, s)
        PROVE  desk' \in [MasterThread -> Task]
    <2>1. [NoTask EXCEPT !.at = pc, !.kind = k, !.srv = s] \in Task
      BY DEF Task, NoTask
    <2> QED BY <1>3, <2>1 DEF Begin
  <1>4. ASSUME sheet \in SUBSET Server, Return(m)
        PROVE  desk' \in [MasterThread -> Task] /\ sheet' \in SUBSET Server
    BY <1>1, <1>4 DEF Return
  <1> QED BY <1>1, <1>2, <1>3, <1>4, <1>5

\* So does every step of the threads of the master while they overlap.
LEMMA OverlapMasterStep ==
  ASSUME WireTypeOK, MasterTypeOK, NEW m \in MasterThread, MasterStep(m)
  PROVE  WireTypeOK' /\ MasterTypeOK'
  <1>0. /\ desk \in [MasterThread -> Task] /\ sheet \in SUBSET Server
        /\ chain \in Seq(Server)
        /\ links \in Seq(Server \cup {NoServer}) /\ Len(links) = Len(chain)
    BY DEF MasterTypeOK
  <1> DEFINE Working == /\ desk[m].at \in TaskPc /\ desk[m].at # "idle"
                      /\ desk[m].kind \in {"Fail", "Extension"}
                      /\ desk[m].srv \in Server
                      /\ desk[m].prev \in Server \cup {NoServer}
                      /\ desk[m].link \in Server \cup {NoServer}
                      /\ desk[m] \in [at: TaskPc, kind: {"Fail", "Extension"},
                                      srv: Server, prev: Server \cup {NoServer},
                                      link: Server \cup {NoServer}]
  <1>9. desk[m].at # "idle" => Working
    BY <1>0, DeskType
  <1> HIDE DEF Working
  <1>1. ASSUME NEW s \in Server, PingMissing(m, s)
        PROVE  WireTypeOK' /\ MasterTypeOK'
    <2>1. desk' \in [MasterThread -> Task]
      BY <1>0, <1>1, DeskType DEF PingMissing, TaskPc
    <2> QED BY <1>1, <2>1 DEF PingMissing, WireTypeOK, wireVars, MasterTypeOK
  <1>2. ASSUME NEW s \in Server, m = Probing, ProbeFind(s)
        PROVE  WireTypeOK' /\ MasterTypeOK'
    <2>1. desk' \in [MasterThread -> Task]
      BY <1>0, <1>2, DeskType DEF ProbeFind, TaskPc
    <2> QED BY <1>2, <2>1 DEF ProbeFind, WireTypeOK, wireVars, MasterTypeOK
  <1>3. CASE PingAdd(m)
    <2>0. desk[m].at # "idle" /\ Working
      BY <1>9, <1>3 DEF PingAdd
    <2>1. desk' \in [MasterThread -> Task]
      BY <1>0, <1>3, <2>0, DeskType DEF PingAdd, TaskPc
    <2>2. desk[m].srv \in Server
      BY <2>0 DEF Working
    <2> QED BY <1>3, <2>1, <2>2 DEF PingAdd, WireTypeOK, wireVars, MasterTypeOK
  <1>4. CASE ClientNotify(m)
    <2>0. desk[m].at # "idle" /\ Working
      BY <1>9, <1>4 DEF ClientNotify
    <2>1. desk' \in [MasterThread -> Task]
      BY <1>0, <1>4, <2>0, DeskType DEF ClientNotify, TaskPc
    <2>2. Noti(desk[m].kind, desk[m].srv) \in NotiText
      BY <2>0, NotiType DEF Working, NotiKind
    <2>3. inbox' \in Seq(ReplyText \cup NotiText)
      BY <1>4, <2>2, ToClientsType DEF ClientNotify
    <2> QED BY <1>4, <2>1, <2>3 DEF ClientNotify, WireTypeOK, MasterTypeOK
  <1>5. CASE SearchPrev(m)
    <2>0. desk[m].at # "idle" /\ Working
      BY <1>9, <1>5 DEF SearchPrev
    <2> DEFINE s == desk[m].srv
               i == IndexOf(s)
               prev == IF InChain(s) /\ i > 1 THEN chain[i - 1] ELSE NoServer
    <2>1. prev \in Server \cup {NoServer}
      BY <1>0, IndexOfType
    <2>2. [desk[m] EXCEPT !.at = "links", !.prev = prev] \in Task
      BY <2>0, <2>1 DEF Working, Task, TaskPc
    <2>3. desk' = [desk EXCEPT ![m] = [desk[m] EXCEPT !.at = "links", !.prev = prev]]
      BY <1>0, <1>5 DEF SearchPrev
    <2> HIDE DEF prev
    <2>4. desk' \in [MasterThread -> Task]
      BY <1>0, <2>2, <2>3
    <2>5. /\ chain' \in Seq(Server) /\ links' \in Seq(Server \cup {NoServer})
          /\ Len(links') = Len(chain')
      <3>1. CASE InChain(s) /\ desk[m].kind = "Fail"
        <4>1. /\ chain' = Removed(s)
              /\ links' = SubSeq(links, 1, i - 1) \o SubSeq(links, i + 1, Len(links))
          BY <1>5, <3>1 DEF SearchPrev
        <4>2. /\ Removed(s) \in Seq(Server)
              /\ Len(Removed(s)) = Len(chain) - 1
              /\ SubSeq(links, 1, i - 1) \o SubSeq(links, i + 1, Len(links))
                    \in Seq(Server \cup {NoServer})
              /\ Len(SubSeq(links, 1, i - 1) \o SubSeq(links, i + 1, Len(links)))
                    = Len(links) - 1
          BY <3>1, RemovedType
        <4> QED BY ONLY <1>0, <4>1, <4>2
      <3>2. CASE ~(InChain(s) /\ desk[m].kind = "Fail")
        BY <1>0, <1>5, <3>2 DEF SearchPrev
      <3> QED BY <3>1, <3>2
    <2> QED BY <1>5, <2>4, <2>5 DEF SearchPrev, WireTypeOK, wireVars, MasterTypeOK
  <1>6. CASE CalNext(m)
    <2>0. desk[m].at # "idle" /\ Working
      BY <1>9, <1>6 DEF CalNext
    <2>1. desk' \in [MasterThread -> Task] /\ sheet' \in SUBSET Server
      <3>1. CASE desk[m].prev = NoServer
        BY <1>0, <1>6, <3>1, DeskType DEF CalNext
      <3>2. CASE desk[m].prev # NoServer
        BY <1>0, <1>6, <2>0, <3>2, DeskType DEF CalNext, TaskPc
      <3> QED BY <3>1, <3>2
    <2>2. links' \in Seq(Server \cup {NoServer}) /\ Len(links') = Len(chain)
      BY <1>0, <1>6, LinksType DEF CalNext
    <2> QED BY <1>6, <2>1, <2>2 DEF CalNext, WireTypeOK, wireVars, MasterTypeOK
  <1>7. CASE SearchNext(m)
    <2>0. desk[m].at # "idle" /\ Working
      BY <1>9, <1>7 DEF SearchNext
    <2> DEFINE q == desk[m].prev
               link == IF InChain(q) THEN links[IndexOf(q)] ELSE NoServer
    <2>1. link \in Server \cup {NoServer}
      BY <1>0, IndexOfType
    <2>2. [desk[m] EXCEPT !.at = "send", !.link = link] \in Task
      BY <2>0, <2>1 DEF Working, Task, TaskPc
    <2>3. desk' = [desk EXCEPT ![m] = [desk[m] EXCEPT !.at = "send", !.link = link]]
      BY <1>0, <1>7 DEF SearchNext
    <2> HIDE DEF link
    <2>4. desk' \in [MasterThread -> Task]
      BY <1>0, <2>2, <2>3
    <2> QED BY <1>7, <2>4 DEF SearchNext, WireTypeOK, wireVars, MasterTypeOK
  <1>8. CASE SendNext(m)
    <2>0. desk[m].at # "idle" /\ Working
      BY <1>9, <1>8 DEF SendNext
    <2>1. desk' \in [MasterThread -> Task] /\ sheet' \in SUBSET Server
      BY <1>0, <1>8, DeskType DEF SendNext
    <2>2. Noti(NotiOf(desk[m].kind), desk[m].link) \in Text
      BY <2>0, NotiType DEF Working, NotiOf, NotiKind, Text
    <2>3. udp' \in [Server -> Seq(Text)]
      BY <1>8, <2>2, ToServerType DEF SendNext
    <2> QED BY <1>8, <2>1, <2>3 DEF SendNext, WireTypeOK, MasterTypeOK
  <1> QED BY <1>1, <1>2, <1>3, <1>4, <1>5, <1>6, <1>7, <1>8 DEF MasterStep

-----------------------------------------------------------------------------
(* The whole bank.                                                         *)

\* The invariant taken apart into what it says of the servers, the wire,
\* the client and the master.
LEMMA BankInvNow ==
  ASSUME BankInv
  PROVE  /\ ServerInv /\ ClientTypeOK /\ MasterTypeOK
         /\ asleep \in SUBSET Spare /\ kills \in 0..MaxKills
  BY DEF BankInv, ServerInv, TypeOK

\* The same after a step, put together again.
LEMMA BankInvNext ==
  ASSUME ServerInv', ClientTypeOK', MasterTypeOK',
         asleep' \in SUBSET Spare, kills' \in 0..MaxKills
  PROVE  BankInv'
  BY DEF BankInv, ServerInv, TypeOK

\* Every server starts with empty books and idle threads.
LEMMA InitInv == Init => BankInv
  <1> SUFFICES ASSUME Init PROVE BankInv
    OBVIOUS
  <1> USE DEF Init
  <1>1. WireTypeOK
    BY DEF WireTypeOK
  <1>2. next \in [Server -> Server \cup {NoServer}]
    <2>1. ASSUME NEW s \in Server PROVE next[s] \in Server \cup {NoServer}
      <3>1. CASE \E i \in 1..(Len(Lines) - 1) :
                    Lines[i] = s /\ Lines[i + 1] \notin Spare
        <4> DEFINE k == CHOOSE i \in 1..(Len(Lines) - 1) : Lines[i] = s
        <4>1. k \in 1..(Len(Lines) - 1)
          BY <3>1
        <4>2. Lines[1 + k] \in Server
          BY <4>1, BankAssumption
        <4>3. next[s] = Lines[1 + k]
          BY <3>1 DEF ServerInit
        <4> QED BY <4>2, <4>3
      <3>2. CASE ~\E i \in 1..(Len(Lines) - 1) :
                    Lines[i] = s /\ Lines[i + 1] \notin Spare
        BY <3>2 DEF ServerInit
      <3> QED BY <3>1, <3>2
    <2> QED BY <2>1 DEF ServerInit
  <1>3. /\ acct \in [Server -> [Account -> Int]]
        /\ applied \in [Server -> [Id -> Nat]]
        /\ NonNegative
    BY DEF ServerInit, NoBooks, NeverApplied, NonNegative
  <1>4. buf \in [Server -> Text]
    BY BlankIsRequest, RawType DEF ServerInit
  <1>5. args \in [Server -> [Chan -> ArgsSet]]
    BY BlankIsRequest, NoConnType DEF ServerInit, NoArgs, ArgsSet
  <1>6. thr \in [Server -> [ThreadId -> Thread]] /\ LookedUp
    BY IdleType DEF ServerInit, LookedUp, Idle
  <1>7. job \in [Server -> JobSet]
    BY DEF ServerInit, NoJob, JobSet
  <1>8. /\ sent \in [Server -> SUBSET Request]
        /\ proc \in [Server -> SUBSET Request]
        /\ msgCount \in [Server -> Nat]
        /\ lossCount \in [Server -> Nat]
    BY DEF ServerInit
  <1>9. ServerTypeOK
    BY <1>2, <1>3, <1>4, <1>5, <1>6, <1>7, <1>8 DEF ServerTypeOK
  <1>10. ClientTypeOK
    <2>1. 1 \in DOMAIN Script /\ 0 \in 0..RetransTime
      BY ClientAssumption
    <2>2. Configured \in Seq(Server \cup {NoServer})
      BY BankAssumption
    <2> QED BY <2>1, <2>2 DEF ClientInit, ClientTypeOK, ClientPc
  <1>11. MasterTypeOK
    <2>1. NoTask \in Task
      BY DEF Task
    <2>2. chain \in Seq(Server) /\ sheet \in SUBSET Server
      BY BankAssumption DEF MasterInit
    <2>3. links \in Seq(Server \cup {NoServer}) /\ Len(links) = Len(chain)
      BY <2>2, LinksType DEF MasterInit
    <2> QED BY <2>1, <2>2, <2>3 DEF MasterInit, MasterTypeOK
  <1>12. asleep \in SUBSET Spare /\ kills \in 0..MaxKills
    BY BankAssumption
  <1> QED BY <1>1, <1>3, <1>6, <1>9, <1>10, <1>11, <1>12 DEF BankInv, TypeOK

\* The end of a startup delay and a signal keep the invariant of the bank.
LEMMA StartKillStep ==
  ASSUME BankInv, NEW s \in Server, BankStart(s) \/ BankKill(s)
  PROVE  BankInv'
  <1> USE BankInvNow
  <1>1. CASE BankStart(s)
    <2>1. WireTypeOK'
      BY <1>1 DEF BankStart, ServerInv, WireTypeOK
    <2>2. ServerInv'
      BY <1>1, <2>1, ServerInvWire DEF BankStart
    <2> QED BY <1>1, <2>2, BankInvNext
            DEF BankStart, ClientTypeOK, clientVars, MasterTypeOK, masterVars
  <1>2. CASE BankKill(s)
    <2>1. ServerInv'
      BY <1>2, DownStep DEF BankKill, Kill
    <2>2. kills' \in 0..MaxKills
      BY <1>2, BankAssumption DEF BankKill
    <2> QED BY <1>2, <2>1, <2>2, BankInvNext
            DEF BankKill, ClientTypeOK, clientVars, MasterTypeOK, masterVars
  <1> QED BY <1>1, <1>2

\* Every step of a server keeps the invariant of the bank.
LEMMA ServersStep ==
  ASSUME BankInv, NEW s \in Server, NEW t \in ThreadId,
         BankMain(s) \/ BankThread(s, t) \/ BankOverlap(s)
  PROVE  BankInv'
  <1> USE BankInvNow
  <1>1. ServerInv'
    BY MainLoopStep, SyncSentTransStep, SyncSentEndStep, SyncProcTransStep,
       SyncDoneStep, ThreadsStep, MainOverlapStep, ThreadOverlapStep
       DEF BankMain, BankThread, BankOverlap, Synchronize
  <1>2. UNCHANGED <<clientVars, masterVars, asleep, kills>>
    BY DEF BankMain, BankThread, BankOverlap
  <1> QED BY <1>1, <1>2, BankInvNext DEF ClientTypeOK, clientVars, MasterTypeOK, masterVars

\* Every step of the client process keeps the invariant of the bank.
LEMMA ClientStep ==
  ASSUME BankInv, BankTimer \/ BankReceive
  PROVE  BankInv'
  <1> USE BankInvNow
  <1>1. WireTypeOK
    BY DEF ServerInv
  <1>2. WireTypeOK' /\ ClientTypeOK'
    BY <1>1, TimerStep, ReceiveStep DEF BankTimer, BankReceive, ClientStepOK
  <1>3. UNCHANGED <<serverVars, masterVars, asleep, kills>>
    BY DEF BankTimer, BankReceive
  <1>4. ServerInv'
    BY <1>2, <1>3, ServerInvWire
  <1> QED BY <1>2, <1>3, <1>4, BankInvNext DEF MasterTypeOK, masterVars

\* Every step of the master keeps the invariant of the bank.
LEMMA BankMasterStep ==
  ASSUME BankInv, BankMaster \/ \E m \in MasterThread : BankMasterOverlap(m)
  PROVE  BankInv'
  <1> USE BankInvNow
  <1>1. WireTypeOK
    BY DEF ServerInv
  <1>2. WireTypeOK' /\ MasterTypeOK'
    BY <1>1, PromptMasterStep, OverlapMasterStep DEF BankMaster, BankMasterOverlap
  <1>3. UNCHANGED <<serverVars, clientVars, asleep, kills>>
    BY DEF BankMaster, BankMasterOverlap
  <1>4. ServerInv'
    BY <1>2, <1>3, ServerInvWire
  <1> QED BY <1>2, <1>3, <1>4, BankInvNext DEF ClientTypeOK, clientVars

\* A step that changes nothing keeps the invariant of the bank.
LEMMA StutterStep ==
  ASSUME BankInv, UNCHANGED vars
  PROVE  BankInv'
  <1> USE BankInvNow
  <1>1. UNCHANGED <<wireVars, serverVars, clientVars, masterVars, asleep, kills>>
    BY DEF vars
  <1>2. WireTypeOK'
    BY <1>1 DEF ServerInv, WireTypeOK, wireVars
  <1>3. ServerInv'
    BY <1>1, <1>2, ServerInvWire
  <1> QED BY <1>1, <1>3, BankInvNext DEF ClientTypeOK, clientVars, MasterTypeOK, masterVars

\* The invariant is inductive.
LEMMA NextInv == BankInv /\ [Next]_vars => BankInv'
  <1> SUFFICES ASSUME BankInv, [Next]_vars PROVE BankInv'
    OBVIOUS
  <1>1. CASE \E s \in Server : BankStart(s) \/ BankKill(s)
    BY <1>1, StartKillStep
  <1>2. CASE \E s \in Server : BankMain(s) \/ BankOverlap(s)
    <2>1. PICK t : t \in ThreadId
      BY WireAssumption
    <2> QED BY <1>2, <2>1, ServersStep
  <1>3. CASE \E s \in Server, t \in ThreadId : BankThread(s, t)
    BY <1>3, ServersStep
  <1>4. CASE BankTimer \/ BankReceive
    BY <1>4, ClientStep
  <1>5. CASE BankMaster \/ \E m \in MasterThread : BankMasterOverlap(m)
    BY <1>5, BankMasterStep
  <1>6. CASE UNCHANGED vars
    BY <1>6, StutterStep
  <1> QED BY <1>1, <1>2, <1>3, <1>4, <1>5, <1>6 DEF Next, Finished

-----------------------------------------------------------------------------
(* Every variable of the bank keeps its type, whatever the processes, the  *)
(* master and the clients do and however they interleave.                  *)
THEOREM TypeCorrect == Spec => []TypeOK
  <1>1. BankInv => TypeOK
    BY DEF BankInv
  <1> QED BY <1>1, InitInv, NextInv, PTL DEF Spec

(* No server ever holds a negative balance (ProcReq, Sync_Hist): a thread  *)
(* may write a balance that is out of date, but never an overdrawn one.    *)
THEOREM NeverOverdrawn == Spec => []NonNegative
  <1>1. BankInv => NonNegative
    BY DEF BankInv
  <1> QED BY <1>1, InitInv, NextInv, PTL DEF Spec

-----------------------------------------------------------------------------
(* The history of a server, over its life.                                 *)

\* procTrans is keyed by the identifier.
Keyed == \A s \in Server : \A q, r \in proc[s] : q.id = r.id => q = r

\* What a step may do to the history of server s: nothing, an AckHist, or
\* the loss of everything with the process.
HistoryStep(s) ==
    \/ proc'[s] = proc[s]
    \/ \E r, S : proc'[s] = AckProc(r, S, proc[s])
    \/ proc'[s] = {} /\ ~up'[s]

\* AckHist takes nothing out of procTrans, and gives an identifier that is
\* there already no second entry.
LEMMA AckProcKeeps ==
  ASSUME NEW r, NEW S, NEW P
  PROVE  /\ P \subseteq AckProc(r, S, P)
         /\ \A q \in AckProc(r, S, P) : q \in P \/ (q = r /\ r.id \notin IdsOf(P))
  BY DEF AckProc, CheckHist

\* A server that goes down changes no history but its own.
LEMMA DownHistory ==
  ASSUME BankInv, NEW u \in Server, Down(u), NEW s \in Server
  PROVE  HistoryStep(s)
  <1>1. proc \in [Server -> SUBSET Request] /\ up \in [Server -> BOOLEAN]
    BY BankInvNow, ServerInvNow DEF WireTypeOK
  <1> QED BY <1>1 DEF Down, HistoryStep

\* No step of the loop of main takes a request out of a history or replaces
\* one.
LEMMA MainHistory ==
  ASSUME BankInv, NEW u \in Server, MainLoop(u) \/ Synchronize(u), NEW s \in Server
  PROVE  HistoryStep(s)
  <1>1. proc \in [Server -> SUBSET Request]
    BY BankInvNow, ServerInvNow
  <1>2. CASE AcceptSyncProc(u)
    BY <1>1, <1>2 DEF AcceptSyncProc, HistoryStep
  <1>3. CASE Down(u)
    BY <1>3, DownHistory
  <1>4. CASE ~AcceptSyncProc(u) /\ ~Down(u)
    <2>1. proc' = proc
      BY <1>4 DEF MainLoop, Synchronize, RecvNotification, DropRequest,
                  RecvRequest, ExpireOnRequest, AcceptRequest, ExpireOnAccept,
                  AcceptSyncSent, AcceptSyncSentNoNext, SyncSentTrans,
                  SyncSentEnd, SyncProcTrans, SyncDone, books
    <2> QED BY <2>1 DEF HistoryStep
  <1> QED BY <1>2, <1>3, <1>4

\* No step of a thread takes a request out of a history or replaces one
\* (Sync, Reply, AckHist).
LEMMA ThreadHistory ==
  ASSUME BankInv, NEW u \in Server, NEW t \in ThreadId, ThreadStep(u, t),
         NEW s \in Server
  PROVE  HistoryStep(s)
  <1>1. proc \in [Server -> SUBSET Request]
    BY BankInvNow, ServerInvNow
  <1>2. CASE ReplyHist(u, t) \/ SyncHist(u, t)
    BY <1>1, <1>2 DEF ReplyHist, SyncHist, HistoryStep
  <1>3. CASE Down(u)
    BY <1>3, DownHistory
  <1>4. CASE ~(ReplyHist(u, t) \/ SyncHist(u, t)) /\ ~Down(u)
    <2>1. proc' = proc
      BY <1>4 DEF ThreadStep, SyncConnect, SyncNullNext, SyncAdd, SyncEof,
                  SyncAcked, ReplyStart, ProcCheck, ProcApply, ReplySend,
                  ReplyNowhere, ReplyAck, books
    <2> QED BY <2>1 DEF HistoryStep
  <1> QED BY <1>2, <1>3, <1>4

\* Nor does one of main and the threads while they overlap.
LEMMA OverlapHistory ==
  ASSUME BankInv, NEW u \in Server, BankOverlap(u), NEW s \in Server
  PROVE  HistoryStep(s)
  <1>1. proc \in [Server -> SUBSET Request]
    BY BankInvNow, ServerInvNow
  <1>2. ASSUME NEW t \in ThreadId, AckHist(u, t)
        PROVE  HistoryStep(s)
    BY <1>1, <1>2 DEF AckHist, HistoryStep
  <1>3. CASE Down(u)
    BY <1>3, DownHistory
  <1>4. CASE ~(\E t \in ThreadId : AckHist(u, t)) /\ ~Down(u)
    <2>1. proc' = proc
      BY <1>4 DEF BankOverlap, MainOverlap, ThreadOverlap, StartSyncHist,
                  EmptyRequest, EmptySyncSent, EmptySyncHist, EmptyDown, SyncOpen,
                  SyncWrite, SyncPassAck, SyncTake, AddSent, books
    <2> QED BY <2>1 DEF HistoryStep
  <1> QED BY <1>2, <1>3, <1>4

\* No step of the bank takes a request out of the history of a server that
\* stays up.
LEMMA NextHistory ==
  ASSUME BankInv, [Next]_vars, NEW s \in Server
  PROVE  HistoryStep(s)
  <1>1. ASSUME NEW u \in Server, BankKill(u)
        PROVE  HistoryStep(s)
    BY <1>1, DownHistory DEF BankKill, Kill
  <1>2. ASSUME NEW u \in Server, BankMain(u)
        PROVE  HistoryStep(s)
    BY <1>2, MainHistory DEF BankMain
  <1>3. ASSUME NEW u \in Server, NEW t \in ThreadId, BankThread(u, t)
        PROVE  HistoryStep(s)
    BY <1>3, ThreadHistory DEF BankThread
  <1>4. ASSUME UNCHANGED serverVars
        PROVE  HistoryStep(s)
    BY <1>4 DEF serverVars, books, HistoryStep
  <1>5. ASSUME NEW u \in Server, BankStart(u)
        PROVE  UNCHANGED serverVars
    BY <1>5 DEF BankStart
  <1>6. CASE \/ BankTimer \/ BankReceive \/ BankMaster \/ UNCHANGED vars
             \/ \E m \in MasterThread : BankMasterOverlap(m)
    BY <1>4, <1>6 DEF BankTimer, BankReceive, BankMaster, BankMasterOverlap, vars
  <1> QED
    BY <1>1, <1>2, <1>3, <1>4, <1>5, <1>6, OverlapHistory DEF Next, Finished

(* Over every step of every server, an identifier that is in procTrans     *)
(* stays there with the same request as long as the process lives, and     *)
(* none ever has two: a repeated or inconsistent request is recognised by  *)
(* what was processed first (AckHist, CheckHist, Sync_Hist).               *)
THEOREM HistoryGrows == Spec => Remembered
  <1> DEFINE Grows == \A s \in Server : up'[s] => proc[s] \subseteq proc'[s]
  <1>1. BankInv /\ [Next]_vars => [Grows]_vars
    BY NextHistory, AckProcKeeps DEF HistoryStep
  <1> QED BY <1>1, InitInv, NextInv, PTL DEF Spec, Remembered

(* One entry per identifier.                                               *)
THEOREM HistoryKeyed == Spec => []Keyed
  <1>1. Init => Keyed
    BY DEF Init, ServerInit, Keyed
  <1>2. BankInv /\ Keyed /\ [Next]_vars => Keyed'
    <2> SUFFICES ASSUME BankInv, Keyed, [Next]_vars, NEW s \in Server,
                        NEW q \in proc'[s], NEW r \in proc'[s], q.id = r.id
                 PROVE  q = r
      BY DEF Keyed
    <2>1. CASE proc'[s] = proc[s] \/ proc'[s] = {}
      BY <2>1 DEF Keyed
    <2>2. ASSUME NEW a, NEW S, proc'[s] = AckProc(a, S, proc[s])
          PROVE  q = r
      BY <2>2, AckProcKeeps DEF Keyed, IdsOf
    <2> QED BY <2>1, <2>2, NextHistory DEF HistoryStep
  <1> QED BY <1>1, <1>2, InitInv, NextInv, PTL DEF Spec

-----------------------------------------------------------------------------
(* The chain of the bank while the threads of the master leave each other  *)
(* alone.                                                                  *)

\* A spare server that sleeps is down and not in the chain. A server that
\* clients have been told the failure of stays down until the servers are told.
Known ==
    /\ \A s \in asleep : ~up[s] /\ ~InChain(s)
    /\ \A n \in notices : n.kind = "Fail" => ~up[n.srv] /\ n.srv \notin asleep

\* The master's chain names a server once: it is a list of processes, and
\* Search_Prev_Server takes out one of them (Addserver, server_notify).
NoServerTwice == Distinct(chain)

\* Only servers of the chain have an entry in time_sheet.
SheetInChain == \A s \in sheet : InChain(s)

ChainInv == PromptMaster /\ BankInv /\ NoServerTwice /\ Known /\ SheetInChain

-----------------------------------------------------------------------------
\* Processes of the bank, but the master, end servers at most.
EndsOnly ==
    /\ UNCHANGED <<asleep, chain, sheet, notices>>
    /\ up' = up \/ \E s \in Server : up' = [up EXCEPT ![s] = FALSE]

\* The loop of main and the synchronization.
LEMMA MainUp ==
  ASSUME NEW s \in Server, MainLoop(s) \/ Synchronize(s)
  PROVE  up' = up \/ up' = [up EXCEPT ![s] = FALSE]
  <1>1. CASE Down(s)
    BY <1>1 DEF Down
  <1>2. CASE ~Down(s)
    BY <1>2 DEF MainLoop, Synchronize, RecvNotification, DropRequest, RecvRequest,
                ExpireOnRequest, AcceptRequest, ExpireOnAccept, AcceptSyncSent,
                AcceptSyncProc, AcceptSyncSentNoNext, SyncSentTrans,
                SyncSentEnd, SyncProcTrans, SyncDone, wireVars
  <1> QED BY <1>1, <1>2

\* The threads Sync and Reply.
LEMMA ThreadUp ==
  ASSUME NEW s \in Server, NEW t \in ThreadId, ThreadStep(s, t)
  PROVE  up' = up \/ up' = [up EXCEPT ![s] = FALSE]
  <1>1. CASE Down(s)
    BY <1>1 DEF Down
  <1>2. CASE ~Down(s)
    BY <1>2 DEF ThreadStep, SyncConnect, SyncNullNext, SyncAdd, SyncEof, SyncAcked,
                SyncHist, ReplyStart, ProcCheck, ProcApply, ReplyHist, ReplySend,
                ReplyNowhere, ReplyAck, wireVars
  <1> QED BY <1>1, <1>2

\* Main and the threads while they overlap.
LEMMA OverlapUp ==
  ASSUME NEW s \in Server, BankOverlap(s)
  PROVE  up' = up \/ up' = [up EXCEPT ![s] = FALSE]
  <1>1. CASE Down(s)
    BY <1>1 DEF Down
  <1>2. CASE ~Down(s)
    BY <1>2 DEF BankOverlap, MainOverlap, ThreadOverlap, StartSyncHist,
                EmptyRequest, EmptySyncSent, EmptySyncHist, EmptyDown, SyncOpen,
                SyncWrite, SyncPassAck, SyncTake, AddSent, AckHist, wireVars
  <1> QED BY <1>1, <1>2

\* No process but the master touches the chain.
LEMMA OthersEnd ==
  ASSUME \/ \E s \in Server : BankKill(s) \/ BankMain(s) \/ BankOverlap(s)
         \/ \E s \in Server, t \in ThreadId : BankThread(s, t)
         \/ BankTimer \/ BankReceive
         \/ UNCHANGED vars
  PROVE  EndsOnly
  <1>1. ASSUME NEW s \in Server, BankKill(s)
        PROVE  EndsOnly
    BY <1>1 DEF BankKill, Kill, Down, masterVars, EndsOnly
  <1>2. ASSUME NEW s \in Server, BankMain(s)
        PROVE  EndsOnly
    BY <1>2, MainUp DEF BankMain, masterVars, EndsOnly
  <1>3. ASSUME NEW s \in Server, NEW t \in ThreadId, BankThread(s, t)
        PROVE  EndsOnly
    BY <1>3, ThreadUp DEF BankThread, masterVars, EndsOnly
  <1>7. ASSUME NEW s \in Server, BankOverlap(s)
        PROVE  EndsOnly
    BY <1>7, OverlapUp DEF BankOverlap, masterVars, EndsOnly
  <1>4. CASE BankTimer
    BY <1>4 DEF BankTimer, OpenSocket, SendRequest, Resend, GiveUp, masterVars, EndsOnly
  <1>5. CASE BankReceive
    BY <1>5 DEF BankReceive, RecvReply, RecvFail, RecvExtension, masterVars, EndsOnly
  <1>6. CASE UNCHANGED vars
    BY <1>6 DEF vars, wireVars, masterVars, EndsOnly
  <1> QED BY <1>1, <1>2, <1>3, <1>4, <1>5, <1>6, <1>7

-----------------------------------------------------------------------------
(* Servers that end, and servers that start.                               *)

\* A process that ends does nothing to the chain.
LEMMA EndsInv ==
  ASSUME ChainInv, EndsOnly
  PROVE  NoServerTwice' /\ Known' /\ SheetInChain'
  <1>1. \A s \in Server : ~up[s] => ~up'[s]
    BY DEF EndsOnly, ChainInv, BankInv, TypeOK, WireTypeOK
  <1>2. asleep \subseteq Server /\ \A n \in notices : n.srv \in Server
    BY BankAssumption DEF ChainInv, BankInv, TypeOK, MasterTypeOK, Notice
  <1>3. \A s \in asleep' : ~up'[s] /\ ~InChain(s)'
    BY <1>1, <1>2 DEF EndsOnly, ChainInv, Known, InChain
  <1>4. \A n \in notices' : n.kind = "Fail" => ~up'[n.srv] /\ n.srv \notin asleep'
    BY <1>1, <1>2 DEF EndsOnly, ChainInv, Known
  <1>5. SheetInChain'
    BY DEF EndsOnly, ChainInv, SheetInChain, InChain
  <1> QED BY <1>3, <1>4, <1>5 DEF EndsOnly, ChainInv, NoServerTwice, Known

\* A delayed server starts.
LEMMA StartInv ==
  ASSUME ChainInv, NEW s \in Server, BankStart(s)
  PROVE  NoServerTwice' /\ Known' /\ SheetInChain'
  <1>1. /\ up \in [Server -> BOOLEAN] /\ s \in asleep /\ ~up[s] /\ ~InChain(s)
        /\ UNCHANGED <<chain, sheet, notices>> /\ asleep' = asleep \ {s}
    BY DEF BankStart, masterVars, ChainInv, Known, BankInv, TypeOK, WireTypeOK
  <1>2. up'[s] /\ \A u : u # s => up'[u] = up[u]
    BY <1>1 DEF BankStart
  <1>3. \A u \in asleep' : ~up'[u] /\ ~InChain(u)'
    BY <1>1, <1>2 DEF ChainInv, Known, InChain
  <1>4. \A n \in notices' : n.kind = "Fail" => ~up'[n.srv] /\ n.srv \notin asleep'
    BY <1>1, <1>2 DEF ChainInv, Known
  <1>5. SheetInChain'
    BY <1>1 DEF ChainInv, SheetInChain, InChain
  <1> QED BY <1>1, <1>3, <1>4, <1>5 DEF Known, ChainInv, NoServerTwice

-----------------------------------------------------------------------------
(* The master.                                                             *)

\* probing has found a server that is down; the chain stays as it is until
\* the clients are told.
LEMMA FailInv ==
  ASSUME ChainInv, NEW s \in Server, BankMaster, DetectFail(s)
  PROVE  NoServerTwice' /\ Known' /\ SheetInChain'
  <1>1. UNCHANGED <<up, asleep, chain, sheet>>
    BY DEF BankMaster, DetectFail
  <1>2. ~up[s] /\ InChain(s)
    BY DEF DetectFail, ChainInv, SheetInChain
  <1>3. s \notin asleep
    BY <1>2 DEF ChainInv, Known
  <1>4. \A n \in notices' : n \in notices \/ n.srv = s
    BY DEF DetectFail
  <1>5. Known'
    BY <1>1, <1>2, <1>3, <1>4 DEF ChainInv, Known, InChain
  <1> QED BY <1>1, <1>5 DEF ChainInv, NoServerTwice, SheetInChain, InChain

\* A server whose ping comes from outside of the chain is put at its tail.
LEMMA JoinInv ==
  ASSUME ChainInv, NEW s \in Server, BankMaster, DetectJoin(s)
  PROVE  NoServerTwice' /\ Known' /\ SheetInChain'
  <1>1. UNCHANGED <<up, asleep>> /\ up[s] /\ ~InChain(s) /\ s \notin asleep
    BY DEF BankMaster, DetectJoin, ChainInv, Known
  <1>2. chain \in Seq(Server) /\ chain' = Append(chain, s)
    BY DEF DetectJoin, ChainInv, BankInv, TypeOK, MasterTypeOK
  <1>3. \A u : u \in Elements(chain) <=> InChain(u)
    BY DEF Elements, InChain
  <1>4. Distinct(chain') /\ Elements(chain') = Elements(chain) \cup {s}
    BY <1>1, <1>2, <1>3, AppendDistinct DEF ChainInv, NoServerTwice
  <1>5. \A u : InChain(u)' <=> InChain(u) \/ u = s
    BY <1>3, <1>4 DEF Elements, InChain
  <1>6. \A n \in notices' : n.kind = "Fail" => n \in notices
    BY DEF DetectJoin
  <1>7. Known'
    BY <1>1, <1>5, <1>6 DEF ChainInv, Known
  <1>8. SheetInChain'
    BY <1>5 DEF DetectJoin, ChainInv, SheetInChain
  <1> QED BY <1>4, <1>7, <1>8 DEF NoServerTwice

\* The servers are told, and a failed server leaves the chain if another
\* thread has not removed it before.
LEMMA NotifyInv ==
  ASSUME ChainInv, BankMaster, NEW n \in notices, ServerNotify(n)
  PROVE  NoServerTwice' /\ Known' /\ SheetInChain'
  <1>1. UNCHANGED <<up, asleep>> /\ notices' \subseteq notices /\ sheet' \subseteq sheet
    BY DEF BankMaster, ServerNotify
  <1>2. chain \in Seq(Server) /\ n \in Notice
    BY DEF ChainInv, BankInv, TypeOK, MasterTypeOK
  <1>3. CASE chain' = chain
    <2>1. Known'
      BY <1>1, <1>3 DEF ChainInv, Known, InChain
    <2> QED BY <1>1, <1>3, <2>1 DEF ChainInv, NoServerTwice, SheetInChain, InChain
  <1>4. CASE chain' # chain
    <2>0. PICK s \in Server : s = n.srv
      BY <1>2 DEF Notice
    <2>1. n.kind = "Fail" /\ InChain(s) /\ chain' = Removed(s) /\ sheet' = sheet \ {s}
      BY <1>4, <2>0 DEF ServerNotify
    <2>2. ~up[s] /\ s \notin asleep
      BY <2>0, <2>1 DEF ChainInv, Known
    <2>3. PICK i \in DOMAIN chain : chain[i] = s /\ Removed(s) = Drop(chain, i)
      <3>1. \E k \in DOMAIN chain : chain[k] = s /\ \A j \in 1..(k - 1) : chain[j] # s
        BY <1>2, <2>1, FirstIndex DEF InChain
      <3>2. IndexOf(s) \in DOMAIN chain /\ chain[IndexOf(s)] = s
        BY <3>1 DEF IndexOf
      <3> QED BY <3>2 DEF Removed, Drop
    <2>4. Distinct(chain') /\ Elements(chain') = Elements(chain) \ {s}
      BY <1>2, <2>1, <2>3, DropDistinct DEF ChainInv, NoServerTwice
    <2>5. \A u : InChain(u)' <=> InChain(u) /\ u # s
      BY <2>4 DEF Elements, InChain
    <2>6. Known'
      BY <1>1, <2>5 DEF ChainInv, Known
    <2>7. SheetInChain'
      BY <2>1, <2>5 DEF ChainInv, SheetInChain
    <2> QED BY <2>4, <2>6, <2>7 DEF NoServerTwice
  <1> QED BY <1>3, <1>4

-----------------------------------------------------------------------------
LEMMA ChainInit == PromptMaster /\ Init => ChainInv
  <1> SUFFICES ASSUME PromptMaster, Init
               PROVE  ChainInv
    OBVIOUS
  <1>1. /\ up = [s \in Server |-> s \notin Spare] /\ asleep = Spare
        /\ chain = Configured /\ notices = {}
        /\ sheet = {Configured[i] : i \in DOMAIN Configured}
    BY DEF Init, MasterInit
  <1>2. Distinct(chain) /\ \A i \in DOMAIN chain : chain[i] \in Server \ Spare
    BY <1>1, BankAssumption DEF Distinct
  <1>3. Known
    BY <1>1, <1>2, BankAssumption DEF Known, InChain
  <1>4. SheetInChain
    BY <1>1 DEF SheetInChain, InChain
  <1> QED BY <1>2, <1>3, <1>4, InitInv DEF ChainInv, NoServerTwice

LEMMA NextChain ==
  ASSUME ChainInv, [Next]_vars
  PROVE  NoServerTwice' /\ Known' /\ SheetInChain'
  <1>1. ASSUME NEW s \in Server, BankStart(s)
        PROVE  NoServerTwice' /\ Known' /\ SheetInChain'
    BY <1>1, StartInv
  <1>2. CASE BankMaster
    BY <1>2, FailInv, JoinInv, NotifyInv DEF BankMaster
  <1>3. CASE EndsOnly
    BY <1>3, EndsInv
  <1>4. CASE \E m \in MasterThread : BankMasterOverlap(m)
    BY <1>4 DEF BankMasterOverlap, ChainInv
  <1> QED BY <1>1, <1>2, <1>3, <1>4, OthersEnd DEF Next, Finished

\* With threads of the master that leave each other alone the chain names a
\* server once, and a server whose failure has been announced stays down.
LEMMA ChainAlways == PromptMaster /\ Spec => []ChainInv
  <1>1. ChainInv /\ [Next]_vars => ChainInv'
    BY NextChain, NextInv DEF ChainInv
  <1> QED BY <1>1, ChainInit, PTL DEF Spec
=============================================================================
