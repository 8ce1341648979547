----------------------------- MODULE BookProofs ------------------------------
(***************************************************************************)
(* Balance and history of a server tell the same story, for any number of  *)
(* servers, clients, threads and requests, and whatever is lost, fails or  *)
(* joins, under the timing the program counts on: then one request at most *)
(* is on its way through the chain.                                        *)
(***************************************************************************)
EXTENDS LinkProofs

\* Clients are patient, also after a failure, threads are prompt, at the
\* servers and at the master, and the delayed servers come last in the file.
Timing ==
    /\ PatientClients /\ PromptThreads /\ PromptMaster
    /\ FaultDelay # 0 /\ DelayedLast

-----------------------------------------------------------------------------
(* The order of the servers.                                               *)

Precedes(a, b) == \E i, j \in DOMAIN chain : i < j /\ chain[i] = a /\ chain[j] = b

Alive(p) == p \in Server /\ (up[p] \/ p \in asleep)

Blank(s) ==
    /\ next[s] = NoServer /\ udp[s] = <<>> /\ tcp[s] = <<>>
    /\ proc[s] = {} /\ applied[s] = NeverApplied
    /\ args[s] = [c \in Chan |-> NoArgs]
    /\ thr[s] = [t \in ThreadId |-> Idle]

\* A process that is not there has nothing.
Silent == \A s \in Server : ~up[s] => Blank(s)

\* Requests go down the chain and acknowledgements up: what a server has for
\* its next, or will have, comes after it, and who waits for it comes before.
Downward ==
    \A s \in Server :
        /\ Alive(next[s]) => Precedes(s, next[s])
        /\ \A m \in Elements(udp[s]) : IsNoti(m) /\ Alive(m.port) => Precedes(s, m.port)
        /\ \A p \in Elements(tcp[s]) : Alive(p.conn.srv) => Precedes(p.conn.srv, s)
        /\ \A c \in Chan :
              Alive(args[s][c].conn.srv) => Precedes(args[s][c].conn.srv, s)

\* Where a thread has a connection, and who runs it. It is at no step that is
\* taken only beside others.
Shaped(T) ==
    /\ T.pc \notin {"write", "passed", "take"} /\ T.role # "Hist"
    /\ T.pc \notin {"add", "wait"} => T.peer = NoServer /\ T.ack = "none"
    /\ T.pc \in {"connect", "add", "wait"} => T.role = "Sync"
    /\ T.pc \in {"start", "send", "ack"} => T.role = "Reply"

Shape == \A s \in Server, t \in ThreadId : Shaped(thr[s][t])

OrderInv == PromptThreads /\ ChainInv /\ Silent /\ Downward /\ Shape

-----------------------------------------------------------------------------
(* The one request.                                                        *)

\* The thread has the request on its way to the tail, is the tail's, or has
\* got the acknowledgement and not passed it on.
Carries(s, t) ==
    \/ thr[s][t].pc \in {"connect", "start", "send", "ack"}
    \/ thr[s][t].pc \in {"check", "apply", "hist"} /\ thr[s][t].role = "Reply"
    \/ thr[s][t].ack = "acked"

\* The thread has passed the acknowledgement on and processes.
Finishes(s, t) ==
    thr[s][t].pc \in {"check", "apply", "hist"} /\ thr[s][t].role = "Sync"

\* A request can be in a datagram or a connection that waits to be read, or a
\* thread has it: the place a of the form k at a server.
Form == {"udp", "tcp", "thr"}

Spot == Nat \cup ThreadId

\* What main takes for a request, or may take for one, and what carries one.
Front(s, k, a) ==
    \/ k = "udp" /\ a \in DOMAIN udp[s] /\ udp[s][a].kind = "Raw"
    \/ /\ k = "tcp"
       /\ a \in DOMAIN tcp[s] /\ tcp[s][a].msg.kind \notin {"SyncSent", "SyncProc"}
    \/ k = "thr" /\ a \in ThreadId /\ Carries(s, a)

\* Who waits for its acknowledgement.
Back(s, k, a) ==
    IF k = "udp" THEN NoConn
    ELSE IF k = "tcp" THEN tcp[s][a].conn
    ELSE Args(s, a).conn

OneRequest ==
    \A s, u \in Server, j, k \in Form, a, b \in Spot :
        Front(s, j, a) /\ Front(u, k, b) => s = u /\ j = k /\ a = b

\* A place of an acknowledgement.
Acknowledged(s, k, a) == k = "thr" /\ thr[s][a].ack = "acked"

\* While a server finishes, the acknowledgement is at a server before it.
Behind(s) ==
    \A u \in Server, k \in Form, a \in Spot :
        Front(u, k, a) => Acknowledged(u, k, a) /\ Precedes(u, s)

FinishBehind ==
    \A s \in Server, t \in ThreadId : Finishes(s, t) =>
        Behind(s) /\ \A w \in ThreadId : Finishes(s, w) => t = w

\* The request is found when it is acknowledged.
Stored(s, r) ==
    r.type = "Query" \/ (\E q \in sent[s] : Same(q, r)) \/ r.id \in IdsOf(proc[s])

Waiting(s, t) == thr[s][t].pc \in {"add", "wait"} /\ thr[s][t].ack = "none"

\* If an acknowledgement of server s on connection c is waited for, then by
\* one of the threads C.
Owes(C, s, c) ==
    /\ c.srv \in Server /\ Waiting(c.srv, c.thr) /\ thr[c.srv][c.thr].peer = s
    => c \in C

\* The threads C wait for the acknowledgement of the request. Other threads may
\* wait as well, for servers that have failed or a request that was sent again;
\* nobody acknowledges to them.
Await(C) ==
    /\ \A c \in C :
          /\ c.srv \in Server /\ Waiting(c.srv, c.thr)
          /\ thr[c.srv][c.thr].pc = "wait" => Stored(c.srv, Args(c.srv, c.thr).req)
          /\ Owes(C, c.srv, Args(c.srv, c.thr).conn)
    /\ \A s \in Server, k \in Form, a \in Spot : Front(s, k, a) =>
          /\ Owes(C, s, Back(s, k, a))
          /\ \A c \in C : Precedes(c.srv, s)

Awaited == \E C \in SUBSET Conn : Await(C)

WayInv == OrderInv /\ OneRequest /\ FinishBehind /\ Awaited

-----------------------------------------------------------------------------
(* The books.                                                              *)

\* The thread has changed the balance, as far as it does, and not the history.
Opened(s, t) ==
    /\ thr[s][t].pc \in {"send", "hist"} /\ thr[s][t].hist = "New"
    /\ IsUpdate(thr[s][t].req)

Processes(s, t) == thr[s][t].pc \in {"check", "apply", "send", "hist"}

\* A thread that processes has the request of main's ARGS, and knows what the
\* history says of it.
Prepared(s, t) ==
    Processes(s, t) =>
        /\ thr[s][t].req = Args(s, t).req
        /\ thr[s][t].pc # "check" => thr[s][t].hist = CheckHist(thr[s][t].req, proc[s])

\* The request of a Sync thread can become history.
Grounded(s, t) ==
    /\ thr[s][t].pc = "wait" /\ thr[s][t].ack = "acked" => Stored(s, Args(s, t).req)
    /\ Finishes(s, t) => Stored(s, thr[s][t].req)

Balanced(s) ==
    /\ \A i \in Id : applied[s][i] # 0 =>
          /\ applied[s][i] = 1
          /\ \/ i \in IdsOf(proc[s])
             \/ \E t \in ThreadId : Opened(s, t) /\ thr[s][t].req.id = i
    /\ \A r \in proc[s] : r.type = "Deposit" => applied[s][r.id] = 1
    /\ \A t \in ThreadId : Opened(s, t) /\ thr[s][t].req.type = "Deposit" =>
          applied[s][thr[s][t].req.id] = 1

BooksOf(s) == (\A t \in ThreadId : Prepared(s, t) /\ Grounded(s, t)) /\ Balanced(s)

BooksInv == \A s \in Server : BooksOf(s)

BookInv == WayInv /\ BooksInv

-----------------------------------------------------------------------------
(* Queues and tables.                                                      *)

\* The types the lemmas below rest on.
LEMMA BookTypes ==
  ASSUME ChainInv
  PROVE  /\ up \in [Server -> BOOLEAN]
         /\ udp \in [Server -> Seq(Text)] /\ tcp \in [Server -> Seq(Packet)]
         /\ next \in [Server -> Server \cup {NoServer}]
         /\ sent \in [Server -> SUBSET Request] /\ proc \in [Server -> SUBSET Request]
         /\ applied \in [Server -> [Id -> Nat]]
         /\ buf \in [Server -> Text]
         /\ args \in [Server -> [Chan -> ArgsSet]]
         /\ thr \in [Server -> [ThreadId -> Thread]]
         /\ chain \in Seq(Server) /\ Distinct(chain) /\ notices \in SUBSET Notice
  BY DEF ChainInv, NoServerTwice, BankInv, TypeOK, WireTypeOK, ServerTypeOK, MasterTypeOK

\* What is in a queue that something is put into, or taken from.
LEMMA AppendElements ==
  ASSUME NEW S, NEW q \in Seq(S), NEW e \in S
  PROVE  Elements(Append(q, e)) = Elements(q) \cup {e}
  <1>1. /\ DOMAIN Append(q, e) = 1..(Len(q) + 1) /\ DOMAIN q = 1..Len(q) /\ Len(q) \in Nat
        /\ \A i \in 1..Len(q) : Append(q, e)[i] = q[i]
        /\ Append(q, e)[Len(q) + 1] = e
    BY AppendProperties
  <1>2. Elements(Append(q, e)) \subseteq Elements(q) \cup {e}
    BY <1>1 DEF Elements
  <1>3. Elements(q) \cup {e} \subseteq Elements(Append(q, e))
    <2>1. \A i \in DOMAIN q : i \in DOMAIN Append(q, e) /\ Append(q, e)[i] = q[i]
      BY <1>1
    <2>2. Len(q) + 1 \in DOMAIN Append(q, e)
      BY <1>1
    <2> QED BY <1>1, <2>1, <2>2 DEF Elements
  <1> QED BY <1>2, <1>3

LEMMA TailElements ==
  ASSUME NEW S, NEW q \in Seq(S), q # <<>>
  PROVE  /\ Elements(Tail(q)) \subseteq Elements(q) /\ Head(q) \in Elements(q)
         /\ Head(q) = q[1] /\ 1 \in DOMAIN q
         /\ \A i \in DOMAIN Tail(q) : i + 1 \in DOMAIN q /\ Tail(q)[i] = q[i + 1]
  <1>1. /\ DOMAIN Tail(q) = 1..(Len(q) - 1) /\ Len(q) \in Nat /\ Len(q) # 0
        /\ DOMAIN q = 1..Len(q) /\ Head(q) = q[1]
        /\ \A i \in 1..(Len(q) - 1) : Tail(q)[i] = q[i + 1]
    BY HeadTailProperties
  <1>2. \A i \in DOMAIN Tail(q) : i + 1 \in DOMAIN q /\ Tail(q)[i] = q[i + 1]
    BY <1>1
  <1> QED BY <1>1, <1>2 DEF Elements

\* The thread T with what came back on its connection.
WithAck(T, a) == [T EXCEPT !.ack = a]

\* An acknowledgement is for one thread that waits, or for nobody.
LEMMA AckedWhom ==
  ASSUME NEW TT \in [Server -> [ThreadId -> Thread]], NEW s \in Server, NEW c \in Conn,
         NEW u \in Server, NEW w \in ThreadId
  PROVE  \/ Acked(TT, s, c)[u][w] = TT[u][w]
         \/ /\ c.srv = u /\ c.thr = w
            /\ TT[u][w].peer = s /\ TT[u][w].ack = "none"
            /\ Acked(TT, s, c)[u][w] = WithAck(TT[u][w], "acked")
  BY DEF Acked, Conn, WithAck

\* The end of a server is the end of its threads, and for others at most the end
\* of a wait.
LEMMA DownThread ==
  ASSUME ChainInv, NEW s \in Server, Down(s), NEW u \in Server, NEW w \in ThreadId
  PROVE  /\ u = s => thr'[u][w] = Idle
         /\ u # s => \/ thr'[u][w] = thr[u][w]
                     \/ /\ thr[u][w].peer = s /\ thr[u][w].ack = "none"
                        /\ thr'[u][w] = WithAck(thr[u][w], "eof")
  BY DEF Down, HungUp, WithAck

-----------------------------------------------------------------------------
(* The order of the servers.                                               *)

\* A server is before itself nowhere, and before what comes after the next.
LEMMA PrecedesOrder ==
  ASSUME ChainInv
  PROVE  /\ \A a, b : Precedes(a, b) => a \in Server /\ b \in Server /\ a # b
                                        /\ InChain(a) /\ InChain(b)
         /\ \A a, b, c : Precedes(a, b) /\ Precedes(b, c) => Precedes(a, c)
  <1>1. chain \in Seq(Server) /\ Distinct(chain)
    BY BookTypes
  <1>2. \A i \in DOMAIN chain : chain[i] \in Server /\ i \in Nat
    BY <1>1
  <1>3. ASSUME NEW a, NEW b, NEW i \in DOMAIN chain, NEW j \in DOMAIN chain,
               i < j, chain[i] = a, chain[j] = b
        PROVE  a \in Server /\ b \in Server /\ a # b /\ InChain(a) /\ InChain(b)
    BY <1>1, <1>2, <1>3 DEF Distinct, InChain
  <1>4. ASSUME NEW a, NEW b, NEW c, Precedes(a, b), Precedes(b, c)
        PROVE  Precedes(a, c)
    <2>1. PICK i \in DOMAIN chain, j \in DOMAIN chain : i < j /\ chain[i] = a /\ chain[j] = b
      BY <1>4 DEF Precedes
    <2>2. PICK k \in DOMAIN chain, l \in DOMAIN chain : k < l /\ chain[k] = b /\ chain[l] = c
      BY <1>4 DEF Precedes
    <2>3. j = k
      BY <1>1, <2>1, <2>2 DEF Distinct
    <2>4. i < l
      BY <1>2, <2>1, <2>2, <2>3
    <2> QED BY <2>1, <2>2, <2>4 DEF Precedes
  <1> QED BY <1>3, <1>4 DEF Precedes

\* Servers that are there stay in their order, and one that is gone stays away.
OrderKept ==
    /\ \A p : Alive(p)' => Alive(p)
    /\ \A a, b : Precedes(a, b) /\ Alive(a)' /\ Alive(b)' => Precedes(a, b)'

\* A server that joins is the last one.
LEMMA JoinOrder ==
  ASSUME ChainInv, NEW s \in Server, BankMaster, DetectJoin(s)
  PROVE  OrderKept
  <1>1. UNCHANGED <<up, asleep>> /\ chain' = Append(chain, s) /\ chain \in Seq(Server)
    BY BookTypes DEF BankMaster, DetectJoin
  <1>2. \A i \in DOMAIN chain : i \in DOMAIN chain' /\ chain'[i] = chain[i]
    BY <1>1, AppendProperties
  <1> QED BY <1>1, <1>2 DEF OrderKept, Alive, Precedes

\* A server is taken out of the chain when it is gone.
LEMMA NotifyOrder ==
  ASSUME ChainInv, BankMaster, NEW n \in notices, ServerNotify(n)
  PROVE  OrderKept
  <1>1. UNCHANGED <<up, asleep>> /\ chain \in Seq(Server) /\ n \in Notice
    BY BookTypes DEF BankMaster, ServerNotify
  <1>2. CASE chain' = chain
    BY <1>1, <1>2 DEF OrderKept, Alive, Precedes
  <1>3. CASE chain' # chain
    <2>1. PICK s \in Server : s = n.srv
      BY <1>1 DEF Notice
    <2>2. n.kind = "Fail" /\ InChain(s) /\ chain' = Removed(s)
      BY <1>3, <2>1 DEF ServerNotify
    <2>3. PICK k \in DOMAIN chain : k = IndexOf(s) /\ chain[k] = s
      BY <2>2, IndexFound DEF ChainInv, BankInv
    <2>4. chain' = Drop(chain, k)
      BY <2>2, <2>3 DEF Removed, Drop
    <2>5. ~Alive(s)'
      BY <1>1, <2>1, <2>2 DEF Alive, ChainInv, Known
    <2>6. /\ DOMAIN chain' = 1..(Len(chain) - 1) /\ DOMAIN chain = 1..Len(chain)
          /\ Len(chain) \in Nat
          /\ \A i \in 1..(Len(chain) - 1) :
                chain'[i] = IF i < k THEN chain[i] ELSE chain[i + 1]
      BY <1>1, <2>4, DropIndex
    <2>7. ASSUME NEW a, NEW b, NEW i \in DOMAIN chain, NEW j \in DOMAIN chain, i < j,
                 chain[i] = a, chain[j] = b, Alive(a)', Alive(b)'
          PROVE  Precedes(a, b)'
      <3> DEFINE Now(h) == IF h < k THEN h ELSE h - 1
      <3>1. i # k /\ j # k
        BY <2>3, <2>5, <2>7
      <3>2. /\ Now(i) \in DOMAIN chain' /\ chain'[Now(i)] = a
            /\ Now(j) \in DOMAIN chain' /\ chain'[Now(j)] = b
            /\ Now(i) < Now(j)
        BY <2>6, <2>7, <3>1
      <3> HIDE DEF Now
      <3> QED BY <3>2 DEF Precedes
    <2> QED BY <1>1, <2>7 DEF OrderKept, Alive, Precedes
  <1> QED BY <1>2, <1>3

LEMMA NextOrder ==
  ASSUME ChainInv, [Next]_vars
  PROVE  OrderKept
  <1>1. ASSUME NEW s \in Server, BankStart(s)
        PROVE  OrderKept
    BY <1>1, BookTypes DEF BankStart, masterVars, OrderKept, Alive, Precedes
  <1>2. CASE BankMaster
    <2>1. ASSUME NEW s \in Server, DetectFail(s)
          PROVE  OrderKept
      BY <1>2, <2>1 DEF BankMaster, DetectFail, OrderKept, Alive, Precedes
    <2> QED BY <1>2, <2>1, JoinOrder, NotifyOrder DEF BankMaster
  <1>3. CASE EndsOnly
    BY <1>3, BookTypes DEF EndsOnly, OrderKept, Alive, Precedes
  <1>4. \A m \in MasterThread : ~BankMasterOverlap(m)
    BY DEF BankMasterOverlap, ChainInv
  <1> QED BY <1>1, <1>2, <1>3, <1>4, OthersEnd DEF Next, Finished

-----------------------------------------------------------------------------
(* The kinds of steps.                                                     *)

\* A server ends.
Dies(s) == Down(s) /\ UNCHANGED <<clientVars, masterVars, asleep>>

\* Main takes a message or goes on with a synchronization.
Works(s) ==
    /\ MainLoop(s) \/ Synchronize(s)
    /\ ~Down(s)
    /\ PromptThreads => ~Busy(s)
    /\ UNCHANGED <<clientVars, masterVars, asleep>>

\* A thread runs.
Runs(s, t) ==
    ThreadStep(s, t) /\ ~Down(s) /\ UNCHANGED <<clientVars, masterVars, asleep>>

LEMMA StepKinds ==
  ASSUME PromptThreads, ChainInv, [Next]_vars
  PROVE  \/ \E s \in Server : BankStart(s) \/ Dies(s) \/ Works(s)
         \/ \E s \in Server, t \in ThreadId : Runs(s, t)
         \/ BankTimer \/ BankReceive \/ BankMaster
         \/ UNCHANGED vars
  <1>1. ASSUME NEW s \in Server, BankKill(s)
        PROVE  Dies(s)
    BY <1>1 DEF BankKill, Kill, Dies
  <1>2. ASSUME NEW s \in Server, BankMain(s)
        PROVE  Dies(s) \/ Works(s)
    BY <1>2 DEF BankMain, Dies, Works
  <1>3. ASSUME NEW s \in Server, NEW t \in ThreadId, BankThread(s, t)
        PROVE  Dies(s) \/ Runs(s, t)
    BY <1>3 DEF BankThread, Dies, Runs
  <1>4. /\ \A s \in Server : ~BankOverlap(s)
        /\ \A m \in MasterThread : ~BankMasterOverlap(m)
    BY DEF BankOverlap, BankMasterOverlap, ChainInv
  <1> QED BY <1>1, <1>2, <1>3, <1>4 DEF Next, Finished

\* What main does to another server: it connects to its next.
LEMMA WorksElsewhere ==
  ASSUME ChainInv, NEW s \in Server, Works(s), NEW u \in Server, u # s
  PROVE  /\ next'[u] = next[u] /\ udp'[u] = udp[u]
         /\ sent'[u] = sent[u] /\ proc'[u] = proc[u] /\ applied'[u] = applied[u]
         /\ args'[u] = args[u] /\ thr'[u] = thr[u]
         /\ \/ tcp'[u] = tcp[u]
            \/ /\ up[u] /\ u = next[s]
               /\ \E m \in Text : tcp'[u] = Append(tcp[u], [msg |-> m, conn |-> NoConn])
  <1> USE BookTypes DEF Works, books, wireVars
  <1>1. CASE RecvNotification(s) \/ DropRequest(s)
    BY <1>1 DEF RecvNotification, DropRequest, TakeDatagram
  <1>2. CASE RecvRequest(s) \/ AcceptRequest(s)
    BY <1>2 DEF RecvRequest, AcceptRequest, TakeDatagram, TakePacket, Spawn
  <1>3. CASE AcceptSyncSent(s)
    <2>1. Head(tcp[s]).msg \in Text
      BY <1>3, HeadPacketType, BankInvNow DEF AcceptSyncSent, Accepts, ChainInv
    <2>2. ~isTail(s) => next[s] \in Server /\ up[next[s]]
      BY <1>3 DEF AcceptSyncSent, NextUp
    <2>3. \/ tcp'[u] = tcp[u]
          \/ /\ up[u] /\ u = next[s]
             /\ \E m \in Text : tcp'[u] = Append(tcp[u], [msg |-> m, conn |-> NoConn])
      BY <1>3, <2>1, <2>2 DEF AcceptSyncSent
    <2> QED BY <1>3, <2>3 DEF AcceptSyncSent
  <1>4. CASE AcceptSyncSentNoNext(s)
    BY <1>4 DEF AcceptSyncSentNoNext, TakePacket
  <1>5. CASE AcceptSyncProc(s)
    BY <1>5 DEF AcceptSyncProc, TakePacket, Credit
  <1>6. CASE SyncSentTrans(s)
    <2>1. PICK r \in Unsent(s) : Connect(next[s], Push("SyncSent", r), NoConn)
      BY <1>6 DEF SyncSentTrans
    <2>2. Push("SyncSent", r) \in Text
      BY <2>1, PushType DEF Unsent
    <2> QED BY <1>6, <2>1, <2>2 DEF SyncSentTrans, Connect, NextUp
  <1>7. CASE SyncProcTrans(s)
    <2>1. PICK r \in Ahead(s) : Connect(next[s], Push("SyncProc", r), NoConn)
      BY <1>7 DEF SyncProcTrans
    <2>2. Push("SyncProc", r) \in Text
      BY <2>1, PushType DEF Ahead
    <2> QED BY <1>7, <2>1, <2>2 DEF SyncProcTrans, Connect, NextUp
  <1>8. CASE SyncSentEnd(s) \/ SyncDone(s)
    BY <1>8 DEF SyncSentEnd, SyncDone
  <1> QED BY <1>1, <1>2, <1>3, <1>4, <1>5, <1>6, <1>7, <1>8
          DEF MainLoop, Synchronize, ExpireOnRequest, ExpireOnAccept

\* What main leaves as it is.
LEMMA WorksUp ==
  ASSUME NEW s \in Server, Works(s)
  PROVE  up[s] /\ up' = up
  BY DEF Works, MainLoop, Synchronize, RecvNotification, DropRequest, RecvRequest,
         ExpireOnRequest, AcceptRequest, ExpireOnAccept, AcceptSyncSent,
         AcceptSyncProc, AcceptSyncSentNoNext, SyncSentTrans, SyncSentEnd, SyncProcTrans,
         SyncDone, wireVars, RequestWaiting, Datagram, Accepts, Listening

LEMMA RunsUp ==
  ASSUME NEW s \in Server, NEW t \in ThreadId, Runs(s, t)
  PROVE  up[s] /\ up' = up /\ udp' = udp /\ next' = next /\ args' = args
  BY DEF Runs, ThreadStep, SyncConnect, SyncNullNext, SyncAdd, SyncEof, SyncAcked,
         SyncHist, ReplyStart, ProcCheck, ProcApply, ReplyHist, ReplySend,
         ReplyNowhere, ReplyAck, wireVars, At

\* What a thread does to another server: it connects to its next, or
\* acknowledges to the one before.
LEMMA RunsElsewhere ==
  ASSUME ChainInv, NEW s \in Server, NEW t \in ThreadId, Runs(s, t),
         NEW u \in Server, u # s
  PROVE  /\ sent'[u] = sent[u] /\ proc'[u] = proc[u] /\ applied'[u] = applied[u]
         /\ \/ tcp'[u] = tcp[u]
            \/ /\ up[u] /\ u = next[s]
               /\ tcp'[u] = Append(tcp[u], [msg |-> buf[s], conn |-> [srv |-> s, thr |-> t]])
  <1> USE BookTypes DEF Runs, books, wireVars
  <1>1. CASE SyncConnect(s, t)
    BY <1>1 DEF SyncConnect, Connect, NextUp
  <1>2. CASE SyncAcked(s, t) \/ ReplyAck(s, t)
    BY <1>2 DEF SyncAcked, ReplyAck
  <1>3. CASE SyncAdd(s, t) \/ SyncEof(s, t) \/ SyncHist(s, t) \/ ReplyHist(s, t)
    BY <1>3 DEF SyncAdd, SyncEof, SyncHist, ReplyHist
  <1>4. CASE ReplyStart(s, t) \/ ProcCheck(s, t) \/ ReplySend(s, t)
    BY <1>4 DEF ReplyStart, ProcCheck, ReplySend
  <1>5. CASE ProcApply(s, t)
    BY <1>5 DEF ProcApply, Credit
  <1> QED BY <1>1, <1>2, <1>3, <1>4, <1>5 DEF ThreadStep, SyncNullNext, ReplyNowhere

LEMMA RunsOthers ==
  ASSUME ChainInv, NEW s \in Server, NEW t \in ThreadId, Runs(s, t),
         NEW u \in Server, u # s, NEW w \in ThreadId
  PROVE  \/ thr'[u][w] = thr[u][w]
         \/ /\ Args(s, t).conn.srv = u /\ Args(s, t).conn.thr = w
            /\ thr[s][t].pc \in {"wait", "ack"}
            /\ thr[u][w].peer = s /\ thr[u][w].ack = "none"
            /\ thr'[u][w] = WithAck(thr[u][w], "acked")
  <1> USE BookTypes DEF Runs
  <1>1. CASE SyncConnect(s, t)
    BY <1>1 DEF SyncConnect, Ends
  <1>2. CASE SyncAcked(s, t) \/ ReplyAck(s, t)
    <2> DEFINE c == Args(s, t).conn
               TT == Acked(thr, s, c)
    <2>1. c \in Conn
      BY DEF Args, ArgsSet, Thread
    <2>2. thr'[u] = TT[u]
      <3>1. TT \in [Server -> [ThreadId -> Thread]]
        BY <2>1, AckedType, BankInvNow, ServerInvThreads DEF ThreadTables, ChainInv
      <3> HIDE DEF TT
      <3> QED BY <1>2, <3>1 DEF SyncAcked, ReplyAck, TT
    <2> HIDE DEF TT, c
    <2>3. \/ TT[u][w] = thr[u][w]
          \/ /\ c.srv = u /\ c.thr = w
             /\ thr[u][w].peer = s /\ thr[u][w].ack = "none"
             /\ TT[u][w] = WithAck(thr[u][w], "acked")
      <3>1. thr \in [Server -> [ThreadId -> Thread]]
        OBVIOUS
      <3>2. \/ Acked(thr, s, c)[u][w] = thr[u][w]
            \/ /\ c.srv = u /\ c.thr = w
               /\ thr[u][w].peer = s /\ thr[u][w].ack = "none"
               /\ Acked(thr, s, c)[u][w] = WithAck(thr[u][w], "acked")
        BY ONLY s \in Server, u \in Server, w \in ThreadId, <2>1, <3>1, AckedWhom
      <3> QED BY <3>2 DEF TT
    <2>4. thr[s][t].pc \in {"wait", "ack"}
      BY <1>2 DEF SyncAcked, ReplyAck, At
    <2> QED BY <2>2, <2>3, <2>4 DEF c
  <1>3. CASE SyncAdd(s, t) \/ SyncEof(s, t) \/ SyncHist(s, t) \/ ReplyHist(s, t)
    BY <1>3 DEF SyncAdd, SyncEof, SyncHist, ReplyHist, Goto, Ends
  <1>4. CASE ReplyStart(s, t) \/ ProcCheck(s, t) \/ ReplySend(s, t)
    BY <1>4 DEF ReplyStart, ProcCheck, ReplySend, Goto
  <1>5. CASE ProcApply(s, t)
    BY <1>5 DEF ProcApply
  <1> QED BY <1>1, <1>2, <1>3, <1>4, <1>5 DEF ThreadStep, SyncNullNext, ReplyNowhere

\* Clients change nothing of a server, but what it has to read.
LEMMA ClientsElsewhere ==
  ASSUME ChainInv, BankTimer \/ BankReceive
  PROVE  /\ UNCHANGED <<up, tcp, serverVars, masterVars, asleep>>
         /\ \/ udp' = udp
            \/ \E u \in Server :
                  up[u] /\ udp' = [udp EXCEPT ![u] = Append(@, Raw(Current))]
  BY DEF BankTimer, BankReceive, OpenSocket, SendRequest, Resend, GiveUp,
         RecvReply, RecvFail, RecvExtension, ToServer

\* Nor does the master.
LEMMA MasterElsewhere ==
  ASSUME ChainInv, BankMaster
  PROVE  /\ UNCHANGED <<up, tcp, serverVars, asleep>>
         /\ \/ udp' = udp
            \/ \E n \in notices : ServerNotify(n)
  BY DEF BankMaster, DetectFail, DetectJoin, ServerNotify

\* What server_notify tells, and whom: the one after it in the chain.
LEMMA NotifyWrites ==
  ASSUME ChainInv, ChainInv', BankMaster, NEW n \in notices, ServerNotify(n)
  PROVE  \/ udp' = udp
         \/ \E u \in Server, m \in NotiText :
               /\ up[u] /\ udp' = [udp EXCEPT ![u] = Append(@, m)]
               /\ m.port = NoServer \/ Precedes(u, m.port)'
  <1>1. /\ chain \in Seq(Server) /\ n \in Notice /\ chain' \in Seq(Server)
        /\ udp \in [Server -> Seq(Text)]
    BY BookTypes DEF ChainInv, BankInv, TypeOK, MasterTypeOK
  <1>2. CASE ~InChain(n.srv)
    BY <1>2 DEF ServerNotify
  <1>3. CASE InChain(n.srv)
    <2>1. PICK s \in Server : s = n.srv
      BY <1>1 DEF Notice
    <2>2. PICK k \in DOMAIN chain : k = IndexOf(n.srv) /\ chain[k] = s
      BY <1>3, <2>1, IndexFound DEF ChainInv, BankInv
    <2> DEFINE link == IF k \in DOMAIN chain' THEN chain'[k] ELSE NoServer
               kind == NotiOf(n.kind)
    <2>10. link \in Server \cup {NoServer} /\ kind \in NotiKind
      BY <1>1 DEF NotiKind, NotiOf
    <2>0. PICK p \in Server \cup {NoServer}, w \in NotiKind : p = link /\ w = kind
      BY <2>10
    <2> DEFINE m == Noti(w, p)
    <2>3. /\ chain' = IF n.kind = "Fail" THEN Drop(chain, k) ELSE chain
          /\ k = 1 => udp' = udp
          /\ k # 1 => ToServer(chain[k - 1], m)
      BY <1>3, <2>0, <2>2 DEF ServerNotify, Removed, Drop
    <2>4. CASE k = 1
      BY <2>3, <2>4
    <2>5. CASE k # 1
      <3>1. k - 1 \in DOMAIN chain /\ k - 1 \in DOMAIN chain' /\ k - 1 < k
            /\ chain'[k - 1] = chain[k - 1]
        <4>1. k \in 1..Len(chain) /\ DOMAIN chain = 1..Len(chain) /\ Len(chain) \in Nat
          BY <1>1
        <4>2. CASE n.kind = "Fail"
          <5>0. chain' = Drop(chain, k)
            BY <2>3, <4>2
          <5>1. /\ chain' \in Seq(Server) /\ Len(chain') = Len(chain) - 1
                /\ DOMAIN chain' = 1..(Len(chain) - 1)
                /\ \A i \in 1..(Len(chain) - 1) :
                      chain'[i] = IF i < k THEN chain[i] ELSE chain[i + 1]
            <6>1. /\ Drop(chain, k) \in Seq(Server) /\ Len(Drop(chain, k)) = Len(chain) - 1
                  /\ \A i \in 1..(Len(chain) - 1) :
                        Drop(chain, k)[i] = IF i < k THEN chain[i] ELSE chain[i + 1]
              BY ONLY k \in DOMAIN chain, <1>1, DropIndex
            <6>2. DOMAIN chain' = 1..Len(chain')
              BY <1>1
            <6> QED BY ONLY <5>0, <6>1, <6>2
          <5> QED BY <2>5, <4>1, <5>1
        <4>3. CASE n.kind # "Fail"
          BY <2>3, <2>5, <4>1, <4>3
        <4> QED BY <4>2, <4>3
      <3>2. PICK u \in Server : u = chain[k - 1]
        BY <1>1, <3>1
      <3>3. p = NoServer \/ Precedes(u, p)'
        BY <2>0, <3>1, <3>2 DEF Precedes
      <3>4. m \in NotiText /\ m.port = p
        BY NotiType DEF Noti
      <3>5. udp' = udp \/ (up[u] /\ udp' = [udp EXCEPT ![u] = Append(@, m)])
        BY <2>3, <2>5, <3>2 DEF ToServer
      <3> HIDE DEF m
      <3> QED BY <3>3, <3>4, <3>5
    <2> QED BY <2>4, <2>5
  <1> QED BY <1>2, <1>3

-----------------------------------------------------------------------------
(* A process that is not there has nothing.                                *)

LEMMA BlankStays ==
  ASSUME PromptThreads, ChainInv, ChainInv', [Next]_vars, NEW u \in Server,
         ~up[u], ~up'[u], Blank(u)
  PROVE  Blank(u)'
  <1>1. /\ thr' \in [Server -> [ThreadId -> Thread]] /\ thr'[u] \in [ThreadId -> Thread]
        /\ thr[u] = [t \in ThreadId |-> Idle] /\ up \in [Server -> BOOLEAN]
        /\ tcp \in [Server -> Seq(Packet)] /\ udp \in [Server -> Seq(Text)]
    BY BookTypes DEF Blank, ChainInv, BankInv, TypeOK, ServerTypeOK
  <1>9. \A t \in ThreadId : thr[u][t] = Idle /\ thr[u][t].peer \notin Server
    <2>1. \A t \in ThreadId : thr[u][t] = Idle
      BY <1>1
    <2>2. Idle.peer \notin Server
      BY WireAssumption DEF Idle
    <2> QED BY <2>1, <2>2
  <1>2. ASSUME NEW s \in Server, BankStart(s)
        PROVE  Blank(u)'
    BY <1>2 DEF BankStart, serverVars, books, Blank
  <1>3. ASSUME NEW s \in Server, Dies(s)
        PROVE  Blank(u)'
    <2>1. thr'[u] = [t \in ThreadId |-> Idle]
      <3>1. \A t \in ThreadId : thr'[u][t] = Idle
        BY <1>3, <1>9, DownThread DEF Dies
      <3> QED BY <1>1, <3>1
    <2> QED BY <1>3, <2>1, BookTypes DEF Dies, Down, Blank
  <1>4. ASSUME NEW s \in Server, Works(s)
        PROVE  Blank(u)'
    BY <1>4, WorksUp, WorksElsewhere DEF Blank
  <1>5. ASSUME NEW s \in Server, NEW t \in ThreadId, Runs(s, t)
        PROVE  Blank(u)'
    <2>1. u # s /\ next'[u] = next[u] /\ udp'[u] = udp[u] /\ args'[u] = args[u]
      BY <1>5, RunsUp
    <2>2. tcp'[u] = tcp[u] /\ proc'[u] = proc[u] /\ applied'[u] = applied[u]
      BY <1>5, <2>1, RunsElsewhere
    <2>3. \A w \in ThreadId : thr'[u][w] = Idle
      <3> SUFFICES ASSUME NEW w \in ThreadId
                   PROVE  thr'[u][w] = Idle
        OBVIOUS
      <3>1. thr'[u][w] = thr[u][w] \/ thr[u][w].peer = s
        BY <1>5, <2>1, RunsOthers
      <3> QED BY <1>9, <3>1
    <2>4. thr'[u] = [w \in ThreadId |-> Idle]
      BY <1>1, <2>3
    <2> QED BY <2>1, <2>2, <2>4 DEF Blank
  <1>6. CASE BankTimer \/ BankReceive
    BY <1>1, <1>6, ClientsElsewhere DEF serverVars, books, Blank
  <1>7. CASE BankMaster
    BY <1>1, <1>7, MasterElsewhere, NotifyWrites DEF serverVars, books, Blank
  <1>8. CASE UNCHANGED vars
    BY <1>8 DEF vars, wireVars, serverVars, books, Blank
  <1> QED BY <1>2, <1>3, <1>4, <1>5, <1>6, <1>7, <1>8, StepKinds

LEMMA SilentNext ==
  ASSUME PromptThreads, ChainInv, ChainInv', Silent, [Next]_vars
  PROVE  Silent'
  <1> SUFFICES ASSUME NEW u \in Server, ~up'[u], up[u]
               PROVE  Blank(u)'
    BY BlankStays DEF Silent
  <1>1. ASSUME NEW s \in Server, Dies(s)
        PROVE  Blank(u)'
    <2>1. u = s
      BY <1>1, BookTypes DEF Dies, Down
    <2> QED BY <1>1, <2>1, BookTypes DEF Dies, Down, Blank
  <1>2. ASSUME NEW s \in Server, BankStart(s)
        PROVE  FALSE
    BY <1>2, BookTypes DEF BankStart
  <1>3. CASE UNCHANGED vars
    BY <1>3 DEF vars, wireVars
  <1> QED BY <1>1, <1>2, <1>3, StepKinds, WorksUp, RunsUp, ClientsElsewhere, MasterElsewhere

-----------------------------------------------------------------------------
(* Requests go down the chain.                                             *)

\* Nobody is next to itself.
LEMMA NextOther ==
  ASSUME ChainInv, Downward, NEW s \in Server, NextUp(s)
  PROVE  next[s] # s /\ next[s] \in Server /\ Precedes(s, next[s])
  BY PrecedesOrder DEF Downward, NextUp, Alive

\* What server u knows, has to read and is asked after a step was there before,
\* or comes from the master, or from the server before.
Derived(u) ==
    /\ \/ next'[u] = next[u]
       \/ \E m \in Elements(udp[u]) : IsNoti(m) /\ next'[u] = m.port
    /\ \A m \in Elements(udp'[u]) : IsNoti(m) =>
          m \in Elements(udp[u]) \/ m.port = NoServer \/ Precedes(u, m.port)'
    /\ \A p \in Elements(tcp'[u]) :
          \/ p \in Elements(tcp[u]) \/ p.conn.srv = NoServer
          \/ p.conn.srv \in Server /\ next[p.conn.srv] = u
    /\ \A c \in Chan :
          \/ args'[u][c] = args[u][c] \/ args'[u][c].conn.srv = NoServer
          \/ \E p \in Elements(tcp[u]) : args'[u][c].conn = p.conn

LEMMA DerivedDownward ==
  ASSUME Downward, OrderKept, Silent', \A u \in Server : up'[u] => Derived(u)
  PROVE  Downward'
  <1> DEFINE Fits(s) ==
                /\ Alive(next[s]) => Precedes(s, next[s])
                /\ \A m \in Elements(udp[s]) : IsNoti(m) /\ Alive(m.port) => Precedes(s, m.port)
                /\ \A p \in Elements(tcp[s]) : Alive(p.conn.srv) => Precedes(p.conn.srv, s)
                /\ \A c \in Chan :
                      Alive(args[s][c].conn.srv) => Precedes(args[s][c].conn.srv, s)
  <1>1. ~Alive(NoServer)'
    BY WireAssumption DEF Alive
  <1>2. ASSUME NEW s \in Server, ~up'[s]
        PROVE  Fits(s)'
    <2>1. next'[s] = NoServer /\ udp'[s] = <<>> /\ tcp'[s] = <<>>
          /\ args'[s] = [c \in Chan |-> NoArgs]
      BY <1>2 DEF Silent, Blank
    <2>2. Elements(<<>>) = {} /\ NoArgs.conn.srv = NoServer
      BY DEF Elements, NoArgs, NoConn
    <2>3. \A c \in Chan : args'[s][c].conn.srv = NoServer
      BY <2>1, <2>2
    <2> QED BY <1>1, <2>1, <2>2, <2>3
  <1>3. ASSUME NEW s \in Server, up'[s]
        PROVE  Fits(s)'
    <2>1. Derived(s) /\ Fits(s) /\ Alive(s)'
      BY <1>3 DEF Downward, Alive
    <2>2. ASSUME NEW p, Alive(p)', Alive(p) => Precedes(s, p)
          PROVE  Precedes(s, p)'
      BY <2>1, <2>2 DEF OrderKept
    <2>3. ASSUME NEW p, Alive(p)', Alive(p) => Precedes(p, s)
          PROVE  Precedes(p, s)'
      BY <2>1, <2>3 DEF OrderKept
    <2>4. Alive(next[s])' => Precedes(s, next[s])'
      BY <2>1, <2>2 DEF Derived
    <2>5. \A m \in Elements(udp'[s]) : IsNoti(m) /\ Alive(m.port)' => Precedes(s, m.port)'
      BY <1>1, <2>1, <2>2 DEF Derived
    <2>6. \A p \in Elements(tcp'[s]) : Alive(p.conn.srv)' => Precedes(p.conn.srv, s)'
      <3> SUFFICES ASSUME NEW p \in Elements(tcp'[s]), Alive(p.conn.srv)'
                   PROVE  Precedes(p.conn.srv, s)'
        OBVIOUS
      <3>1. CASE p \in Elements(tcp[s])
        BY <2>1, <2>3, <3>1
      <3>2. CASE p.conn.srv \in Server /\ next[p.conn.srv] = s
        <4>1. Alive(s)
          BY <2>1 DEF OrderKept
        <4>2. Precedes(p.conn.srv, s)
          BY <3>2, <4>1 DEF Downward
        <4> QED BY <2>3, <4>2
      <3> QED BY <1>1, <2>1, <3>1, <3>2 DEF Derived
    <2>7. ASSUME NEW c \in Chan, Alive(args[s][c].conn.srv)'
          PROVE  Precedes(args[s][c].conn.srv, s)'
      BY <1>1, <2>1, <2>3, <2>7 DEF Derived
    <2> QED BY <2>4, <2>5, <2>6, <2>7
  <1>4. \A s \in Server : Fits(s)'
    BY <1>2, <1>3
  <1> QED BY <1>4 DEF Downward

\* Main.
LEMMA WorksDerived ==
  ASSUME ChainInv, Downward, NEW s \in Server, Works(s), NEW u \in Server
  PROVE  Derived(u)
  <1> USE BookTypes
  <1>1. NoConn.srv = NoServer
    BY DEF NoConn
  <1>2. CASE u # s
    <2>1. /\ next'[u] = next[u] /\ udp'[u] = udp[u] /\ args'[u] = args[u]
          /\ \/ tcp'[u] = tcp[u]
             \/ \E m \in Text : tcp'[u] = Append(tcp[u], [msg |-> m, conn |-> NoConn])
      BY <1>2, WorksElsewhere
    <2>2. \A p \in Elements(tcp'[u]) : p \in Elements(tcp[u]) \/ p.conn = NoConn
      <3>1. ASSUME tcp'[u] # tcp[u]
            PROVE  \A p \in Elements(tcp'[u]) : p \in Elements(tcp[u]) \/ p.conn = NoConn
        <4>1. PICK m \in Text : tcp'[u] = Append(tcp[u], [msg |-> m, conn |-> NoConn])
          BY <2>1, <3>1
        <4>2. PICK p \in Packet : p = [msg |-> m, conn |-> NoConn]
          BY NoConnType, PacketType
        <4>3. Elements(tcp'[u]) = Elements(tcp[u]) \cup {p} /\ p.conn = NoConn
          BY <4>1, <4>2, AppendElements
        <4> QED BY <4>3
      <3> QED BY <3>1
    <2> QED BY <1>1, <2>1, <2>2 DEF Derived
  <1>3. CASE u = s
    <2>1. tcp[s] # <<>> => Elements(Tail(tcp[s])) \subseteq Elements(tcp[s])
                           /\ Head(tcp[s]) \in Elements(tcp[s])
      BY TailElements
    <2>2. udp[s] # <<>> => Elements(Tail(udp[s])) \subseteq Elements(udp[s])
                           /\ Head(udp[s]) \in Elements(udp[s])
      BY TailElements
    <2>3. CASE RecvNotification(s)
      <3>1. /\ udp[s] # <<>> /\ IsNoti(Head(udp[s])) /\ udp'[s] = Tail(udp[s])
            /\ next'[s] = Head(udp[s]).port /\ tcp' = tcp /\ args' = args
        BY <2>3 DEF RecvNotification, Datagram, TakeDatagram, IsNoti
      <3> QED BY <1>3, <2>2, <3>1 DEF Derived
    <2>4. CASE DropRequest(s) \/ RecvRequest(s)
      <3>1. /\ udp[s] # <<>> /\ udp'[s] = Tail(udp[s]) /\ next' = next /\ tcp' = tcp
            /\ \A c \in Chan : args'[s][c] = args[s][c] \/ args'[s][c].conn = NoConn
        BY <2>4 DEF DropRequest, RecvRequest, RequestWaiting, Datagram, TakeDatagram, Chan
      <3> QED BY <1>1, <1>3, <2>2, <3>1 DEF Derived
    <2>5. CASE AcceptRequest(s)
      <3>1. /\ tcp[s] # <<>> /\ tcp'[s] = Tail(tcp[s]) /\ next' = next /\ udp' = udp
            /\ \A c \in Chan :
                  args'[s][c] = args[s][c] \/ args'[s][c].conn = Head(tcp[s]).conn
        BY <2>5 DEF AcceptRequest, Accepts, TakePacket, Chan
      <3> QED BY <1>3, <2>1, <3>1 DEF Derived
    <2>6. CASE AcceptSyncSent(s) \/ AcceptSyncSentNoNext(s) \/ AcceptSyncProc(s)
      <3>1. /\ tcp[s] # <<>> /\ next' = next /\ udp' = udp /\ args' = args
        BY <2>6 DEF AcceptSyncSent, AcceptSyncSentNoNext, AcceptSyncProc, Accepts, Works
      <3>2. tcp'[s] = Tail(tcp[s])
        <4>1. CASE AcceptSyncSent(s)
          <5>1. isTail(s) \/ (next[s] # s /\ next[s] \in Server)
            BY <4>1, NextOther DEF AcceptSyncSent
          <5> QED BY <4>1, <5>1 DEF AcceptSyncSent
        <4>2. CASE AcceptSyncSentNoNext(s) \/ AcceptSyncProc(s)
          BY <4>2 DEF AcceptSyncSentNoNext, AcceptSyncProc, TakePacket, Works
        <4> QED BY <2>6, <4>1, <4>2
      <3> QED BY <1>3, <2>1, <3>1, <3>2 DEF Derived
    <2>7. CASE Synchronize(s)
      <3>1. next' = next /\ udp' = udp /\ args' = args
        BY <2>7 DEF Synchronize, SyncSentTrans, SyncSentEnd, SyncProcTrans, SyncDone, wireVars
      <3>2. tcp'[s] = tcp[s]
        BY <2>7, NextOther
           DEF Synchronize, SyncSentTrans, SyncSentEnd, SyncProcTrans, SyncDone, wireVars,
                               Connect
      <3> QED BY <1>3, <3>1, <3>2 DEF Derived
    <2> QED BY <2>3, <2>4, <2>5, <2>6, <2>7
            DEF Works, MainLoop, ExpireOnRequest, ExpireOnAccept
  <1> QED BY <1>2, <1>3

\* The threads.
LEMMA RunsDerived ==
  ASSUME ChainInv, Downward, NEW s \in Server, NEW t \in ThreadId, Runs(s, t),
         NEW u \in Server
  PROVE  Derived(u)
  <1> USE BookTypes
  <1>1. next' = next /\ udp' = udp /\ args' = args
    BY RunsUp
  <1>2. CASE u # s
    <2> DEFINE p == [msg |-> buf[s], conn |-> [srv |-> s, thr |-> t]]
    <2>1. tcp'[u] = tcp[u] \/ (u = next[s] /\ tcp'[u] = Append(tcp[u], p))
      BY <1>2, RunsElsewhere
    <2>2. p \in Packet /\ p.conn.srv = s
      BY PacketType DEF Conn
    <2> HIDE DEF p
    <2>3. CASE u = next[s] /\ tcp'[u] = Append(tcp[u], p)
      <3>1. Elements(tcp'[u]) = Elements(tcp[u]) \cup {p}
        BY <2>2, <2>3, AppendElements
      <3> QED BY <1>1, <2>2, <2>3, <3>1 DEF Derived
    <2> QED BY <1>1, <2>1, <2>3 DEF Derived
  <1>3. CASE u = s
    <2>1. tcp'[s] = tcp[s]
      BY NextOther DEF Runs, ThreadStep, SyncConnect, SyncNullNext, SyncAdd, SyncEof,
                       SyncAcked, SyncHist, ReplyStart, ProcCheck, ProcApply,
                       ReplyHist, ReplySend, ReplyNowhere, ReplyAck, wireVars, Connect
    <2> QED BY <1>1, <1>3, <2>1 DEF Derived
  <1> QED BY <1>2, <1>3

LEMMA DownwardNext ==
  ASSUME PromptThreads, ChainInv, ChainInv', Downward, Silent', [Next]_vars
  PROVE  Downward'
  <1> USE BookTypes
  <1> SUFFICES ASSUME NEW u \in Server, up'[u]
               PROVE  Derived(u)
    BY NextOrder, DerivedDownward
  <1>1. ASSUME NEW m \in Text, IsNoti(m) => m.port = NoServer \/ Precedes(u, m.port)',
               udp'[u] = Append(udp[u], m), UNCHANGED <<next, tcp, args>>
        PROVE  Derived(u)
    <2>1. Elements(udp'[u]) = Elements(udp[u]) \cup {m}
      BY <1>1, AppendElements
    <2> QED BY <1>1, <2>1 DEF Derived
  <1>2. ASSUME UNCHANGED <<next, tcp, args>>, udp'[u] = udp[u]
        PROVE  Derived(u)
    BY <1>2 DEF Derived
  <1>3. ASSUME NEW s \in Server, BankStart(s)
        PROVE  Derived(u)
    BY <1>2, <1>3 DEF BankStart, serverVars
  <1>4. ASSUME NEW s \in Server, Dies(s)
        PROVE  Derived(u)
    BY <1>4 DEF Dies, Down, Derived
  <1>5. ASSUME BankTimer \/ BankReceive
        PROVE  Derived(u)
    <2>1. Raw(Current) \in Text /\ ~IsNoti(Raw(Current))
      BY CurrentType, RawType DEF IsNoti, Raw, NotiKind, ChainInv, BankInv, TypeOK
    <2>2. UNCHANGED <<next, tcp, args>>
          /\ (udp'[u] = udp[u] \/ udp'[u] = Append(udp[u], Raw(Current)))
      BY <1>5, ClientsElsewhere DEF serverVars
    <2> QED BY <1>1, <1>2, <2>1, <2>2
  <1>6. ASSUME BankMaster
        PROVE  Derived(u)
    <2>1. UNCHANGED <<next, tcp, args>>
      BY <1>6, MasterElsewhere DEF serverVars
    <2>2. \/ udp'[u] = udp[u]
          \/ \E m \in NotiText : /\ udp'[u] = Append(udp[u], m)
                                 /\ m.port = NoServer \/ Precedes(u, m.port)'
      BY <1>6, MasterElsewhere, NotifyWrites
    <2>3. NotiText \subseteq Text
      BY DEF Text
    <2> QED BY <1>1, <1>2, <2>1, <2>2, <2>3
  <1>7. ASSUME UNCHANGED vars
        PROVE  Derived(u)
    BY <1>2, <1>7 DEF vars, wireVars, serverVars
  <1> QED BY <1>3, <1>4, <1>5, <1>6, <1>7, WorksDerived, RunsDerived, StepKinds

-----------------------------------------------------------------------------
(* What becomes of threads.                                                *)

LEMMA WithAckFields ==
  ASSUME NEW T \in Thread, NEW a
  PROVE  /\ WithAck(T, a).ack = a
         /\ WithAck(T, a).pc = T.pc /\ WithAck(T, a).role = T.role
         /\ WithAck(T, a).chan = T.chan /\ WithAck(T, a).peer = T.peer
         /\ WithAck(T, a).req = T.req /\ WithAck(T, a).hist = T.hist
  BY DEF WithAck, Thread

LEMMA IdleFields ==
  /\ Idle.pc = "idle" /\ Idle.ack = "none" /\ Idle.role = "Sync"
  /\ Idle.peer = NoServer /\ Idle.peer \notin Server
  BY WireAssumption DEF Idle

\* The thread main starts.
LEMMA SpawnThread ==
  ASSUME ChainInv, NEW s \in Server, NEW c \in Chan, Spawn(s, c)
  PROVE  \E t \in ThreadId :
            /\ thr[s][t].pc = "idle"
            /\ thr'[s][t].pc = IF isTail(s) THEN "start" ELSE "connect"
            /\ thr'[s][t].role = IF isTail(s) THEN "Reply" ELSE "Sync"
            /\ thr'[s][t].chan = c
            /\ thr'[s][t].peer = NoServer /\ thr'[s][t].ack = "none"
            /\ \A u \in Server, w \in ThreadId :
                  u # s \/ w # t => thr'[u][w] = thr[u][w]
  <1> DEFINE free == {t \in ThreadId : thr[s][t].pc = "idle"}
             t0 == CHOOSE t \in free : TRUE
             role == IF isTail(s) THEN "Reply" ELSE "Sync"
             T == [Idle EXCEPT !.role = role, !.chan = c,
                      !.pc = IF role = "Reply" THEN "start" ELSE "connect"]
  <1>1. t0 \in ThreadId /\ thr[s][t0].pc = "idle"
    BY DEF Spawn
  <1>2. /\ T.pc = IF isTail(s) THEN "start" ELSE "connect"
        /\ T.role = role /\ T.chan = c /\ T.peer = NoServer /\ T.ack = "none"
    BY DEF Idle
  <1>3. thr' = [thr EXCEPT ![s][t0] = T]
    BY DEF Spawn
  <1> HIDE DEF t0, T
  <1>4. thr'[s][t0] = T
    BY <1>1, <1>3, BookTypes
  <1>5. \A u \in Server, w \in ThreadId : u # s \/ w # t0 => thr'[u][w] = thr[u][w]
    BY <1>1, <1>3, BookTypes
  <1> QED BY <1>1, <1>2, <1>4, <1>5

\* Nobody has itself to acknowledge to.
LEMMA BackOther ==
  ASSUME ChainInv, Downward, NEW s \in Server, up[s], NEW t \in ThreadId
  PROVE  /\ Args(s, t).conn \in Conn /\ Args(s, t).conn.srv # s
         /\ Args(s, t).req \in Request
  <1>1. thr[s][t].chan \in Chan
    BY BookTypes DEF Thread
  <1>2. Args(s, t) \in ArgsSet
    BY <1>1, BookTypes DEF Args
  <1>3. Args(s, t).conn.srv # s
    BY <1>1, PrecedesOrder DEF Downward, Args, Alive
  <1> QED BY <1>2, <1>3 DEF ArgsSet

\* The other threads of the server go on as they were.
LEMMA RunsSelf ==
  ASSUME ChainInv, Downward, NEW s \in Server, NEW t \in ThreadId, Runs(s, t),
         NEW w \in ThreadId, w # t
  PROVE  thr'[s][w] = thr[s][w]
  <1> USE BookTypes DEF Runs
  <1>1. CASE SyncAcked(s, t) \/ ReplyAck(s, t)
    <2> DEFINE c == Args(s, t).conn
               TT == Acked(thr, s, c)
    <2>1. c.srv # s /\ c \in Conn
      BY RunsUp, BackOther
    <2>2. TT[s] = thr[s] /\ TT \in [Server -> [ThreadId -> Thread]]
      <3>1. TT[s] = thr[s]
        BY <2>1 DEF Acked
      <3>2. TT \in [Server -> [ThreadId -> Thread]]
        BY <2>1, AckedType, BankInvNow, ServerInvThreads DEF ThreadTables, ChainInv
      <3> QED BY <3>1, <3>2
    <2> HIDE DEF TT
    <2>3. thr'[s][w] = TT[s][w]
      BY <1>1, <2>2 DEF SyncAcked, ReplyAck, TT
    <2> QED BY <2>2, <2>3
  <1>2. CASE SyncConnect(s, t) \/ SyncAdd(s, t) \/ SyncEof(s, t) \/ SyncHist(s, t)
             \/ ReplyHist(s, t) \/ ReplySend(s, t)
    BY <1>2 DEF SyncConnect, SyncAdd, SyncEof, SyncHist, ReplyHist, ReplySend, Goto, Ends
  <1>3. CASE ReplyStart(s, t) \/ ProcCheck(s, t)
    BY <1>3 DEF ReplyStart, ProcCheck
  <1>4. CASE ProcApply(s, t)
    BY <1>4 DEF ProcApply
  <1> QED BY <1>1, <1>2, <1>3, <1>4 DEF ThreadStep, SyncNullNext, ReplyNowhere

\* A thread with its connection as it was.
Moved(s, t, from, to) ==
    /\ thr[s][t].pc = from /\ thr'[s][t].pc = to
    /\ thr'[s][t].peer = thr[s][t].peer /\ thr'[s][t].ack = thr[s][t].ack
    /\ thr'[s][t].role = thr[s][t].role /\ thr'[s][t].chan = thr[s][t].chan

\* The thread itself.
LEMMA RunsThread ==
  ASSUME ChainInv, Downward, NEW s \in Server, NEW t \in ThreadId, Runs(s, t)
  PROVE  /\ SyncConnect(s, t) =>
               \/ thr[s][t].pc = "connect" /\ thr'[s][t] = Idle /\ tcp' = tcp
               \/ /\ NextUp(s) /\ thr[s][t].pc = "connect" /\ thr'[s][t].pc = "add"
                  /\ thr'[s][t].peer = next[s] /\ thr'[s][t].ack = thr[s][t].ack
                  /\ thr'[s][t].role = thr[s][t].role /\ thr'[s][t].chan = thr[s][t].chan
         /\ SyncAdd(s, t) => Moved(s, t, "add", "wait")
         /\ SyncEof(s, t) => thr[s][t].ack = "eof" /\ thr'[s][t] = Idle
         /\ SyncAcked(s, t) =>
               /\ thr[s][t].pc = "wait" /\ thr[s][t].ack = "acked"
               /\ thr'[s][t].pc = "check" /\ thr'[s][t].role = "Sync"
               /\ thr'[s][t].peer = NoServer /\ thr'[s][t].ack = "none"
               /\ thr'[s][t].chan = thr[s][t].chan /\ thr'[s][t].req = Args(s, t).req
         /\ ReplyStart(s, t) =>
               Moved(s, t, "start", "check") /\ thr'[s][t].req = Args(s, t).req
         /\ ProcCheck(s, t) =>
               /\ Moved(s, t, "check", "apply") /\ thr'[s][t].req = thr[s][t].req
               /\ thr'[s][t].hist = CheckHist(thr[s][t].req, proc[s])
         /\ ProcApply(s, t) =>
               /\ Moved(s, t, "apply", IF thr[s][t].role = "Reply" THEN "send" ELSE "hist")
               /\ thr'[s][t].req = thr[s][t].req /\ thr'[s][t].hist = thr[s][t].hist
         /\ ReplySend(s, t) =>
               /\ Moved(s, t, "send", "hist")
               /\ thr'[s][t].req = thr[s][t].req /\ thr'[s][t].hist = thr[s][t].hist
         /\ ReplyHist(s, t) => Moved(s, t, "hist", "ack") /\ thr[s][t].role = "Reply"
         /\ SyncHist(s, t) =>
               thr[s][t].pc = "hist" /\ thr[s][t].role = "Sync" /\ thr'[s][t] = Idle
         /\ ReplyAck(s, t) => thr[s][t].pc = "ack" /\ thr'[s][t] = Idle
  <1>1. thr \in [Server -> [ThreadId -> Thread]] /\ thr[s][t] \in Thread
    BY BookTypes
  <1>2. SyncConnect(s, t) =>
           \/ thr[s][t].pc = "connect" /\ thr'[s][t] = Idle /\ tcp' = tcp
           \/ /\ NextUp(s) /\ thr[s][t].pc = "connect" /\ thr'[s][t].pc = "add"
              /\ thr'[s][t].peer = next[s] /\ thr'[s][t].ack = thr[s][t].ack
              /\ thr'[s][t].role = thr[s][t].role /\ thr'[s][t].chan = thr[s][t].chan
    BY <1>1 DEF SyncConnect, Ends, At, Thread
  <1>3. ASSUME SyncAcked(s, t)
        PROVE  /\ thr[s][t].pc = "wait" /\ thr[s][t].ack = "acked"
               /\ thr'[s][t].pc = "check" /\ thr'[s][t].role = "Sync"
               /\ thr'[s][t].peer = NoServer /\ thr'[s][t].ack = "none"
               /\ thr'[s][t].chan = thr[s][t].chan /\ thr'[s][t].req = Args(s, t).req
    <2> DEFINE TT == Acked(thr, s, Args(s, t).conn)
               N == [Idle EXCEPT !.pc = "check", !.role = "Sync",
                                !.chan = thr[s][t].chan,
                                !.req = Args(s, t).req]
    <2>1. TT \in [Server -> [ThreadId -> Thread]]
      BY RunsUp, BackOther, AckedType, BankInvNow, ServerInvThreads
         DEF ThreadTables, ChainInv
    <2> HIDE DEF TT
    <2>2. thr'[s][t] = N
      BY <1>3, <2>1 DEF SyncAcked, TT
    <2>3. /\ N.pc = "check" /\ N.role = "Sync" /\ N.peer = NoServer /\ N.ack = "none"
          /\ N.chan = thr[s][t].chan /\ N.req = Args(s, t).req
      BY DEF Idle
    <2> HIDE DEF N
    <2> QED BY <1>3, <2>2, <2>3 DEF SyncAcked, At
  <1>4. ASSUME ReplyAck(s, t)
        PROVE  thr[s][t].pc = "ack" /\ thr'[s][t] = Idle
    <2> DEFINE TT == Acked(thr, s, Args(s, t).conn)
    <2>1. TT \in [Server -> [ThreadId -> Thread]]
      BY RunsUp, BackOther, AckedType, BankInvNow, ServerInvThreads
         DEF ThreadTables, ChainInv
    <2> HIDE DEF TT
    <2> QED BY <1>4, <2>1 DEF ReplyAck, At, TT
  <1>5. SyncAdd(s, t) => Moved(s, t, "add", "wait")
    BY <1>1 DEF SyncAdd, Goto, At, Thread, Moved
  <1>6. SyncEof(s, t) => thr[s][t].ack = "eof" /\ thr'[s][t] = Idle
    BY <1>1 DEF SyncEof, Ends, At
  <1>7. ReplyStart(s, t) =>
           Moved(s, t, "start", "check") /\ thr'[s][t].req = Args(s, t).req
    BY <1>1 DEF ReplyStart, At, Thread, Moved
  <1>8. ProcCheck(s, t) =>
           /\ Moved(s, t, "check", "apply") /\ thr'[s][t].req = thr[s][t].req
           /\ thr'[s][t].hist = CheckHist(thr[s][t].req, proc[s])
    BY <1>1 DEF ProcCheck, At, Thread, Moved
  <1>9. ProcApply(s, t) =>
           /\ Moved(s, t, "apply", IF thr[s][t].role = "Reply" THEN "send" ELSE "hist")
           /\ thr'[s][t].req = thr[s][t].req /\ thr'[s][t].hist = thr[s][t].hist
    BY <1>1 DEF ProcApply, At, Thread, Moved
  <1>10. ReplySend(s, t) =>
            /\ Moved(s, t, "send", "hist")
            /\ thr'[s][t].req = thr[s][t].req /\ thr'[s][t].hist = thr[s][t].hist
    BY <1>1 DEF ReplySend, Goto, At, Thread, Moved
  <1>11. ReplyHist(s, t) => Moved(s, t, "hist", "ack") /\ thr[s][t].role = "Reply"
    BY <1>1 DEF ReplyHist, Goto, At, Thread, Moved
  <1>12. SyncHist(s, t) =>
            thr[s][t].pc = "hist" /\ thr[s][t].role = "Sync" /\ thr'[s][t] = Idle
    BY <1>1 DEF SyncHist, Ends, At
  <1> QED BY <1>2, <1>3, <1>4, <1>5, <1>6, <1>7, <1>8, <1>9, <1>10, <1>11, <1>12

-----------------------------------------------------------------------------
(* The shape of threads.                                                   *)

\* Only a thread that waits on its connection hears from it.
LEMMA AckShape ==
  ASSUME ChainInv, Shape, NEW s \in Server, NEW u \in Server, NEW w \in ThreadId,
         thr[u][w].peer = s, NEW a, thr'[u][w] = WithAck(thr[u][w], a)
  PROVE  Shaped(thr'[u][w]) /\ thr[u][w].pc \in {"add", "wait"} /\ thr[u][w].role = "Sync"
  <1>1. thr[u][w] \in Thread /\ s # NoServer
    BY BookTypes, WireAssumption
  <1>2. Shaped(thr[u][w])
    BY DEF Shape
  <1>3. thr[u][w].pc \in {"add", "wait"} /\ thr[u][w].role = "Sync"
    BY <1>1, <1>2 DEF Shaped
  <1>4. /\ thr'[u][w].pc = thr[u][w].pc /\ thr'[u][w].role = thr[u][w].role
    BY <1>1, WithAckFields
  <1> QED BY <1>3, <1>4 DEF Shaped

LEMMA ShapeNext ==
  ASSUME PromptThreads, ChainInv, Downward, Shape, [Next]_vars
  PROVE  Shape'
  <1> SUFFICES ASSUME NEW u \in Server, NEW w \in ThreadId
               PROVE  Shaped(thr'[u][w])
    BY DEF Shape
  <1>1. Shaped(thr[u][w]) /\ Shaped(Idle)
    BY IdleFields DEF Shape, Shaped
  <1>2. ASSUME thr' = thr
        PROVE  Shaped(thr'[u][w])
    BY <1>1, <1>2
  <1>3. ASSUME NEW s \in Server, Dies(s)
        PROVE  Shaped(thr'[u][w])
    BY <1>1, <1>3, DownThread, AckShape DEF Dies
  <1>4. ASSUME NEW s \in Server, Works(s)
        PROVE  Shaped(thr'[u][w])
    <2>1. ASSUME NEW c \in Chan, Spawn(s, c)
          PROVE  Shaped(thr'[u][w])
      <3>1. PICK t \in ThreadId :
               /\ thr'[s][t].pc = IF isTail(s) THEN "start" ELSE "connect"
               /\ thr'[s][t].role = IF isTail(s) THEN "Reply" ELSE "Sync"
               /\ thr'[s][t].peer = NoServer /\ thr'[s][t].ack = "none"
               /\ u # s \/ w # t => thr'[u][w] = thr[u][w]
        BY <2>1, SpawnThread
      <3> QED BY <1>1, <3>1 DEF Shaped
    <2>2. thr' = thr \/ Spawn(s, "udp") \/ Spawn(s, "tcp")
      BY <1>4 DEF Works, MainLoop, Synchronize, RecvNotification, DropRequest,
                  RecvRequest, ExpireOnRequest, AcceptRequest, ExpireOnAccept,
                  AcceptSyncSent, AcceptSyncProc, AcceptSyncSentNoNext,
                  SyncSentTrans, SyncSentEnd, SyncProcTrans, SyncDone
    <2> QED BY <1>2, <2>1, <2>2 DEF Chan
  <1>5. ASSUME NEW s \in Server, NEW t \in ThreadId, Runs(s, t)
        PROVE  Shaped(thr'[u][w])
    <2>1. CASE u # s
      <3>1. \/ thr'[u][w] = thr[u][w]
            \/ thr[u][w].peer = s /\ thr'[u][w] = WithAck(thr[u][w], "acked")
        BY <1>5, <2>1, RunsOthers
      <3> QED BY <1>1, <3>1, AckShape
    <2>2. CASE u = s /\ w # t
      BY <1>1, <1>5, <2>2, RunsSelf
    <2>3. CASE u = s /\ w = t
      <3> DEFINE N == thr'[s][t]
      <3>1. Shaped(thr[s][t])
        BY DEF Shape
      <3>2. CASE N = Idle
        BY <1>1, <2>3, <3>2
      <3>3. CASE SyncConnect(s, t) /\ N # Idle
        <4>1. /\ thr[s][t].pc = "connect" /\ N.pc = "add" /\ N.role = thr[s][t].role
          BY <1>5, <3>3, RunsThread
        <4> QED BY <2>3, <3>1, <4>1 DEF Shaped
      <3>4. CASE SyncAdd(s, t) \/ ReplyStart(s, t) \/ ProcCheck(s, t) \/ ReplySend(s, t)
                 \/ ReplyHist(s, t)
        <4>1. \/ Moved(s, t, "add", "wait") \/ Moved(s, t, "start", "check")
              \/ Moved(s, t, "check", "apply") \/ Moved(s, t, "send", "hist")
              \/ Moved(s, t, "hist", "ack") /\ thr[s][t].role = "Reply"
          BY <1>5, <3>4, RunsThread
        <4> QED BY <2>3, <3>1, <4>1 DEF Shaped, Moved
      <3>5. CASE ProcApply(s, t)
        <4>1. Moved(s, t, "apply", IF thr[s][t].role = "Reply" THEN "send" ELSE "hist")
          BY <1>5, <3>5, RunsThread
        <4> QED BY <2>3, <3>1, <4>1 DEF Shaped, Moved
      <3>6. CASE SyncAcked(s, t)
        <4>1. N.pc = "check" /\ N.role = "Sync" /\ N.peer = NoServer /\ N.ack = "none"
          BY <1>5, <3>6, RunsThread
        <4> QED BY <2>3, <4>1 DEF Shaped
      <3>7. (SyncEof(s, t) \/ SyncHist(s, t) \/ ReplyAck(s, t)) => N = Idle
        BY <1>5, RunsThread
      <3>8. ~SyncNullNext(s, t) /\ ~ReplyNowhere(s, t) /\ ThreadStep(s, t)
        BY <1>5 DEF Runs, SyncNullNext, ReplyNowhere
      <3> QED BY <3>2, <3>3, <3>4, <3>5, <3>6, <3>7, <3>8 DEF ThreadStep
    <2> QED BY <2>1, <2>2, <2>3
  <1>6. ASSUME NEW s \in Server, BankStart(s)
        PROVE  Shaped(thr'[u][w])
    BY <1>2, <1>6 DEF BankStart, serverVars
  <1>7. ASSUME BankTimer \/ BankReceive \/ BankMaster \/ UNCHANGED vars
        PROVE  Shaped(thr'[u][w])
    BY <1>2, <1>7, ClientsElsewhere, MasterElsewhere DEF serverVars, vars
  <1> QED BY <1>3, <1>4, <1>5, <1>6, <1>7, StepKinds

LEMMA OrderNext == OrderInv /\ [Next]_vars => OrderInv'
  <1> SUFFICES ASSUME OrderInv, [Next]_vars
               PROVE  OrderInv'
    OBVIOUS
  <1>1. ChainInv'
    BY NextChain, NextInv DEF OrderInv, ChainInv
  <1> QED BY <1>1, SilentNext, DownwardNext, ShapeNext DEF OrderInv

\* At the beginning each server is linked to its successor.
LEMMA StartsLinked ==
  ASSUME DelayedLast, PromptMaster, Init, NEW i \in DOMAIN chain, up[chain[i]]
  PROVE  next[chain[i]] = Following(i)
  <1>1. LinkInv /\ chain \in Seq(Server)
    BY LinkInit, BookTypes DEF LinkInv
  <1>2. PICK s \in Server : s = chain[i]
    BY <1>1
  <1>3. Told(s, Following(i)) \/ Coming(i)
    BY <1>1, <1>2 DEF LinkInv, MembersTold
  <1>4. udp[s] = <<>> /\ notices = {}
    BY DEF Init, MasterInit
  <1> QED BY <1>2, <1>3, <1>4 DEF Told, LastSays, Coming

LEMMA OrderInit ==
  ASSUME DelayedLast, PromptThreads, PromptMaster, Init
  PROVE  OrderInv
  <1>1. LinkInv
    BY LinkInit
  <1>2. /\ up = [s \in Server |-> s \notin Spare] /\ asleep = Spare
        /\ udp = [s \in Server |-> <<>>] /\ tcp = [s \in Server |-> <<>>]
        /\ proc = [s \in Server |-> {}] /\ applied = [s \in Server |-> NeverApplied]
        /\ args = [s \in Server |-> [c \in Chan |-> NoArgs]]
        /\ thr = [s \in Server |-> [t \in ThreadId |-> Idle]]
    BY DEF Init, ServerInit
  <1>3. \A s \in Server : up[s] \/ s \in asleep
    BY <1>2
  <1>4. ASSUME NEW s \in Server, ~InChain(s)
        PROVE  next[s] = NoServer
    BY <1>1, <1>2, <1>3, <1>4 DEF LinkInv, OthersTold, Told, LastSays
  <1>5. ASSUME NEW s \in Server, InChain(s)
        PROVE  next[s] = NoServer \/ Precedes(s, next[s])
    <2>1. PICK i \in DOMAIN chain : chain[i] = s
      BY <1>5 DEF InChain
    <2>2. up[s] /\ chain \in Seq(Server)
      BY <1>1, <1>3, <1>5, BookTypes DEF LinkInv, ChainInv, Known
    <2>3. next[s] = Following(i)
      BY <2>1, <2>2, StartsLinked
    <2>4. i + 1 \in DOMAIN chain \/ ~(i < Len(chain))
      BY <2>2
    <2> QED BY <2>1, <2>2, <2>3, <2>4 DEF Following, Precedes
  <1>6. \A s \in Spare : next[s] = NoServer
    BY <1>1, <1>2, <1>4, BankAssumption DEF LinkInv, ChainInv, Known
  <1>7. Silent
    BY <1>2, <1>6 DEF Silent, Blank
  <1>8. Downward
    <2>1. Elements(<<>>) = {} /\ NoArgs.conn.srv = NoServer
      BY DEF Elements, NoArgs, NoConn
    <2>2. ~Alive(NoServer)
      BY WireAssumption DEF Alive
    <2>3. \A s \in Server : Alive(next[s]) => Precedes(s, next[s])
      BY <1>4, <1>5, <2>2
    <2>4. \A s \in Server, c \in Chan : args[s][c].conn.srv = NoServer
      BY <1>2, <2>1
    <2>5. \A s \in Server : Elements(udp[s]) = {} /\ Elements(tcp[s]) = {}
      BY <1>2, <2>1
    <2> QED BY <2>2, <2>3, <2>4, <2>5 DEF Downward
  <1>9. Shape
    BY <1>2, IdleFields DEF Shape, Shaped
  <1> QED BY <1>1, <1>7, <1>8, <1>9 DEF OrderInv, LinkInv

-----------------------------------------------------------------------------
(* Who waits, who finishes, what is stored.                                *)

\* Only a process that is there does anything.
LEMMA Present ==
  ASSUME OrderInv, NEW s \in Server
  PROVE  /\ \A t \in ThreadId : Waiting(s, t) \/ Finishes(s, t) \/ Carries(s, t) => up[s]
         /\ \A k \in Form, a \in Spot : Front(s, k, a) => up[s]
  <1> SUFFICES ASSUME ~up[s]
               PROVE  /\ \A t \in ThreadId :
                            ~Waiting(s, t) /\ ~Finishes(s, t) /\ ~Carries(s, t)
                      /\ \A k \in Form, a \in Spot : ~Front(s, k, a)
    OBVIOUS
  <1>1. /\ udp[s] = <<>> /\ tcp[s] = <<>>
        /\ \A t \in ThreadId : thr[s][t] = Idle
    BY DEF OrderInv, Silent, Blank
  <1>2. \A t \in ThreadId : thr[s][t].pc = "idle" /\ thr[s][t].ack = "none"
    BY <1>1, IdleFields
  <1>3. \A t \in ThreadId : ~Waiting(s, t) /\ ~Finishes(s, t) /\ ~Carries(s, t)
    BY <1>2 DEF Waiting, Finishes, Carries
  <1>4. DOMAIN <<>> = {}
    OBVIOUS
  <1> QED BY <1>1, <1>3, <1>4 DEF Front

\* And after a step.
LEMMA PresentNext ==
  ASSUME OrderInv', NEW s \in Server
  PROVE  /\ \A t \in ThreadId : Waiting(s, t)' \/ Finishes(s, t)' \/ Carries(s, t)' => up'[s]
         /\ \A k \in Form, a \in Spot : Front(s, k, a)' => up'[s]
  <1> SUFFICES ASSUME ~up'[s]
               PROVE  /\ \A t \in ThreadId :
                            ~Waiting(s, t)' /\ ~Finishes(s, t)' /\ ~Carries(s, t)'
                      /\ \A k \in Form, a \in Spot : ~Front(s, k, a)'
    OBVIOUS
  <1>1. /\ udp'[s] = <<>> /\ tcp'[s] = <<>>
        /\ \A t \in ThreadId : thr'[s][t] = Idle
    BY DEF OrderInv, Silent, Blank
  <1>2. \A t \in ThreadId : thr'[s][t].pc = "idle" /\ thr'[s][t].ack = "none"
    BY <1>1, IdleFields
  <1>3. \A t \in ThreadId : ~Waiting(s, t)' /\ ~Finishes(s, t)' /\ ~Carries(s, t)'
    BY <1>2 DEF Waiting, Finishes, Carries
  <1>4. DOMAIN <<>> = {}
    OBVIOUS
  <1> QED BY <1>1, <1>3, <1>4 DEF Front

\* Two servers that go on stay in their order.
LEMMA StayBefore ==
  ASSUME OrderKept, NEW a, NEW b, Precedes(a, b), a \in Server, b \in Server, up'[a], up'[b]
  PROVE  Precedes(a, b)'
  BY DEF OrderKept, Alive

\* A thread that waits for a live server has begun to, or goes on with it.
LEMMA WaiterNext ==
  ASSUME OrderInv, [Next]_vars, NEW u \in Server, NEW w \in ThreadId, Waiting(u, w)',
         thr'[u][w].peer \in Server \/ Waiting(u, w)
  PROVE  \/ /\ Runs(u, w) /\ SyncConnect(u, w) /\ NextUp(u)
            /\ thr[u][w].pc = "connect" /\ thr'[u][w].pc = "add"
            /\ thr'[u][w].peer = next[u] /\ thr'[u][w].chan = thr[u][w].chan
         \/ /\ Waiting(u, w)
            /\ thr'[u][w].peer = thr[u][w].peer /\ thr'[u][w].chan = thr[u][w].chan
            /\ args'[u] = args[u] \/ (Works(u) /\ (RecvRequest(u) \/ AcceptRequest(u)))
            /\ \/ thr'[u][w].pc = "wait" => thr[u][w].pc = "wait"
               \/ Runs(u, w) /\ SyncAdd(u, w)
  <1>1. ChainInv /\ Downward /\ thr[u][w] \in Thread
    BY BookTypes DEF OrderInv
  <1>2. ASSUME thr'[u][w] = thr[u][w]
        PROVE  /\ Waiting(u, w)
               /\ thr'[u][w].peer = thr[u][w].peer /\ thr'[u][w].chan = thr[u][w].chan
               /\ thr'[u][w].pc = "wait" => thr[u][w].pc = "wait"
    BY <1>2 DEF Waiting
  <1>3. thr'[u][w] # Idle
    BY IdleFields DEF Waiting
  <1>4. ASSUME NEW a, thr'[u][w] = WithAck(thr[u][w], a), a # "none"
        PROVE  FALSE
    BY <1>1, <1>4, WithAckFields DEF Waiting
  <1>5. ASSUME NEW s \in Server, BankStart(s)
        PROVE  thr' = thr /\ args' = args
    BY <1>5 DEF BankStart, serverVars
  <1>6. ASSUME NEW s \in Server, Dies(s)
        PROVE  thr'[u][w] = thr[u][w] /\ args'[u] = args[u]
    <2>1. Down(s)
      BY <1>6 DEF Dies
    <2>2. u # s
      BY <1>1, <1>3, <2>1, DownThread
    <2>3. thr'[u][w] = thr[u][w]
      BY <1>1, <1>4, <2>1, <2>2, DownThread
    <2> QED BY <1>1, <2>1, <2>2, <2>3, BookTypes DEF Down
  <1>7. ASSUME NEW s \in Server, Works(s)
        PROVE  /\ thr'[u][w] = thr[u][w]
               /\ args'[u] = args[u] \/ (Works(u) /\ (RecvRequest(u) \/ AcceptRequest(u)))
    <2>1. CASE u # s
      BY <1>1, <1>7, <2>1, WorksElsewhere
    <2>2. CASE u = s
      <3>1. ASSUME NEW c \in Chan, Spawn(s, c)
            PROVE  thr'[u][w] = thr[u][w]
        <4>1. PICK t \in ThreadId :
                 /\ thr'[s][t].pc = IF isTail(s) THEN "start" ELSE "connect"
                 /\ w # t => thr'[s][w] = thr[s][w]
          BY <1>1, <3>1, SpawnThread
        <4>2. w # t
          BY <2>2, <4>1 DEF Waiting
        <4> QED BY <2>2, <4>1, <4>2
      <3>2. CASE RecvRequest(s) \/ AcceptRequest(s)
        BY <1>7, <2>2, <3>1, <3>2 DEF RecvRequest, AcceptRequest, Chan
      <3>3. CASE ~(RecvRequest(s) \/ AcceptRequest(s))
        <4>1. thr' = thr /\ args' = args
          BY <1>7, <3>3 DEF Works, MainLoop, Synchronize, RecvNotification, DropRequest,
                  ExpireOnRequest, ExpireOnAccept, AcceptSyncSent, AcceptSyncProc,
                  AcceptSyncSentNoNext, SyncSentTrans, SyncSentEnd, SyncProcTrans, SyncDone
        <4> QED BY <4>1
      <3> QED BY <3>2, <3>3
    <2> QED BY <2>1, <2>2
  <1>8. ASSUME NEW s \in Server, NEW t \in ThreadId, Runs(s, t), u # s \/ w # t
        PROVE  thr'[u][w] = thr[u][w] /\ args'[u] = args[u]
    <2>1. thr'[u][w] = thr[u][w] \/ thr'[u][w] = WithAck(thr[u][w], "acked")
      BY <1>1, <1>8, RunsOthers, RunsSelf
    <2> QED BY <1>4, <1>8, <2>1, RunsUp
  <1>9. ASSUME Runs(u, w)
        PROVE  \/ /\ SyncConnect(u, w) /\ NextUp(u)
                  /\ thr[u][w].pc = "connect" /\ thr'[u][w].pc = "add"
                  /\ thr'[u][w].peer = next[u] /\ thr'[u][w].chan = thr[u][w].chan
               \/ /\ SyncAdd(u, w) /\ Waiting(u, w)
                  /\ thr'[u][w].peer = thr[u][w].peer /\ thr'[u][w].chan = thr[u][w].chan
                  /\ args'[u] = args[u]
    <2>1. CASE SyncConnect(u, w)
      BY <1>1, <1>3, <1>9, <2>1, RunsThread
    <2>2. CASE SyncAdd(u, w)
      <3>1. Moved(u, w, "add", "wait")
        BY <1>1, <1>9, <2>2, RunsThread
      <3> QED BY <1>9, <2>2, <3>1, RunsUp DEF Moved, Waiting
    <2>3. CASE SyncEof(u, w) \/ SyncHist(u, w) \/ ReplyAck(u, w)
      <3>1. thr'[u][w] = Idle
        BY <1>1, <1>9, <2>3, RunsThread
      <3> QED BY <1>3, <3>1
    <2>4. CASE SyncAcked(u, w) \/ ReplyStart(u, w) \/ ProcCheck(u, w) \/ ProcApply(u, w)
               \/ ReplySend(u, w) \/ ReplyHist(u, w)
      <3>1. thr'[u][w].pc \notin {"add", "wait"}
        BY <1>1, <1>9, <2>4, RunsThread DEF Moved
      <3> QED BY <3>1 DEF Waiting
    <2> QED BY <1>9, <2>1, <2>2, <2>3, <2>4 DEF Runs, ThreadStep, SyncNullNext, ReplyNowhere
  <1>10. ASSUME BankTimer \/ BankReceive \/ BankMaster \/ UNCHANGED vars
         PROVE  thr' = thr /\ args' = args
    BY <1>1, <1>10, ClientsElsewhere, MasterElsewhere DEF serverVars, vars
  <1> QED BY <1>2, <1>5, <1>6, <1>7, <1>8, <1>9, <1>10, StepKinds DEF OrderInv

\* Only an acknowledgement lets a server finish.
LEMMA FinishNext ==
  ASSUME OrderInv, [Next]_vars, NEW u \in Server, NEW w \in ThreadId, Finishes(u, w)'
  PROVE  \/ Finishes(u, w)
         \/ /\ Runs(u, w) /\ SyncAcked(u, w)
            /\ thr[u][w].pc = "wait" /\ thr'[u][w].pc = "check"
  <1>1. ChainInv /\ Downward /\ thr[u][w] \in Thread /\ Shaped(thr[u][w])
    BY BookTypes DEF OrderInv, Shape
  <1>2. thr'[u][w] = thr[u][w] => Finishes(u, w)
    BY DEF Finishes
  <1>3. thr'[u][w] # Idle
    BY IdleFields DEF Finishes
  <1>4. ASSUME NEW a, thr'[u][w] = WithAck(thr[u][w], a)
        PROVE  Finishes(u, w)
    BY <1>1, <1>4, WithAckFields DEF Finishes
  <1>5. ASSUME NEW s \in Server, BankStart(s)
        PROVE  thr' = thr
    BY <1>5 DEF BankStart, serverVars
  <1>6. ASSUME NEW s \in Server, Dies(s)
        PROVE  Finishes(u, w)
    BY <1>1, <1>2, <1>3, <1>4, <1>6, DownThread DEF Dies
  <1>7. ASSUME NEW s \in Server, Works(s)
        PROVE  thr'[u][w] = thr[u][w]
    <2>1. ASSUME NEW c \in Chan, Spawn(s, c)
          PROVE  thr'[u][w] = thr[u][w]
      <3>1. PICK t \in ThreadId :
               /\ thr'[s][t].pc = IF isTail(s) THEN "start" ELSE "connect"
               /\ u # s \/ w # t => thr'[u][w] = thr[u][w]
        BY <1>1, <2>1, SpawnThread
      <3>2. u # s \/ w # t
        BY <3>1 DEF Finishes
      <3> QED BY <3>1, <3>2
    <2>2. thr' = thr \/ Spawn(s, "udp") \/ Spawn(s, "tcp")
      BY <1>7 DEF Works, MainLoop, Synchronize, RecvNotification, DropRequest,
                  RecvRequest, ExpireOnRequest, AcceptRequest, ExpireOnAccept,
                  AcceptSyncSent, AcceptSyncProc, AcceptSyncSentNoNext,
                  SyncSentTrans, SyncSentEnd, SyncProcTrans, SyncDone
    <2> QED BY <2>1, <2>2 DEF Chan
  <1>8. ASSUME NEW s \in Server, NEW t \in ThreadId, Runs(s, t), u # s \/ w # t
        PROVE  Finishes(u, w)
    <2>1. thr'[u][w] = thr[u][w] \/ thr'[u][w] = WithAck(thr[u][w], "acked")
      BY <1>1, <1>8, RunsOthers, RunsSelf
    <2> QED BY <1>2, <1>4, <2>1
  <1>9. ASSUME Runs(u, w), ~SyncAcked(u, w)
        PROVE  Finishes(u, w)
    <2>1. CASE SyncConnect(u, w) \/ SyncAdd(u, w) \/ SyncEof(u, w) \/ SyncHist(u, w)
               \/ ReplyAck(u, w) \/ ReplyHist(u, w)
      <3>1. thr'[u][w] = Idle \/ thr'[u][w].pc \in {"add", "wait", "ack"}
        BY <1>1, <1>9, <2>1, RunsThread DEF Moved
      <3> QED BY <1>3, <3>1 DEF Finishes
    <2>2. CASE ReplyStart(u, w) \/ ReplySend(u, w)
      <3>1. thr[u][w].pc \in {"start", "send"} /\ thr'[u][w].role = thr[u][w].role
        BY <1>1, <1>9, <2>2, RunsThread DEF Moved
      <3> QED BY <1>1, <3>1 DEF Finishes, Shaped
    <2>3. CASE ProcCheck(u, w) \/ ProcApply(u, w)
      <3>1. thr[u][w].pc \in {"check", "apply"} /\ thr'[u][w].role = thr[u][w].role
        BY <1>1, <1>9, <2>3, RunsThread DEF Moved
      <3> QED BY <3>1 DEF Finishes
    <2> QED BY <1>9, <2>1, <2>2, <2>3 DEF Runs, ThreadStep, SyncNullNext, ReplyNowhere
  <1>10. ASSUME BankTimer \/ BankReceive \/ BankMaster \/ UNCHANGED vars
         PROVE  thr' = thr
    BY <1>1, <1>10, ClientsElsewhere, MasterElsewhere DEF serverVars, vars
  <1>11. ASSUME Runs(u, w), SyncAcked(u, w)
         PROVE  thr[u][w].pc = "wait" /\ thr'[u][w].pc = "check"
    BY <1>1, <1>11, RunsThread
  <1> QED BY <1>2, <1>5, <1>6, <1>7, <1>8, <1>9, <1>10, <1>11, StepKinds DEF OrderInv

\* Nothing is lost between sentTrans and procTrans.
LEMMA BooksMove ==
  ASSUME PromptThreads, ChainInv, [Next]_vars, NEW u \in Server
  PROVE  \/ ~up'[u]
         \/ sent'[u] = sent[u] /\ proc'[u] = proc[u]
         \/ \E r \in Request : sent'[u] = AddsentTrans(r, sent[u]) /\ proc'[u] = proc[u]
         \/ \E r \in Request, S \in SUBSET Request :
               /\ sent[u] \subseteq S
               /\ sent'[u] = AckSent(r, S) /\ proc'[u] = AckProc(r, S, proc[u])
  <1> USE BookTypes
  <1>1. ASSUME NEW r \in Request
        PROVE  sent[u] \subseteq AddsentTrans(r, sent[u])
               /\ AddsentTrans(r, sent[u]) \in SUBSET Request
    BY DEF AddsentTrans
  <1>2. ASSUME NEW s \in Server, BankStart(s)
        PROVE  sent' = sent /\ proc' = proc
    BY <1>2 DEF BankStart, serverVars, books
  <1>3. ASSUME NEW s \in Server, Dies(s)
        PROVE  ~up'[u] \/ (sent'[u] = sent[u] /\ proc'[u] = proc[u])
    BY <1>3 DEF Dies, Down
  <1>4. ASSUME NEW s \in Server, Works(s), u # s
        PROVE  sent'[u] = sent[u] /\ proc'[u] = proc[u]
    BY <1>4, WorksElsewhere
  <1>5. ASSUME Works(u)
        PROVE  \/ sent' = sent /\ proc' = proc
               \/ \E r \in Request :
                     sent'[u] = AddsentTrans(r, sent[u]) /\ proc'[u] = proc[u]
               \/ \E r \in Request, S \in SUBSET Request :
                     /\ sent[u] \subseteq S
                     /\ sent'[u] = AckSent(r, S) /\ proc'[u] = AckProc(r, S, proc[u])
    <2>1. CASE AcceptSyncSent(u) \/ AcceptSyncSentNoNext(u) \/ AcceptSyncProc(u)
      <3>1. PICK r \in Request : r = Parse(Head(tcp[u]).msg)
        BY <2>1, HeadPacketType, ParseType, BankInvNow
           DEF AcceptSyncSent, AcceptSyncSentNoNext, AcceptSyncProc, Accepts, ChainInv
      <3>2. CASE AcceptSyncSent(u)
        BY <3>1, <3>2 DEF AcceptSyncSent
      <3>3. CASE AcceptSyncSentNoNext(u)
        BY <1>5, <3>1, <3>3 DEF AcceptSyncSentNoNext, Works
      <3>4. CASE AcceptSyncProc(u)
        <4>1. PICK S \in SUBSET Request : S = AddsentTrans(r, sent[u])
          BY <1>1
        <4>2. sent'[u] = AckSent(r, S) /\ proc'[u] = AckProc(r, S, proc[u])
          BY <3>1, <3>4, <4>1 DEF AcceptSyncProc
        <4> QED BY <1>1, <4>1, <4>2
      <3> QED BY <2>1, <3>2, <3>3, <3>4
    <2>2. CASE ~(AcceptSyncSent(u) \/ AcceptSyncSentNoNext(u) \/ AcceptSyncProc(u))
      BY <1>5, <2>2 DEF Works, MainLoop, Synchronize, RecvNotification, DropRequest,
              RecvRequest, ExpireOnRequest, AcceptRequest, ExpireOnAccept,
              SyncSentTrans, SyncSentEnd, SyncProcTrans, SyncDone, books
    <2> QED BY <2>1, <2>2
  <1>6. ASSUME NEW s \in Server, NEW t \in ThreadId, Runs(s, t), u # s
        PROVE  sent'[u] = sent[u] /\ proc'[u] = proc[u]
    BY <1>6, RunsElsewhere
  <1>7. ASSUME NEW t \in ThreadId, Runs(u, t)
        PROVE  \/ sent' = sent /\ proc' = proc
               \/ \E r \in Request :
                     sent'[u] = AddsentTrans(r, sent[u]) /\ proc'[u] = proc[u]
               \/ \E r \in Request, S \in SUBSET Request :
                     /\ sent[u] \subseteq S
                     /\ sent'[u] = AckSent(r, S) /\ proc'[u] = AckProc(r, S, proc[u])
    <2>1. PICK r \in Request : r = Args(u, t).req
      BY DEF Args, Thread, ArgsSet
    <2>2. CASE SyncAdd(u, t)
      BY <2>1, <2>2 DEF SyncAdd
    <2>3. CASE SyncHist(u, t)
      BY <2>1, <2>3 DEF SyncHist
    <2>4. CASE ReplyHist(u, t)
      <3>1. PICK S \in SUBSET Request : S = AddsentTrans(r, sent[u])
        BY <1>1
      <3>2. sent'[u] = AckSent(r, S) /\ proc'[u] = AckProc(r, S, proc[u])
        BY <2>1, <2>4, <3>1 DEF ReplyHist
      <3> QED BY <1>1, <3>1, <3>2
    <2>5. CASE ~(SyncAdd(u, t) \/ SyncHist(u, t) \/ ReplyHist(u, t))
      BY <1>7, <2>5 DEF Runs, ThreadStep, SyncConnect, SyncNullNext, SyncEof, SyncAcked,
           ReplyStart, ProcCheck, ProcApply, ReplySend, ReplyNowhere, ReplyAck, books
    <2> QED BY <2>2, <2>3, <2>4, <2>5
  <1>8. ASSUME BankTimer \/ BankReceive \/ BankMaster \/ UNCHANGED vars
        PROVE  sent' = sent /\ proc' = proc
    BY <1>8, ClientsElsewhere, MasterElsewhere DEF serverVars, vars, books
  <1> QED BY <1>2, <1>3, <1>4, <1>5, <1>6, <1>7, <1>8, StepKinds

\* What is stored at a server that goes on stays so.
LEMMA StoredKept ==
  ASSUME PromptThreads, ChainInv, [Next]_vars, NEW u \in Server, up'[u], NEW r, Stored(u, r)
  PROVE  Stored(u, r)'
  <1>1. CASE sent'[u] = sent[u] /\ proc'[u] = proc[u]
    BY <1>1 DEF Stored
  <1>2. CASE \E q \in Request : sent'[u] = AddsentTrans(q, sent[u]) /\ proc'[u] = proc[u]
    BY <1>2 DEF Stored, AddsentTrans
  <1>3. ASSUME NEW q \in Request, NEW S \in SUBSET Request, sent[u] \subseteq S,
               sent'[u] = AckSent(q, S), proc'[u] = AckProc(q, S, proc[u])
        PROVE  Stored(u, r)'
    <2>1. proc[u] \subseteq proc'[u]
      BY <1>3 DEF AckProc
    <2>2. CASE r.type = "Query" \/ r.id \in IdsOf(proc[u])
      BY <2>1, <2>2 DEF Stored, IdsOf
    <2>3. ASSUME NEW p \in sent[u], Same(p, r)
          PROVE  Stored(u, r)'
      <3>1. CASE p \in sent'[u]
        BY <2>3, <3>1 DEF Stored
      <3>2. CASE p \notin sent'[u]
        <4>1. p \in S /\ q.type # "Query" /\ Same(p, q)
          BY <1>3, <2>3, <3>2 DEF AckSent
        <4>2. q.id \in IdsOf(proc'[u])
          BY <1>3, <4>1 DEF AckProc, CheckHist, IdsOf, Same
        <4>3. q.id = r.id
          BY <2>3, <4>1 DEF Same
        <4> QED BY <4>2, <4>3 DEF Stored
      <3> QED BY <3>1, <3>2
    <2> QED BY <2>2, <2>3 DEF Stored
  <1> QED BY <1>1, <1>2, <1>3, BooksMove

-----------------------------------------------------------------------------
(* The request stays with a server.                                        *)

\* The place has the request of a place that had it at the same server.
Stems(s, k, a) ==
    \E i \in Form, b \in Spot :
        /\ Front(s, i, b)
        /\ Back(s, k, a)' = Back(s, i, b)
        /\ Acknowledged(s, i, b) => Acknowledged(s, k, a)'

\* The thread neither connects nor passes an acknowledgement on.
Calm(s, t) ==
    /\ ~(thr[s][t].pc = "connect" /\ thr'[s][t].pc = "add")
    /\ ~(thr[s][t].pc = "wait" /\ thr'[s][t].pc = "check")

\* What main takes for a request is one.
LEMMA TakesFront ==
  ASSUME ChainInv, NEW s \in Server
  PROVE  /\ RequestWaiting(s) => Front(s, "udp", 1)
         /\ AcceptRequest(s) => Front(s, "tcp", 1)
         /\ 1 \in Spot /\ "udp" \in Form /\ "tcp" \in Form /\ "thr" \in Form
         /\ ThreadId \subseteq Spot
  <1>1. /\ udp[s] # <<>> => Head(udp[s]) = udp[s][1] /\ 1 \in DOMAIN udp[s]
        /\ tcp[s] # <<>> => Head(tcp[s]) = tcp[s][1] /\ 1 \in DOMAIN tcp[s]
    BY BookTypes, TailElements
  <1>2. RequestWaiting(s) => Front(s, "udp", 1)
    BY <1>1 DEF RequestWaiting, Datagram, Front
  <1>3. AcceptRequest(s) => Front(s, "tcp", 1)
    <2>1. AcceptRequest(s) => Head(tcp[s]).msg.kind \notin {"SyncSent", "SyncProc"}
      BY DEF AcceptRequest, Accepts, SyncTypes
    <2> QED BY <1>1, <2>1 DEF AcceptRequest, Accepts, Front
  <1> QED BY <1>2, <1>3 DEF Spot, Form

\* Those who wait for the acknowledgement keep the request they wait for.
LEMMA WaitersKept ==
  ASSUME OrderInv, OrderInv', [Next]_vars, NEW C \in SUBSET Conn, Await(C),
         NEW c \in C, Waiting(c.srv, c.thr)'
  PROVE  /\ c.srv \in Server /\ c.thr \in ThreadId /\ Waiting(c.srv, c.thr)
         /\ up[c.srv] /\ up'[c.srv]
         /\ Args(c.srv, c.thr)' = Args(c.srv, c.thr)
         /\ thr'[c.srv][c.thr].peer = thr[c.srv][c.thr].peer
         /\ thr'[c.srv][c.thr].pc = "wait" => Stored(c.srv, Args(c.srv, c.thr).req)'
  <1>0. PICK u \in Server, w \in ThreadId : u = c.srv /\ w = c.thr
    BY DEF Await, Conn
  <1>1. Waiting(u, w) /\ Waiting(u, w)'
    BY <1>0 DEF Await
  <1>2. up[u] /\ up'[u] /\ ChainInv
    BY <1>1, Present, PresentNext DEF OrderInv
  <1>3. /\ thr'[u][w].peer = thr[u][w].peer /\ thr'[u][w].chan = thr[u][w].chan
        /\ args'[u] = args[u] \/ (Works(u) /\ (RecvRequest(u) \/ AcceptRequest(u)))
        /\ thr'[u][w].pc = "wait" => thr[u][w].pc = "wait" \/ SyncAdd(u, w)
    <2>1. thr[u][w].pc # "connect"
      BY <1>1 DEF Waiting
    <2> QED BY <1>1, <2>1, WaiterNext
  <1>4. ~(RecvRequest(u) \/ AcceptRequest(u))
    <2>1. RecvRequest(u) \/ AcceptRequest(u) =>
             \E k \in Form : Front(u, k, 1)
      BY <1>1, <1>2, TakesFront DEF RecvRequest
    <2>2. \A k \in Form, a \in Spot : Front(u, k, a) => Precedes(u, u)
      BY <1>0 DEF Await
    <2> QED BY <1>2, <2>1, <2>2, TakesFront, PrecedesOrder
  <1>5. Args(u, w)' = Args(u, w)
    BY <1>3, <1>4 DEF Args
  <1>6. ASSUME thr'[u][w].pc = "wait"
        PROVE  Stored(u, Args(u, w).req)'
    <2>1. CASE thr[u][w].pc = "wait"
      <3>1. PICK r \in Request : r = Args(u, w).req
        BY <1>1, <1>2, BackOther DEF OrderInv
      <3>2. Stored(u, r)
        BY <1>0, <2>1, <3>1 DEF Await
      <3>3. Stored(u, r)'
        BY <1>1, <1>2, <3>2, StoredKept DEF OrderInv
      <3>4. r = Args(u, w).req'
        BY <1>5, <3>1
      <3> QED BY <3>3, <3>4 DEF Stored
    <2>2. CASE SyncAdd(u, w)
      <3>1. PICK r \in Request : r = Args(u, w).req
        BY <1>1, <1>2, BackOther DEF OrderInv
      <3>2. sent'[u] = AddsentTrans(r, sent[u])
        BY <1>1, <1>2, <2>2, <3>1, BookTypes DEF SyncAdd
      <3>3. Stored(u, r)'
        BY <3>2 DEF Stored, AddsentTrans, Same
      <3>4. r = Args(u, w).req'
        BY <1>5, <3>1
      <3> QED BY <3>3, <3>4 DEF Stored
    <2> QED BY <1>3, <1>6, <2>1, <2>2
  <1>7. /\ Args(c.srv, c.thr)' = Args(c.srv, c.thr)
        /\ thr'[c.srv][c.thr].pc = "wait" => Stored(c.srv, Args(c.srv, c.thr).req)'
    BY <1>0, <1>5, <1>6
  <1> QED BY <1>0, <1>1, <1>2, <1>3, <1>7

\* Nobody new waits when all threads are calm.
LEMMA NobodyNew ==
  ASSUME OrderInv, [Next]_vars, NEW u \in Server, NEW w \in ThreadId, Calm(u, w)
  PROVE  /\ Waiting(u, w)' /\ thr'[u][w].peer \in Server =>
               Waiting(u, w) /\ thr'[u][w].peer = thr[u][w].peer
         /\ Finishes(u, w)' => Finishes(u, w)
  BY WaiterNext, FinishNext DEF Calm

\* A step that leaves the request at its server, or loses it.
LEMMA WayKept ==
  ASSUME OrderInv, OrderInv', [Next]_vars, FinishBehind, Awaited,
         \A s \in Server, t \in ThreadId : Calm(s, t),
         \A s \in Server, k \in Form, a \in Spot : Front(s, k, a)' => Stems(s, k, a)
  PROVE  FinishBehind' /\ Awaited'
  <1>1. OrderKept /\ ChainInv
    BY NextOrder DEF OrderInv
  <1>2. PICK C \in SUBSET Conn : Await(C)
    BY DEF Awaited
  <1>3. PICK D \in SUBSET Conn : D = {c \in C : Waiting(c.srv, c.thr)'}
    OBVIOUS
  <1>4. ASSUME NEW s \in Server, NEW c \in Conn, Owes(C, s, c)
        PROVE  Owes(D, s, c)'
    <2>1. c.thr \in ThreadId
      BY DEF Conn
    <2> QED BY <1>3, <1>4, <2>1, NobodyNew DEF Owes
  <1>5. ASSUME NEW c \in D
        PROVE  /\ c.srv \in Server /\ Waiting(c.srv, c.thr)'
               /\ thr'[c.srv][c.thr].pc = "wait" => Stored(c.srv, Args(c.srv, c.thr).req)'
               /\ Owes(D, c.srv, Args(c.srv, c.thr).conn)'
    <2>1. /\ c.srv \in Server /\ c.thr \in ThreadId /\ Waiting(c.srv, c.thr)'
          /\ up[c.srv] /\ Args(c.srv, c.thr)' = Args(c.srv, c.thr)
          /\ thr'[c.srv][c.thr].pc = "wait" => Stored(c.srv, Args(c.srv, c.thr).req)'
      BY <1>2, <1>3, WaitersKept
    <2>2. PICK b \in Conn : b = Args(c.srv, c.thr).conn
      BY <1>1, <2>1, BackOther DEF OrderInv
    <2>3. Owes(D, c.srv, b)'
      BY <1>2, <1>3, <1>4, <2>1, <2>2 DEF Await
    <2>4. b = Args(c.srv, c.thr).conn'
      BY <2>1, <2>2
    <2> QED BY <2>1, <2>3, <2>4 DEF Owes
  <1>6. ASSUME NEW s \in Server, NEW k \in Form, NEW a \in Spot, Front(s, k, a)'
        PROVE  /\ Owes(D, s, Back(s, k, a))'
               /\ \A c \in D : Precedes(c.srv, s)'
    <2>1. PICK i \in Form, b \in Spot : Front(s, i, b) /\ Back(s, k, a)' = Back(s, i, b)
      BY <1>6 DEF Stems
    <2>2. up'[s]
      BY <1>6, PresentNext
    <2>3. \A c \in D : Precedes(c.srv, s)'
      <3>1. \A c \in D : Precedes(c.srv, s) /\ c.srv \in Server /\ up'[c.srv]
        BY <1>2, <1>3, <2>1, WaitersKept DEF Await
      <3> QED BY <1>1, <2>2, <3>1, StayBefore
    <2>4. Owes(C, s, Back(s, i, b))
      BY <1>2, <2>1 DEF Await
    <2>5. PICK c \in Conn : c = Back(s, i, b)
      <3>1. i = "tcp" => tcp[s][b].conn \in Conn
        <4>1. tcp[s] \in Seq(Packet)
          BY <1>1, BookTypes
        <4>2. i = "tcp" => b \in DOMAIN tcp[s]
          BY <2>1 DEF Front
        <4>3. b \in DOMAIN tcp[s] => tcp[s][b] \in Packet
          BY <4>1
        <4> QED BY <4>2, <4>3 DEF Packet
      <3>2. i = "thr" => Args(s, b).conn \in Conn
        BY <1>1, <2>1, BackOther, Present DEF Front, OrderInv
      <3>3. NoConn \in Conn
        BY NoConnType
      <3> QED BY <3>1, <3>2, <3>3 DEF Back, Form
    <2>6. Owes(D, s, c)'
      BY <1>4, <2>4, <2>5
    <2>7. c = Back(s, k, a)'
      BY <2>1, <2>5
    <2> QED BY <2>3, <2>6, <2>7 DEF Owes
  <1>7. Await(D)'
    BY <1>5, <1>6 DEF Await
  <1>8. FinishBehind'
    <2> SUFFICES ASSUME NEW s \in Server, NEW t \in ThreadId, Finishes(s, t)'
                 PROVE  Behind(s)' /\ \A w \in ThreadId : Finishes(s, w)' => t = w
      BY DEF FinishBehind
    <2>1. Finishes(s, t) /\ \A w \in ThreadId : Finishes(s, w)' => Finishes(s, w)
      BY NobodyNew
    <2>2. Behind(s) /\ up'[s] /\ \A w \in ThreadId : Finishes(s, w) => t = w
      BY <2>1, PresentNext DEF FinishBehind
    <2>3. ASSUME NEW u \in Server, NEW k \in Form, NEW a \in Spot, Front(u, k, a)'
          PROVE  Acknowledged(u, k, a)' /\ Precedes(u, s)'
      <3>1. PICK i \in Form, b \in Spot :
                    Front(u, i, b) /\ (Acknowledged(u, i, b) => Acknowledged(u, k, a)')
        BY <2>3 DEF Stems
      <3>2. Precedes(u, s) /\ Acknowledged(u, k, a)' /\ up'[u]
        BY <2>2, <2>3, <3>1, PresentNext DEF Behind
      <3> QED BY <1>1, <2>2, <3>2, StayBefore
    <2> QED BY <2>1, <2>2, <2>3 DEF Behind
  <1> QED BY <1>7, <1>8 DEF Awaited

\* What is in a queue after something that is no request has been put into it.
LEMMA AppendAt ==
  ASSUME NEW S, NEW q \in Seq(S), NEW e, NEW i \in DOMAIN Append(q, e)
  PROVE  \/ i \in DOMAIN q /\ Append(q, e)[i] = q[i]
         \/ i = Len(q) + 1 /\ Append(q, e)[i] = e
  OBVIOUS

\* What main does not take for a request.
NoRequest(m) == m \in Text /\ m.kind # "Raw"

NoRequestPacket(p) == p \in Packet /\ p.msg.kind \in {"SyncSent", "SyncProc"}

\* No request comes into a queue, and at most the head of the queue k of server s
\* is taken.
Reads(s, k) ==
    /\ \A u \in Server :
          IF u = s /\ k = "udp" THEN udp[u] # <<>> /\ udp'[u] = Tail(udp[u])
          ELSE \/ udp'[u] = udp[u] \/ udp'[u] = <<>>
               \/ \E m : NoRequest(m) /\ udp'[u] = Append(udp[u], m)
    /\ \A u \in Server :
          IF u = s /\ k = "tcp" THEN tcp[u] # <<>> /\ tcp'[u] = Tail(tcp[u])
          ELSE \/ tcp'[u] = tcp[u] \/ tcp'[u] = <<>>
               \/ \E p : NoRequestPacket(p) /\ tcp'[u] = Append(tcp[u], p)

\* What is at a place of a queue.
Item(u, j, a) == IF j = "udp" THEN udp[u][a] ELSE tcp[u][a]

\* A request in a queue was there before.
LEMMA QueueFronts ==
  ASSUME ChainInv, NEW s, NEW k, Reads(s, k), NEW u \in Server, NEW j \in {"udp", "tcp"},
         NEW a \in Spot, Front(u, j, a)'
  PROVE  /\ a \in Nat /\ a # 0
         /\ u = s /\ j = k =>
               /\ a + 1 \in Spot /\ Front(u, j, a + 1)
               /\ Item(u, j, a)' = Item(u, j, a + 1) /\ Back(u, j, a)' = Back(u, j, a + 1)
         /\ ~(u = s /\ j = k) =>
               /\ Front(u, j, a)
               /\ Item(u, j, a)' = Item(u, j, a) /\ Back(u, j, a)' = Back(u, j, a)
  <1>1. CASE j = "udp"
    <2>1. a \in DOMAIN udp'[u] /\ udp'[u][a].kind = "Raw" /\ udp[u] \in Seq(Text)
      BY <1>1, BookTypes DEF Front
    <2>2. CASE u = s /\ k = "udp"
      <3>1. udp[u] # <<>> /\ udp'[u] = Tail(udp[u])
        BY <2>2 DEF Reads
      <3>2. a + 1 \in DOMAIN udp[u] /\ udp'[u][a] = udp[u][a + 1]
        BY <2>1, <3>1, TailElements
      <3>3. a \in Nat /\ a + 1 \in Nat /\ a # 0
        BY <2>1, <3>1
      <3> QED BY <1>1, <2>1, <2>2, <3>2, <3>3 DEF Front, Spot, Back, Item
    <2>3. CASE ~(u = s /\ k = "udp")
      <3>1. a \in DOMAIN udp[u] /\ udp'[u][a] = udp[u][a]
        <4>1. CASE udp'[u] = udp[u]
          BY <2>1, <4>1
        <4>2. CASE udp'[u] = <<>>
          BY <2>1, <4>2
        <4>3. ASSUME NEW m, NoRequest(m), udp'[u] = Append(udp[u], m)
              PROVE  a \in DOMAIN udp[u] /\ udp'[u][a] = udp[u][a]
          <5>1. udp'[u][a] # m
            BY <2>1, <4>3 DEF NoRequest
          <5> QED BY <2>1, <4>3, <5>1, AppendAt
        <4> QED BY <2>3, <4>1, <4>2, <4>3 DEF Reads
      <3>2. a \in Nat /\ a # 0
        BY <2>1, <3>1
      <3> QED BY <1>1, <2>1, <2>3, <3>1, <3>2 DEF Front, Spot, Back, Item
    <2> QED BY <2>2, <2>3
  <1>2. CASE j = "tcp"
    <2>1. /\ a \in DOMAIN tcp'[u] /\ tcp'[u][a].msg.kind \notin {"SyncSent", "SyncProc"}
          /\ tcp[u] \in Seq(Packet)
      BY <1>2, BookTypes DEF Front
    <2>2. CASE u = s /\ k = "tcp"
      <3>1. tcp[u] # <<>> /\ tcp'[u] = Tail(tcp[u])
        BY <2>2 DEF Reads
      <3>2. a + 1 \in DOMAIN tcp[u] /\ tcp'[u][a] = tcp[u][a + 1]
        BY <2>1, <3>1, TailElements
      <3>3. a \in Nat /\ a + 1 \in Nat /\ a # 0
        BY <2>1, <3>1
      <3> QED BY <1>2, <2>1, <2>2, <3>2, <3>3 DEF Front, Spot, Back, Item
    <2>3. CASE ~(u = s /\ k = "tcp")
      <3>1. a \in DOMAIN tcp[u] /\ tcp'[u][a] = tcp[u][a]
        <4>1. CASE tcp'[u] = tcp[u]
          BY <2>1, <4>1
        <4>2. CASE tcp'[u] = <<>>
          BY <2>1, <4>2
        <4>3. ASSUME NEW p, NoRequestPacket(p), tcp'[u] = Append(tcp[u], p)
              PROVE  a \in DOMAIN tcp[u] /\ tcp'[u][a] = tcp[u][a]
          <5>1. tcp'[u][a] # p
            BY <2>1, <4>3 DEF NoRequestPacket
          <5> QED BY <2>1, <4>3, <5>1, AppendAt
        <4> QED BY <2>3, <4>1, <4>2, <4>3 DEF Reads
      <3>2. a \in Nat /\ a # 0
        BY <2>1, <3>1
      <3> QED BY <1>2, <2>1, <2>3, <3>1, <3>2 DEF Front, Spot, Back, Item
    <2> QED BY <2>2, <2>3
  <1> QED BY <1>1, <1>2

\* A thread that has the request had it before, and the acknowledgement with it.
Keeps(u, w) ==
    Carries(u, w)' => /\ Carries(u, w) /\ Args(u, w)' = Args(u, w)
                      /\ thr[u][w].ack = "acked" => thr'[u][w].ack = "acked"

\* A step that leaves each request where it is, but for the queue of form k at s
\* if its head is taken.
LEMMA WayQueues ==
  ASSUME WayInv, OrderInv', [Next]_vars, NEW s, NEW k,
         Reads(s, k),
         \A u \in Server, w \in ThreadId : Calm(u, w) /\ Keeps(u, w)
  PROVE  OneRequest' /\ FinishBehind' /\ Awaited'
  <1> DEFINE Was(u, j, a) == IF u = s /\ j = k /\ k # "thr" THEN a + 1 ELSE a
  <1>1. ChainInv
    BY DEF WayInv, OrderInv
  <1>2. ASSUME NEW u \in Server, NEW j \in {"udp", "tcp"}, NEW a \in Spot, Front(u, j, a)'
        PROVE  /\ Was(u, j, a) \in Spot /\ a \in Nat
               /\ Front(u, j, Was(u, j, a)) /\ Back(u, j, a)' = Back(u, j, Was(u, j, a))
    <2>1. CASE u = s /\ j = k
      BY <1>1, <1>2, <2>1, QueueFronts
    <2>2. CASE ~(u = s /\ j = k)
      BY <1>1, <1>2, <2>2, QueueFronts
    <2> QED BY <2>1, <2>2
  <1>3. ASSUME NEW u \in Server, NEW a \in Spot, Front(u, "thr", a)'
        PROVE  /\ Was(u, "thr", a) = a
               /\ Front(u, "thr", a) /\ Args(u, a).conn' = Args(u, a).conn
               /\ Acknowledged(u, "thr", a) => Acknowledged(u, "thr", a)'
    <2>1. a \in ThreadId /\ Carries(u, a)'
      BY <1>3 DEF Front
    <2> QED BY <2>1 DEF Front, Acknowledged, Keeps
  <1>4. ASSUME NEW u \in Server, NEW j \in Form, NEW a \in Spot, Front(u, j, a)'
        PROVE  /\ Was(u, j, a) \in Spot /\ Front(u, j, Was(u, j, a))
               /\ j # "thr" => a \in Nat
               /\ Back(u, j, a)' = Back(u, j, Was(u, j, a))
               /\ Acknowledged(u, j, Was(u, j, a)) => Acknowledged(u, j, a)'
    <2> HIDE DEF Was
    <2>1. CASE j \in {"udp", "tcp"}
      BY <1>2, <1>4, <2>1 DEF Acknowledged
    <2>2. CASE j = "thr"
      BY <1>3, <1>4, <2>2 DEF Back
    <2> QED BY <2>1, <2>2 DEF Form
  <1>5. OneRequest'
    <2> SUFFICES ASSUME NEW u \in Server, NEW v \in Server, NEW j \in Form, NEW l \in Form,
                        NEW a \in Spot, NEW b \in Spot, Front(u, j, a)', Front(v, l, b)'
                 PROVE  u = v /\ j = l /\ a = b
      BY DEF OneRequest
    <2>1. u = v /\ j = l /\ Was(u, j, a) = Was(v, l, b)
      <3> HIDE DEF Was
      <3> QED BY <1>4 DEF WayInv, OneRequest
    <2> QED BY <1>4, <2>1
  <1>6. \A u \in Server, j \in Form, a \in Spot : Front(u, j, a)' => Stems(u, j, a)
    <2> HIDE DEF Was
    <2> QED BY <1>4 DEF Stems
  <1> QED BY <1>5, <1>6, WayKept DEF WayInv

-----------------------------------------------------------------------------
(* Clients, the master, and servers that end.                              *)

LEMMA WayQuiet ==
  ASSUME WayInv, OrderInv', [Next]_vars, UNCHANGED <<tcp, args, thr>>,
         \A u \in Server : \/ udp'[u] = udp[u]
                           \/ \E m : NoRequest(m) /\ udp'[u] = Append(udp[u], m)
  PROVE  OneRequest' /\ FinishBehind' /\ Awaited'
  <1>1. \A u \in Server, w \in ThreadId : Calm(u, w) /\ Keeps(u, w)
    BY DEF Calm, Keeps, Carries, Args
  <1>2. PICK k : k = "thr"
    OBVIOUS
  <1>3. Reads(k, k)
    BY <1>2 DEF Reads
  <1> QED BY <1>1, <1>2, <1>3, WayQueues

\* The master sends no requests.
LEMMA MasterWrites ==
  ASSUME ChainInv, ChainInv', BankMaster, NEW u \in Server
  PROVE  \/ udp'[u] = udp[u]
         \/ \E m : NoRequest(m) /\ udp'[u] = Append(udp[u], m)
  <1>1. ASSUME NEW v \in Server, NEW m \in NotiText,
               udp' = [udp EXCEPT ![v] = Append(@, m)]
        PROVE  \/ udp'[u] = udp[u]
               \/ NoRequest(m) /\ udp'[u] = Append(udp[u], m)
    BY <1>1, BookTypes DEF NoRequest, NotiText, NotiKind, Text
  <1> QED BY <1>1, MasterElsewhere, NotifyWrites

LEMMA WayMaster ==
  ASSUME WayInv, OrderInv', [Next]_vars, BankMaster
  PROVE  OneRequest' /\ FinishBehind' /\ Awaited'
  <1>1. ChainInv /\ ChainInv'
    BY DEF WayInv, OrderInv
  <1>2. UNCHANGED <<tcp, args, thr>>
    BY <1>1, MasterElsewhere DEF serverVars
  <1>3. \A u \in Server : \/ udp'[u] = udp[u]
                          \/ \E m : NoRequest(m) /\ udp'[u] = Append(udp[u], m)
    BY <1>1, MasterWrites
  <1> QED BY <1>2, <1>3, WayQuiet

\* When it is quiet there is no request, and nobody finishes.
LEMMA QuietWay ==
  ASSUME OrderInv, Quiet
  PROVE  /\ \A s \in Server : udp[s] = <<>> /\ tcp[s] = <<>>
         /\ \A s \in Server, t \in ThreadId : ~Carries(s, t) /\ ~Finishes(s, t)
  <1> SUFFICES ASSUME NEW s \in Server
               PROVE  /\ udp[s] = <<>> /\ tcp[s] = <<>>
                      /\ \A t \in ThreadId : ~Carries(s, t) /\ ~Finishes(s, t)
    OBVIOUS
  <1>1. udp[s] = <<>> /\ tcp[s] = <<>>
    BY DEF Quiet, OrderInv, Silent, Blank
  <1>2. ASSUME NEW t \in ThreadId, Carries(s, t) \/ Finishes(s, t)
        PROVE  FALSE
    <2>1. up[s]
      BY <1>2, Present
    <2>2. ~Runnable(s, t)
      BY <2>1 DEF Quiet, Busy
    <2>3. thr[s][t].pc = "idle" \/ (thr[s][t].pc = "wait" /\ thr[s][t].ack = "none")
      BY <2>1, <2>2 DEF Runnable
    <2>4. thr[s][t].pc = "idle" => thr[s][t].ack = "none"
      BY DEF OrderInv, Shape, Shaped
    <2> QED BY <1>2, <2>3, <2>4 DEF Carries, Finishes
  <1> QED BY <1>1, <1>2

\* A patient client sends the only request.
LEMMA WaySend ==
  ASSUME WayInv, OrderInv', [Next]_vars, Quiet, UNCHANGED <<tcp, args, thr>>,
         NEW v \in Server, udp' = [udp EXCEPT ![v] = Append(@, Raw(Current))]
  PROVE  OneRequest' /\ FinishBehind' /\ Awaited'
  <1>1. ChainInv /\ OrderInv
    BY DEF WayInv, OrderInv
  <1>2. /\ \A s \in Server : udp[s] = <<>> /\ tcp[s] = <<>>
        /\ \A s \in Server, t \in ThreadId : ~Carries(s, t) /\ ~Finishes(s, t)
    BY <1>1, QuietWay
  <1>3. /\ \A s \in Server : s # v => udp'[s] = <<>>
        /\ udp'[v] = Append(<<>>, Raw(Current))
        /\ \A s \in Server : tcp'[s] = <<>>
        /\ \A s \in Server, t \in ThreadId : ~Carries(s, t)' /\ ~Finishes(s, t)'
    <2>1. \A s \in Server, t \in ThreadId : ~Carries(s, t)' /\ ~Finishes(s, t)'
      BY <1>2 DEF Carries, Finishes
    <2> QED BY <1>1, <1>2, <2>1, BookTypes
  <1>4. DOMAIN <<>> = {} /\ DOMAIN Append(<<>>, Raw(Current)) = {1}
    <2>1. Append(<<>>, Raw(Current)) = <<Raw(Current)>>
      OBVIOUS
    <2>2. 1..1 = {1}
      OBVIOUS
    <2> QED BY <2>1, <2>2
  <1>5. ASSUME NEW u \in Server, NEW j \in Form, NEW a \in Spot, Front(u, j, a)'
        PROVE  u = v /\ j = "udp" /\ a = 1
    BY <1>3, <1>4, <1>5 DEF Front
  <1>6. OneRequest'
    BY <1>5 DEF OneRequest
  <1>7. FinishBehind'
    BY <1>3 DEF FinishBehind
  <1>8. Awaited'
    <2>1. NoConn.srv \notin Server
      BY WireAssumption DEF NoConn
    <2>2. PICK C \in SUBSET Conn : C = {}
      OBVIOUS
    <2>3. ASSUME NEW u \in Server, NEW j \in Form, NEW a \in Spot, Front(u, j, a)'
          PROVE  Owes(C, u, Back(u, j, a))'
      <3>1. Back(u, j, a)' = NoConn
        BY <1>5, <2>3 DEF Back
      <3> QED BY <2>1, <3>1 DEF Owes
    <2>4. Await(C)'
      BY <2>2, <2>3 DEF Await
    <2> QED BY <2>4 DEF Awaited
  <1> QED BY <1>6, <1>7, <1>8

LEMMA WayClients ==
  ASSUME Timing, WayInv, OrderInv', [Next]_vars, BankTimer \/ BankReceive
  PROVE  OneRequest' /\ FinishBehind' /\ Awaited'
  <1>1. ChainInv
    BY DEF WayInv, OrderInv
  <1>2. UNCHANGED <<tcp, args, thr>>
    BY <1>1, ClientsElsewhere DEF serverVars
  <1>3. CASE udp' = udp
    BY <1>2, <1>3, WayQuiet
  <1>4. CASE udp' # udp
    <2>1. PICK v \in Server : udp' = [udp EXCEPT ![v] = Append(@, Raw(Current))]
      BY <1>1, <1>4, ClientsElsewhere
    <2>2. Quiet
      BY <1>4 DEF BankTimer, BankReceive, OpenSocket, GiveUp, RecvReply, RecvFail,
                  RecvExtension, Timing
    <2> QED BY <1>2, <2>1, <2>2, WaySend
  <1> QED BY <1>3, <1>4

\* The requests a server has are gone with it.
LEMMA DiesKeeps ==
  ASSUME WayInv, NEW s \in Server, Dies(s)
  PROVE  /\ \A k : Reads(k, "thr")
         /\ \A u \in Server, w \in ThreadId : Calm(u, w) /\ Keeps(u, w)
  <1>1. ChainInv /\ Down(s) /\ Shape
    BY DEF WayInv, OrderInv, Dies
  <1>2. \A u \in Server : /\ udp'[u] = udp[u] \/ udp'[u] = <<>>
                          /\ tcp'[u] = tcp[u] \/ tcp'[u] = <<>>
                          /\ u # s => args'[u] = args[u]
    BY <1>1, BookTypes DEF Down
  <1>3. ASSUME NEW u \in Server, NEW w \in ThreadId
        PROVE  Calm(u, w) /\ Keeps(u, w)
    <2>1. CASE u = s
      <3>1. thr'[u][w].pc = "idle" /\ thr'[u][w].ack = "none"
        BY <1>1, <2>1, DownThread, IdleFields
      <3> QED BY <3>1 DEF Calm, Keeps, Carries
    <2>2. CASE thr'[u][w] = thr[u][w] /\ u # s
      BY <1>2, <2>2 DEF Calm, Keeps, Carries, Args
    <2>3. CASE thr[u][w].peer = s /\ thr'[u][w] = WithAck(thr[u][w], "eof")
      <3>1. thr[u][w].pc \in {"add", "wait"}
        BY <1>1, <2>3, AckShape
      <3>2. thr'[u][w].pc = thr[u][w].pc /\ thr'[u][w].ack = "eof"
        BY <1>1, <2>3, BookTypes, WithAckFields
      <3> QED BY <3>1, <3>2 DEF Calm, Keeps, Carries
    <2> QED BY <1>1, <2>1, <2>2, <2>3, DownThread
  <1>4. \A k : Reads(k, "thr")
    BY <1>2 DEF Reads
  <1> QED BY <1>3, <1>4

LEMMA WayDies ==
  ASSUME WayInv, OrderInv', [Next]_vars, NEW s \in Server, Dies(s)
  PROVE  OneRequest' /\ FinishBehind' /\ Awaited'
  BY DiesKeeps, WayQueues

-----------------------------------------------------------------------------
(* Main.                                                                   *)

\* Main starts a thread for the request.
LEMMA WayTakes ==
  ASSUME WayInv, OrderInv', [Next]_vars, NEW s \in Server, Works(s),
         RecvRequest(s) \/ AcceptRequest(s)
  PROVE  OneRequest' /\ FinishBehind' /\ Awaited'
  <1>1. ChainInv
    BY DEF WayInv, OrderInv
  <1>2. PICK c \in {"udp", "tcp"} : IF c = "udp" THEN RecvRequest(s) ELSE AcceptRequest(s)
    OBVIOUS
  <1>3. Front(s, c, 1) /\ 1 \in Spot /\ c \in Form /\ "thr" \in Form /\ ThreadId \subseteq Spot
    BY <1>1, <1>2, TakesFront DEF RecvRequest
  <1>4. Spawn(s, c) /\ c \in Chan
    BY <1>2 DEF RecvRequest, AcceptRequest, Chan
  <1>5. Reads(s, c)
    <2>1. CASE c = "udp"
      BY <1>1, <1>2, <2>1, BookTypes
         DEF RecvRequest, RequestWaiting, Datagram, TakeDatagram, Reads
    <2>2. CASE c = "tcp"
      BY <1>1, <1>2, <2>2, BookTypes DEF AcceptRequest, Accepts, TakePacket, Reads
    <2> QED BY <2>1, <2>2
  <1>6. args'[s][c].conn = Back(s, c, 1)
    <2>1. CASE c = "udp"
      BY <1>1, <1>2, <2>1, BookTypes DEF RecvRequest, Back, Chan
    <2>2. CASE c = "tcp"
      <3>1. Head(tcp[s]) = tcp[s][1]
        BY <1>1, <1>2, <2>2, BookTypes, TailElements DEF AcceptRequest, Accepts
      <3> QED BY <1>1, <1>2, <2>2, <3>1, BookTypes DEF AcceptRequest, Back, Chan
    <2> QED BY <2>1, <2>2
  <1>7. PICK t \in ThreadId :
           /\ thr[s][t].pc = "idle" /\ thr'[s][t].chan = c
           /\ \A u \in Server, w \in ThreadId :
                 u # s \/ w # t => thr'[u][w] = thr[u][w]
    BY <1>1, <1>4, SpawnThread
  <1>8. ASSUME NEW u \in Server, NEW j \in Form, NEW a \in Spot, Front(u, j, a)'
        PROVE  u = s /\ j = "thr" /\ a = t
    <2>1. CASE j \in {"udp", "tcp"}
      <3>1. a \in Nat /\ a # 0
        BY <1>1, <1>5, <1>8, <2>1, QueueFronts
      <3>2. CASE u = s /\ j = c
        <4>1. Front(s, c, a + 1) /\ a + 1 \in Spot
          BY <1>1, <1>5, <1>8, <2>1, <3>2, QueueFronts
        <4>2. a + 1 = 1
          BY <1>3, <4>1 DEF WayInv, OneRequest
        <4> QED BY <3>1, <4>2
      <3>3. CASE ~(u = s /\ j = c)
        <4>1. Front(u, j, a)
          BY <1>1, <1>5, <1>8, <2>1, <3>3, QueueFronts
        <4> QED BY <1>3, <3>3, <4>1 DEF WayInv, OneRequest
      <3> QED BY <3>2, <3>3
    <2>2. CASE j = "thr" /\ ~(u = s /\ a = t)
      <3>1. a \in ThreadId /\ Carries(u, a)'
        BY <1>8, <2>2 DEF Front
      <3>2. thr'[u][a] = thr[u][a]
        BY <1>7, <2>2, <3>1
      <3>3. Front(u, "thr", a)
        BY <3>1, <3>2 DEF Carries, Front
      <3>4. c = "thr"
        BY <1>3, <3>3 DEF WayInv, OneRequest
      <3> QED BY <3>4
    <2> QED BY <2>1, <2>2 DEF Form
  <1>9. OneRequest'
    BY <1>8 DEF OneRequest
  <1>10. Stems(s, "thr", t)
    <2>1. Back(s, "thr", t)' = Back(s, c, 1)
      BY <1>6, <1>7 DEF Back, Args
    <2>2. ~Acknowledged(s, c, 1)
      BY DEF Acknowledged
    <2> QED BY <1>3, <2>1, <2>2 DEF Stems
  <1>11. \A u \in Server, w \in ThreadId : Calm(u, w)
    BY <1>7 DEF Calm
  <1>12. FinishBehind' /\ Awaited'
    BY <1>8, <1>10, <1>11, WayKept DEF WayInv
  <1> QED BY <1>9, <1>12

\* Main passes a request on that it takes for one to keep as sent. Nobody waits
\* for the acknowledgement on the new connection.
LEMMA WayForwards ==
  ASSUME WayInv, OrderInv', [Next]_vars, NEW s \in Server, Works(s), AcceptSyncSent(s),
         ~isTail(s), Head(tcp[s]).msg.kind \notin {"SyncSent", "SyncProc"}
  PROVE  OneRequest' /\ FinishBehind' /\ Awaited'
  <1> DEFINE n == next[s]
             i == Len(tcp[n]) + 1
  <1>1. ChainInv /\ Downward /\ tcp \in [Server -> Seq(Packet)]
    BY BookTypes DEF WayInv, OrderInv
  <1>2. n \in Server /\ n # s /\ tcp[s] # <<>>
    BY <1>1, NextOther DEF AcceptSyncSent, Accepts
  <1>3. PICK p : p = [msg |-> Head(tcp[s]).msg, conn |-> NoConn]
    OBVIOUS
  <1>4. /\ \A u \in Server : u # s /\ u # n => tcp'[u] = tcp[u]
        /\ tcp'[s] = Tail(tcp[s]) /\ tcp'[n] = Append(tcp[n], p)
        /\ udp' = udp /\ thr' = thr /\ args' = args
    BY <1>1, <1>2, <1>3 DEF AcceptSyncSent
  <1>5. Front(s, "tcp", 1) /\ 1 \in Spot /\ "tcp" \in Form /\ i \in Nat
    BY <1>1, <1>2, TailElements DEF Front, Spot, Form
  <1>6. ASSUME NEW u \in Server, NEW j \in Form, NEW a \in Spot, Front(u, j, a),
               ~(u = s /\ j = "tcp" /\ a = 1)
        PROVE  FALSE
    BY <1>5, <1>6 DEF WayInv, OneRequest
  <1>7. ASSUME NEW u \in Server, NEW j \in Form, NEW a \in Spot, Front(u, j, a)'
        PROVE  u = n /\ j = "tcp" /\ a = i
    <2>1. CASE j # "tcp"
      <3>1. Front(u, j, a)
        BY <1>4, <1>7, <2>1 DEF Front, Carries
      <3> QED BY <1>6, <2>1, <3>1
    <2>2. CASE j = "tcp"
      <3>0. a \in DOMAIN tcp'[u] /\ tcp'[u][a].msg.kind \notin {"SyncSent", "SyncProc"}
        BY <1>7, <2>2 DEF Front
      <3>1. CASE u # s /\ u # n
        <4>1. Front(u, j, a)
          BY <1>4, <2>2, <3>0, <3>1 DEF Front
        <4> QED BY <1>6, <3>1, <4>1
      <3>2. CASE u = s
        <4>1. a + 1 \in DOMAIN tcp[s] /\ tcp'[s][a] = tcp[s][a + 1] /\ a \in Nat /\ a # 0
          BY <1>1, <1>2, <1>4, <3>0, <3>2, TailElements
        <4>2. Front(s, "tcp", a + 1) /\ a + 1 \in Spot /\ a + 1 # 1
          BY <3>0, <3>2, <4>1 DEF Front, Spot
        <4> QED BY <1>5, <1>6, <4>2
      <3>3. CASE u = n /\ a # i
        <4>1. a \in DOMAIN tcp[n] /\ tcp'[n][a] = tcp[n][a]
          BY <1>1, <1>2, <1>4, <3>0, <3>3, AppendAt
        <4>2. Front(u, j, a)
          BY <2>2, <3>0, <3>3, <4>1 DEF Front
        <4> QED BY <1>2, <1>6, <3>3, <4>2
      <3> QED BY <2>2, <3>1, <3>2, <3>3
    <2> QED BY <2>1, <2>2
  <1>8. OneRequest'
    BY <1>7 DEF OneRequest
  <1>9. FinishBehind'
    <2>1. ASSUME NEW u \in Server, NEW w \in ThreadId, Finishes(u, w)'
          PROVE  FALSE
      <3>1. Finishes(u, w)
        BY <1>4, <2>1 DEF Finishes
      <3>2. Acknowledged(s, "tcp", 1)
        BY <1>5, <3>1 DEF WayInv, FinishBehind, Behind
      <3> QED BY <3>2 DEF Acknowledged
    <2> QED BY <2>1 DEF FinishBehind
  <1>10. Awaited'
    <2>1. NoConn.srv \notin Server
      BY WireAssumption DEF NoConn
    <2>2. PICK C \in SUBSET Conn : C = {}
      OBVIOUS
    <2>3. tcp'[n][i].conn = NoConn
      BY <1>1, <1>2, <1>3, <1>4
    <2>4. ASSUME NEW u \in Server, NEW j \in Form, NEW a \in Spot, Front(u, j, a)'
          PROVE  Owes(C, u, Back(u, j, a))'
      <3>1. Back(u, j, a)' = NoConn
        <4>1. tcp'[u][a].conn = NoConn /\ j = "tcp"
          BY <1>7, <2>3, <2>4
        <4> QED BY <4>1 DEF Back
      <3> QED BY <2>1, <3>1 DEF Owes
    <2>5. Await(C)'
      BY <2>2, <2>4 DEF Await
    <2> QED BY <2>5 DEF Awaited
  <1> QED BY <1>8, <1>9, <1>10

\* Main leaves the threads alone, but for those it starts, and the requests where
\* they are, but for one it takes.
LEMMA WorksReads ==
  ASSUME WayInv, NEW s \in Server, Works(s), ~RecvRequest(s), ~AcceptRequest(s),
         AcceptSyncSent(s) =>
            isTail(s) \/ Head(tcp[s]).msg.kind \in {"SyncSent", "SyncProc"}
  PROVE  thr' = thr /\ args' = args /\ \E k : Reads(s, k)
  <1>1. ChainInv /\ Downward
    BY DEF WayInv, OrderInv
  <1> USE <1>1, BookTypes
  <1>2. CASE RecvNotification(s) \/ DropRequest(s)
    <2>1. Reads(s, "udp") /\ thr' = thr /\ args' = args
      BY <1>2 DEF RecvNotification, DropRequest, RequestWaiting, Datagram, TakeDatagram, Reads
    <2> QED BY <2>1
  <1>3. CASE AcceptSyncSentNoNext(s) \/ AcceptSyncProc(s)
    <2>1. Reads(s, "tcp") /\ thr' = thr /\ args' = args
      BY <1>3 DEF AcceptSyncSentNoNext, AcceptSyncProc, Accepts, TakePacket, Reads, Works
    <2> QED BY <2>1
  <1>4. CASE AcceptSyncSent(s)
    <2>1. thr' = thr /\ args' = args /\ udp' = udp /\ tcp[s] # <<>>
      BY <1>4 DEF AcceptSyncSent, Accepts
    <2>2. CASE isTail(s)
      <3>1. Reads(s, "tcp")
        BY <1>4, <2>1, <2>2 DEF AcceptSyncSent, Reads
      <3> QED BY <2>1, <3>1
    <2>3. CASE ~isTail(s)
      <3>1. PICK p \in Packet : p = [msg |-> Head(tcp[s]).msg, conn |-> NoConn]
        BY <2>1, HeadPacketType, BankInvNow, NoConnType, PacketType DEF ChainInv
      <3>2. NoRequestPacket(p)
        BY <1>4, <2>3, <3>1 DEF NoRequestPacket
      <3>3. next[s] # s /\ next[s] \in Server
        BY <1>4, <2>3, NextOther DEF AcceptSyncSent
      <3>4. /\ \A u \in Server : u # s /\ u # next[s] => tcp'[u] = tcp[u]
            /\ tcp'[s] = Tail(tcp[s])
            /\ tcp'[next[s]] = Append(tcp[next[s]], p)
        BY <1>4, <2>3, <3>1, <3>3 DEF AcceptSyncSent
      <3>5. Reads(s, "tcp")
        BY <2>1, <3>2, <3>4 DEF Reads
      <3> QED BY <2>1, <3>5
    <2> QED BY <2>2, <2>3
  <1>5. CASE SyncSentTrans(s) \/ SyncProcTrans(s)
    <2>1. /\ thr' = thr /\ args' = args /\ udp' = udp /\ next[s] \in Server
          /\ \E k \in {"SyncSent", "SyncProc"}, r \in Request :
                Connect(next[s], Push(k, r), NoConn)
      <3>1. Unsent(s) \in SUBSET Request /\ Ahead(s) \in SUBSET Request
        BY BankInvNow DEF ServerInv, ServerTypeOK, ChainInv, Unsent, Ahead
      <3>2. CASE SyncSentTrans(s)
        BY <3>1, <3>2 DEF SyncSentTrans, NextUp
      <3>3. CASE SyncProcTrans(s)
        BY <3>1, <3>3 DEF SyncProcTrans, NextUp
      <3> QED BY <1>5, <3>2, <3>3
    <2>2. PICK k \in {"SyncSent", "SyncProc"}, r \in Request :
                 Connect(next[s], Push(k, r), NoConn)
      BY <2>1
    <2>3. PICK p \in Packet : p = [msg |-> Push(k, r), conn |-> NoConn]
      BY PushType, NoConnType, PacketType
    <2>4. NoRequestPacket(p)
      BY <2>3 DEF NoRequestPacket, Push
    <2>5. \A u \in Server : tcp'[u] = tcp[u] \/ tcp'[u] = Append(tcp[u], p)
      BY <2>1, <2>2, <2>3 DEF Connect
    <2>6. Reads(s, "thr")
      BY <2>1, <2>4, <2>5 DEF Reads
    <2> QED BY <2>1, <2>6
  <1>6. CASE SyncSentEnd(s) \/ SyncDone(s)
    <2>1. Reads(s, "thr") /\ thr' = thr /\ args' = args
      BY <1>6 DEF SyncSentEnd, SyncDone, wireVars, Reads
    <2> QED BY <2>1
  <1> QED BY <1>2, <1>3, <1>4, <1>5, <1>6
          DEF Works, MainLoop, Synchronize, ExpireOnRequest, ExpireOnAccept

LEMMA WayWorks ==
  ASSUME WayInv, OrderInv', [Next]_vars, NEW s \in Server, Works(s)
  PROVE  OneRequest' /\ FinishBehind' /\ Awaited'
  <1>1. ASSUME thr' = thr, args' = args, NEW k, Reads(s, k)
        PROVE  OneRequest' /\ FinishBehind' /\ Awaited'
    <2>1. \A u \in Server, w \in ThreadId : Calm(u, w) /\ Keeps(u, w)
      BY <1>1 DEF Calm, Keeps, Carries, Args
    <2> QED BY <1>1, <2>1, WayQueues
  <1> QED BY <1>1, WayTakes, WayForwards, WorksReads

-----------------------------------------------------------------------------
(* Threads.                                                                *)

\* A thread that does not acknowledge changes no other thread.
LEMMA RunsAlone ==
  ASSUME ChainInv, NEW s \in Server, NEW t \in ThreadId, Runs(s, t),
         ~SyncAcked(s, t), ~ReplyAck(s, t),
         NEW u \in Server, NEW w \in ThreadId, u # s \/ w # t
  PROVE  thr'[u][w] = thr[u][w]
  <1> USE BookTypes DEF Runs
  <1>1. CASE SyncConnect(s, t) \/ SyncAdd(s, t) \/ SyncEof(s, t) \/ SyncHist(s, t)
             \/ ReplyHist(s, t) \/ ReplySend(s, t)
    BY <1>1 DEF SyncConnect, SyncAdd, SyncEof, SyncHist, ReplyHist, ReplySend, Goto, Ends
  <1>2. CASE ReplyStart(s, t) \/ ProcCheck(s, t)
    BY <1>2 DEF ReplyStart, ProcCheck
  <1>3. CASE ProcApply(s, t)
    BY <1>3 DEF ProcApply
  <1> QED BY <1>1, <1>2, <1>3 DEF ThreadStep, SyncNullNext, ReplyNowhere

\* A thread that goes on with what it has, or ends.
LEMMA RunsKeeps ==
  ASSUME WayInv, NEW s \in Server, NEW t \in ThreadId, Runs(s, t),
         ~SyncAcked(s, t), ~ReplyAck(s, t), SyncConnect(s, t) => ~NextUp(s)
  PROVE  /\ \A k : Reads(k, "thr")
         /\ \A u \in Server, w \in ThreadId : Calm(u, w) /\ Keeps(u, w)
  <1>1. ChainInv /\ Downward /\ Shaped(thr[s][t])
    BY DEF WayInv, OrderInv, Shape
  <1>2. udp' = udp /\ args' = args /\ tcp' = tcp
    <2>1. tcp' = tcp
      BY DEF Runs, ThreadStep, SyncConnect, SyncNullNext, SyncAdd, SyncEof,
             SyncHist, ReplyStart, ProcCheck, ProcApply, ReplyHist, ReplySend,
             ReplyNowhere, wireVars
    <2> QED BY <2>1, RunsUp
  <1>3. /\ Calm(s, t)
        /\ Carries(s, t)' => /\ Carries(s, t) /\ thr'[s][t].chan = thr[s][t].chan
                             /\ thr[s][t].ack = "acked" => thr'[s][t].ack = "acked"
    <2>1. CASE SyncConnect(s, t) \/ SyncEof(s, t) \/ SyncHist(s, t)
      <3>1. thr'[s][t] = Idle
        BY <1>1, <2>1, RunsThread
      <3> QED BY <3>1, IdleFields DEF Calm, Carries
    <2>2. CASE SyncAdd(s, t)
      <3>1. Moved(s, t, "add", "wait")
        BY <1>1, <2>2, RunsThread
      <3> QED BY <3>1 DEF Moved, Calm, Carries
    <2>3. CASE ReplyStart(s, t) \/ ProcCheck(s, t) \/ ReplySend(s, t) \/ ReplyHist(s, t)
      <3>1. \/ Moved(s, t, "start", "check") \/ Moved(s, t, "check", "apply")
            \/ Moved(s, t, "send", "hist")
            \/ Moved(s, t, "hist", "ack") /\ thr[s][t].role = "Reply"
        BY <1>1, <2>3, RunsThread
      <3> QED BY <1>1, <3>1 DEF Moved, Calm, Carries, Shaped
    <2>4. CASE ProcApply(s, t)
      <3>1. Moved(s, t, "apply", IF thr[s][t].role = "Reply" THEN "send" ELSE "hist")
        BY <1>1, <2>4, RunsThread
      <3> QED BY <1>1, <3>1 DEF Moved, Calm, Carries, Shaped
    <2> QED BY <2>1, <2>2, <2>3, <2>4 DEF Runs, ThreadStep, SyncNullNext, ReplyNowhere
  <1>4. ASSUME NEW u \in Server, NEW w \in ThreadId
        PROVE  Calm(u, w) /\ Keeps(u, w)
    <2>1. CASE u = s /\ w = t
      BY <1>2, <1>3, <2>1 DEF Args, Keeps
    <2>2. CASE u # s \/ w # t
      <3>1. thr'[u][w] = thr[u][w]
        BY <1>1, <2>2, RunsAlone
      <3> QED BY <1>2, <3>1 DEF Calm, Keeps, Carries, Args
    <2> QED BY <2>1, <2>2
  <1>5. \A k : Reads(k, "thr")
    BY <1>2 DEF Reads
  <1> QED BY <1>4, <1>5

LEMMA WayRuns ==
  ASSUME WayInv, OrderInv', [Next]_vars, NEW s \in Server, NEW t \in ThreadId, Runs(s, t),
         ~SyncAcked(s, t), ~ReplyAck(s, t), SyncConnect(s, t) => ~NextUp(s)
  PROVE  OneRequest' /\ FinishBehind' /\ Awaited'
  BY RunsKeeps, WayQueues

\* The request goes to the end of the queue of the next server.
LEMMA ConnectFronts ==
  ASSUME WayInv, NEW s \in Server, NEW t \in ThreadId, Runs(s, t), SyncConnect(s, t),
         NextUp(s), NEW i, i = Len(tcp[next[s]]) + 1
  PROVE  /\ i \in Nat /\ next[s] \in Server
         /\ thr[s][t].pc = "connect" /\ thr[s][t].ack = "none"
         /\ thr'[s][t].pc = "add" /\ thr'[s][t].ack = "none"
         /\ thr'[s][t].peer = next[s] /\ thr'[s][t].chan = thr[s][t].chan
         /\ \A u \in Server, w \in ThreadId : u # s \/ w # t => thr'[u][w] = thr[u][w]
         /\ tcp'[next[s]][i].msg = buf[s]
         /\ tcp'[next[s]][i].conn.srv = s /\ tcp'[next[s]][i].conn.thr = t
         /\ tcp'[next[s]][i].conn \in Conn
         /\ \A u \in Server, j \in Form, a \in Spot :
               Front(u, j, a)' => u = next[s] /\ j = "tcp" /\ a = i
  <1>1. ChainInv /\ Downward /\ OrderInv /\ tcp \in [Server -> Seq(Packet)]
    BY BookTypes DEF WayInv, OrderInv
  <1>2. PICK n \in Server : n = next[s] /\ n # s /\ Precedes(s, n)
    BY <1>1, NextOther
  <1>3. PICK c \in Conn : c = [srv |-> s, thr |-> t]
    BY DEF Conn
  <1>4. PICK p : p = [msg |-> buf[s], conn |-> c]
    OBVIOUS
  <1>5. i = Len(tcp[n]) + 1 /\ i \in Nat
    BY <1>1, <1>2
  <1>6. /\ udp' = udp /\ args' = args /\ up' = up /\ up[s] /\ up[n]
        /\ tcp'[n] = Append(tcp[n], p)
        /\ \A u \in Server : u # n => tcp'[u] = tcp[u]
    <2>1. Connect(n, buf[s], c)
      BY <1>2, <1>3 DEF SyncConnect
    <2>2. tcp' = [tcp EXCEPT ![n] = Append(@, p)]
      BY <1>4, <2>1 DEF Connect
    <2>3. tcp'[n] = Append(tcp[n], p) /\ \A u \in Server : u # n => tcp'[u] = tcp[u]
      BY <1>1, <2>2
    <2> QED BY <1>2, <2>3, RunsUp DEF NextUp
  <1>7. /\ thr[s][t].pc = "connect" /\ thr[s][t].ack = "none"
        /\ thr'[s][t].pc = "add" /\ thr'[s][t].peer = n /\ thr'[s][t].ack = "none"
        /\ thr'[s][t].chan = thr[s][t].chan
    <2>1. /\ thr[s][t].pc = "connect" /\ thr'[s][t].pc = "add"
          /\ thr'[s][t].peer = next[s] /\ thr'[s][t].ack = thr[s][t].ack
          /\ thr'[s][t].chan = thr[s][t].chan
      <3>1. thr' = [thr EXCEPT ![s][t].pc = "add", ![s][t].peer = next[s]]
        BY DEF SyncConnect
      <3> QED BY <1>1, <3>1, BookTypes DEF SyncConnect, At, Thread
    <2>2. thr[s][t].ack = "none"
      BY <1>1, <2>1 DEF OrderInv, Shape, Shaped
    <2> QED BY <1>2, <2>1, <2>2
  <1>8. ASSUME NEW u \in Server, NEW w \in ThreadId, u # s \/ w # t
        PROVE  thr'[u][w] = thr[u][w]
    BY <1>1, <1>8, RunsAlone DEF SyncConnect, SyncAcked, ReplyAck, At
  <1>9. Front(s, "thr", t) /\ "thr" \in Form /\ "tcp" \in Form /\ t \in Spot
    BY <1>7 DEF Front, Carries, Form, Spot
  <1>10. ASSUME NEW u \in Server, NEW j \in Form, NEW a \in Spot, Front(u, j, a),
                ~(u = s /\ j = "thr" /\ a = t)
         PROVE  FALSE
    BY <1>9, <1>10 DEF WayInv, OneRequest
  <1>11. ASSUME NEW u \in Server, NEW j \in Form, NEW a \in Spot, Front(u, j, a)'
         PROVE  u = n /\ j = "tcp" /\ a = i
    <2>1. CASE j = "udp"
      <3>1. Front(u, j, a)
        BY <1>6, <1>11, <2>1 DEF Front
      <3> QED BY <1>10, <2>1, <3>1
    <2>2. CASE j = "tcp"
      <3>1. a \in DOMAIN tcp'[u] /\ tcp'[u][a].msg.kind \notin {"SyncSent", "SyncProc"}
        BY <1>11, <2>2 DEF Front
      <3>2. CASE u # n
        <4>1. Front(u, j, a)
          BY <1>6, <2>2, <3>1, <3>2 DEF Front
        <4> QED BY <1>10, <2>2, <4>1
      <3>3. CASE u = n /\ a # i
        <4>1. a \in DOMAIN tcp[n] /\ tcp'[n][a] = tcp[n][a]
          BY <1>1, <1>5, <1>6, <3>1, <3>3, AppendAt
        <4>2. Front(u, j, a)
          BY <2>2, <3>1, <3>3, <4>1 DEF Front
        <4> QED BY <1>10, <2>2, <4>2
      <3> QED BY <2>2, <3>2, <3>3
    <2>3. CASE j = "thr"
      <3>1. a \in ThreadId /\ Carries(u, a)'
        BY <1>11, <2>3 DEF Front
      <3>2. u # s \/ a # t
        BY <1>7, <3>1 DEF Carries
      <3>3. Front(u, j, a)
        BY <1>8, <2>3, <3>1, <3>2 DEF Front, Carries
      <3> QED BY <1>10, <3>2, <3>3
    <2> QED BY <2>1, <2>2, <2>3 DEF Form
  <1>12. tcp'[n][i] = p
    BY <1>1, <1>5, <1>6
  <1>13. tcp'[n][i].msg = buf[s] /\ tcp'[n][i].conn = c /\ c.srv = s /\ c.thr = t
    BY <1>3, <1>4, <1>12
  <1> QED BY <1>2, <1>5, <1>7, <1>8, <1>11, <1>13

\* And the thread waits.
LEMMA WayConnect ==
  ASSUME WayInv, OrderInv', [Next]_vars, NEW s \in Server, NEW t \in ThreadId, Runs(s, t),
         SyncConnect(s, t), NextUp(s)
  PROVE  OneRequest' /\ FinishBehind' /\ Awaited'
  <1>1. ChainInv /\ Downward /\ OrderInv /\ OrderKept
    BY NextOrder DEF WayInv, OrderInv
  <1>2. PICK n \in Server : n = next[s] /\ n # s /\ Precedes(s, n)
    BY <1>1, NextOther
  <1>3. PICK i : i = Len(tcp[n]) + 1
    OBVIOUS
  <1>4. PICK c \in Conn : c = tcp'[n][i].conn /\ c.srv = s /\ c.thr = t
    BY <1>2, <1>3, ConnectFronts
  <1>5. args' = args /\ up' = up /\ up[s] /\ up[n]
    BY <1>2, RunsUp DEF NextUp
  <1>6. /\ thr[s][t].pc = "connect" /\ thr[s][t].ack = "none"
        /\ thr'[s][t].pc = "add" /\ thr'[s][t].peer = n /\ thr'[s][t].ack = "none"
        /\ thr'[s][t].chan = thr[s][t].chan
    BY <1>2, <1>3, ConnectFronts
  <1>7. ASSUME NEW u \in Server, NEW w \in ThreadId, u # s \/ w # t
        PROVE  thr'[u][w] = thr[u][w]
    BY <1>2, <1>3, <1>7, ConnectFronts
  <1>8. Front(s, "thr", t) /\ "thr" \in Form /\ t \in Spot
    BY <1>6 DEF Front, Carries, Form, Spot
  <1>9. ASSUME NEW u \in Server, NEW j \in Form, NEW a \in Spot, Front(u, j, a)'
         PROVE  u = n /\ j = "tcp" /\ a = i
    BY <1>2, <1>3, <1>9, ConnectFronts
  <1>10. OneRequest'
    BY <1>9 DEF OneRequest
  <1>11. FinishBehind'
    <2>1. ASSUME NEW u \in Server, NEW w \in ThreadId, Finishes(u, w)'
          PROVE  FALSE
      <3>1. u # s \/ w # t
        BY <1>6, <2>1 DEF Finishes
      <3>2. Finishes(u, w)
        BY <1>7, <2>1, <3>1 DEF Finishes
      <3>3. Acknowledged(s, "thr", t)
        BY <1>8, <3>2 DEF WayInv, FinishBehind, Behind
      <3> QED BY <1>6, <3>3 DEF Acknowledged
    <2> QED BY <2>1 DEF FinishBehind
  <1>12. PICK C \in SUBSET Conn : Await(C)
    BY DEF WayInv, Awaited
  <1>13. PICK D \in SUBSET Conn : D = {x \in C : Waiting(x.srv, x.thr)'} \cup {c}
    OBVIOUS
  <1>14. c.srv = s /\ c.thr = t /\ Waiting(s, t)'
    BY <1>4, <1>6 DEF Waiting
  <1>15. ASSUME NEW v \in Server, NEW x \in Conn, Owes(C, v, x)
         PROVE  Owes(D, v, x)'
    <2>1. ASSUME x.srv \in Server, Waiting(x.srv, x.thr)', thr'[x.srv][x.thr].peer = v
          PROVE  x \in D
      <3>1. PICK u \in Server, w \in ThreadId : u = x.srv /\ w = x.thr
        BY <2>1 DEF Conn
      <3>2. CASE u = s /\ w = t
        <4>1. x.srv = c.srv /\ x.thr = c.thr
          BY <1>4, <3>1, <3>2
        <4>2. x = c
          BY ONLY x \in Conn, c \in Conn, <4>1 DEF Conn
        <4> QED BY <1>13, <4>2
      <3>3. CASE u # s \/ w # t
        <4>1. thr'[u][w] = thr[u][w]
          BY <1>7, <3>3
        <4>2. Waiting(u, w) /\ thr[u][w].peer = v /\ Waiting(u, w)'
          BY <2>1, <3>1, <4>1 DEF Waiting
        <4>3. x \in C
          BY <1>15, <3>1, <4>2 DEF Owes
        <4> QED BY <1>13, <3>1, <4>2, <4>3
      <3> QED BY <3>2, <3>3
    <2> QED BY <2>1 DEF Owes
  <1>16. ASSUME NEW x \in D
         PROVE  /\ x.srv \in Server /\ Waiting(x.srv, x.thr)'
                /\ thr'[x.srv][x.thr].pc = "wait" => Stored(x.srv, Args(x.srv, x.thr).req)'
                /\ Owes(D, x.srv, Args(x.srv, x.thr).conn)'
                /\ Precedes(x.srv, n)'
    <2>1. CASE x = c
      <3>1. PICK b \in Conn : b = Args(s, t).conn
        BY <1>1, <1>5, BackOther
      <3>2. Owes(C, s, b)
        BY <1>8, <1>12, <3>1 DEF Await, Back
      <3>3. Owes(D, s, b)'
        BY <1>15, <3>2
      <3>4. b = Args(s, t).conn'
        BY <1>5, <1>6, <3>1 DEF Args
      <3>5. Owes(D, x.srv, Args(x.srv, x.thr).conn)'
        BY <1>14, <2>1, <3>3, <3>4 DEF Owes
      <3>6. Precedes(s, n)'
        BY <1>1, <1>2, <1>5, StayBefore
      <3>7. thr'[x.srv][x.thr].pc # "wait"
        BY <1>6, <1>14, <2>1
      <3> QED BY <1>14, <2>1, <3>5, <3>6, <3>7
    <2>2. CASE x \in C /\ Waiting(x.srv, x.thr)'
      <3>1. /\ x.srv \in Server /\ x.thr \in ThreadId /\ up[x.srv] /\ up'[x.srv]
            /\ Args(x.srv, x.thr)' = Args(x.srv, x.thr)
            /\ thr'[x.srv][x.thr].pc = "wait" => Stored(x.srv, Args(x.srv, x.thr).req)'
        BY <1>1, <1>12, <2>2, WaitersKept
      <3>2. PICK b \in Conn : b = Args(x.srv, x.thr).conn
        BY <1>1, <3>1, BackOther
      <3>3. Owes(D, x.srv, b)'
        BY <1>12, <1>15, <2>2, <3>1, <3>2 DEF Await
      <3>4. b = Args(x.srv, x.thr).conn'
        BY <3>1, <3>2
      <3>5. Precedes(x.srv, s)
        BY <1>8, <1>12, <2>2 DEF Await
      <3>6. Precedes(x.srv, n)
        BY <1>1, <1>2, <3>5, PrecedesOrder
      <3>7. Precedes(x.srv, n)'
        BY <1>1, <1>5, <3>1, <3>6, StayBefore
      <3> QED BY <2>2, <3>1, <3>3, <3>4, <3>7 DEF Owes
    <2> QED BY <1>13, <2>1, <2>2
  <1>17. ASSUME NEW u \in Server, NEW j \in Form, NEW a \in Spot, Front(u, j, a)'
         PROVE  Owes(D, u, Back(u, j, a))' /\ \A x \in D : Precedes(x.srv, u)'
    <2>1. u = n /\ j = "tcp" /\ a = i
      BY <1>9, <1>17
    <2>2. Back(u, j, a)' = c
      BY <1>4, <2>1 DEF Back
    <2>3. Owes(D, u, Back(u, j, a))'
      BY <1>13, <2>2 DEF Owes
    <2> QED BY <1>16, <2>1, <2>3
  <1>18. Await(D)'
    BY <1>16, <1>17 DEF Await
  <1> QED BY <1>10, <1>11, <1>18 DEF Awaited

\* An acknowledgement reaches the one thread that waits for it, or nobody.
LEMMA AckReaches ==
  ASSUME WayInv, NEW s \in Server, NEW t \in ThreadId, Runs(s, t),
         SyncAcked(s, t) \/ ReplyAck(s, t), NEW C \in SUBSET Conn, Await(C)
  PROVE  /\ Front(s, "thr", t) /\ "thr" \in Form /\ t \in Spot
         /\ \A u \in Server, w \in ThreadId : u # s \/ w # t =>
               \/ thr'[u][w] = thr[u][w]
               \/ /\ thr'[u][w] = WithAck(thr[u][w], "acked")
                  /\ Args(s, t).conn \in C
                  /\ Args(s, t).conn.srv = u /\ Args(s, t).conn.thr = w
                  /\ Waiting(u, w) /\ thr[u][w].peer = s
                  /\ thr[u][w].pc = "wait" => Stored(u, Args(u, w).req)
  <1>1. ChainInv /\ Downward /\ Shape
    BY DEF WayInv, OrderInv
  <1>2. Front(s, "thr", t) /\ "thr" \in Form /\ t \in Spot
    BY DEF SyncAcked, ReplyAck, At, Front, Carries, Form, Spot
  <1>3. PICK c \in Conn : c = Args(s, t).conn
    BY <1>1, RunsUp, BackOther
  <1>4. Owes(C, s, c)
    BY <1>2, <1>3 DEF Await, Back
  <1>5. ASSUME NEW u \in Server, NEW w \in ThreadId, u # s \/ w # t,
               thr'[u][w] # thr[u][w]
        PROVE  /\ thr'[u][w] = WithAck(thr[u][w], "acked")
               /\ c \in C /\ c.srv = u /\ c.thr = w
               /\ Waiting(u, w) /\ thr[u][w].peer = s
               /\ thr[u][w].pc = "wait" => Stored(u, Args(u, w).req)
    <2>1. u # s
      BY <1>1, <1>5, RunsSelf
    <2>2. /\ c.srv = u /\ c.thr = w
          /\ thr[u][w].peer = s /\ thr[u][w].ack = "none"
          /\ thr'[u][w] = WithAck(thr[u][w], "acked")
      BY <1>1, <1>3, <1>5, <2>1, RunsOthers
    <2>3. thr[u][w].pc \in {"add", "wait"}
      BY <1>1, <2>2, AckShape
    <2>4. Waiting(u, w)
      BY <2>2, <2>3 DEF Waiting
    <2>5. c \in C
      BY <1>4, <2>2, <2>4 DEF Owes
    <2>6. thr[u][w].pc = "wait" => Stored(u, Args(u, w).req)
      BY <2>2, <2>5 DEF Await
    <2> QED BY <2>2, <2>4, <2>5, <2>6
  <1> QED BY <1>2, <1>3, <1>5

\* Then that thread has it.
LEMMA AckFronts ==
  ASSUME WayInv, NEW s \in Server, NEW t \in ThreadId, Runs(s, t),
         SyncAcked(s, t) \/ ReplyAck(s, t), NEW C \in SUBSET Conn, Await(C),
         NEW c \in Conn, c = Args(s, t).conn
  PROVE  /\ ~Carries(s, t)' /\ ~Waiting(s, t)'
         /\ Finishes(s, t)' => thr[s][t].ack = "acked"
         /\ \A u \in Server, j \in Form, a \in Spot : Front(u, j, a)' =>
               /\ j = "thr" /\ u = c.srv /\ a = c.thr /\ c \in C
               /\ thr'[u][a].ack = "acked"
  <1>1. ChainInv /\ Downward
    BY DEF WayInv, OrderInv
  <1>2. /\ Front(s, "thr", t) /\ "thr" \in Form /\ t \in Spot
        /\ \A u \in Server, w \in ThreadId : u # s \/ w # t =>
               \/ thr'[u][w] = thr[u][w]
               \/ /\ thr'[u][w] = WithAck(thr[u][w], "acked")
                  /\ c \in C /\ c.srv = u /\ c.thr = w
    BY AckReaches
  <1>3. udp' = udp /\ tcp' = tcp
    BY DEF SyncAcked, ReplyAck, wireVars
  <1>4. /\ ~Carries(s, t)' /\ ~Waiting(s, t)'
        /\ Finishes(s, t)' => thr[s][t].ack = "acked"
    <2>1. \/ thr'[s][t] = Idle
          \/ /\ thr[s][t].ack = "acked" /\ thr'[s][t].pc = "check"
             /\ thr'[s][t].role = "Sync" /\ thr'[s][t].ack = "none"
      BY <1>1, RunsThread
    <2> QED BY <2>1, IdleFields DEF Carries, Waiting, Finishes
  <1>5. ASSUME NEW u \in Server, NEW j \in Form, NEW a \in Spot, Front(u, j, a),
               ~(u = s /\ j = "thr" /\ a = t)
        PROVE  FALSE
    BY <1>2, <1>5 DEF WayInv, OneRequest
  <1>6. ASSUME NEW u \in Server, NEW j \in Form, NEW a \in Spot, Front(u, j, a)'
        PROVE  /\ j = "thr" /\ u = c.srv /\ a = c.thr /\ c \in C
               /\ thr'[u][a].ack = "acked"
    <2>1. CASE j \in {"udp", "tcp"}
      <3>1. Front(u, j, a)
        BY <1>3, <1>6, <2>1 DEF Front
      <3> QED BY <1>5, <2>1, <3>1
    <2>2. CASE j = "thr"
      <3>1. a \in ThreadId /\ Carries(u, a)'
        BY <1>6, <2>2 DEF Front
      <3>2. u # s \/ a # t
        BY <1>4, <3>1
      <3>3. thr'[u][a] # thr[u][a]
        <4>1. ASSUME thr'[u][a] = thr[u][a]
              PROVE  FALSE
          <5>1. Front(u, j, a)
            BY <2>2, <3>1, <4>1 DEF Front, Carries
          <5> QED BY <1>5, <3>2, <5>1
        <4> QED BY <4>1
      <3>4. thr'[u][a] = WithAck(thr[u][a], "acked") /\ u = c.srv /\ a = c.thr /\ c \in C
        BY <1>2, <3>1, <3>2, <3>3
      <3>5. thr'[u][a].ack = "acked"
        BY <1>1, <3>1, <3>4, BookTypes, WithAckFields
      <3> QED BY <2>2, <3>4, <3>5
    <2> QED BY <2>1, <2>2 DEF Form
  <1> QED BY <1>4, <1>6

\* The acknowledgement goes up the chain, and the thread processes or ends.
LEMMA WayAck ==
  ASSUME WayInv, OrderInv', [Next]_vars, NEW s \in Server, NEW t \in ThreadId, Runs(s, t),
         SyncAcked(s, t) \/ ReplyAck(s, t)
  PROVE  OneRequest' /\ FinishBehind' /\ Awaited'
  <1>1. ChainInv /\ Downward /\ OrderInv /\ OrderKept
    BY NextOrder DEF WayInv, OrderInv
  <1>2. PICK C \in SUBSET Conn : Await(C)
    BY DEF WayInv, Awaited
  <1>3. PICK c \in Conn : c = Args(s, t).conn
    BY <1>1, RunsUp, BackOther
  <1>4. /\ Front(s, "thr", t) /\ "thr" \in Form /\ t \in Spot
        /\ \A u \in Server, w \in ThreadId : u # s \/ w # t =>
               \/ thr'[u][w] = thr[u][w]
               \/ /\ thr'[u][w] = WithAck(thr[u][w], "acked")
                  /\ c \in C /\ c.srv = u /\ c.thr = w
                  /\ Waiting(u, w) /\ thr[u][w].peer = s
    BY <1>2, <1>3, AckReaches
  <1>5. udp' = udp /\ tcp' = tcp /\ args' = args /\ up' = up /\ up[s]
    BY RunsUp DEF SyncAcked, ReplyAck, wireVars
  <1>6. /\ ~Carries(s, t)' /\ ~Waiting(s, t)'
        /\ Finishes(s, t)' => thr[s][t].ack = "acked"
    BY <1>2, <1>3, AckFronts
  <1>7. ASSUME NEW u \in Server, NEW j \in Form, NEW a \in Spot, Front(u, j, a)'
        PROVE  /\ j = "thr" /\ u = c.srv /\ a = c.thr /\ c \in C
               /\ thr'[u][a].ack = "acked"
    BY <1>2, <1>3, <1>7, AckFronts
  <1>8. OneRequest'
    BY <1>7 DEF OneRequest
  <1>9. \A w \in ThreadId : thr[s][t].ack = "acked" => ~Finishes(s, w)
    <2>1. ASSUME NEW w \in ThreadId, Finishes(s, w)
          PROVE  FALSE
      <3>1. Precedes(s, s)
        BY <1>4, <2>1 DEF WayInv, FinishBehind, Behind
      <3> QED BY <1>1, <3>1, PrecedesOrder
    <2> QED BY <2>1
  <1>10. ASSUME NEW x \in Server, NEW y \in ThreadId, Finishes(x, y)'
         PROVE  /\ x = s \/ Precedes(s, x)
                /\ \A w \in ThreadId : Finishes(x, w)' => y = w
    <2>1. ASSUME NEW w \in ThreadId, Finishes(x, w)', x # s \/ w # t
          PROVE  Finishes(x, w)
      <3>1. thr'[x][w] = thr[x][w] \/ Waiting(x, w)
        BY <1>4, <2>1
      <3>2. thr'[x][w] = thr[x][w] => Finishes(x, w)
        BY <2>1 DEF Finishes
      <3>3. thr'[x][w] = WithAck(thr[x][w], "acked") => Finishes(x, w)
        BY <1>1, <2>1, BookTypes, WithAckFields DEF Finishes
      <3> QED BY <1>4, <2>1, <3>2, <3>3
    <2>2. CASE x = s /\ y = t
      BY <1>6, <1>9, <1>10, <2>1, <2>2
    <2>3. CASE x # s \/ y # t
      <3>1. Finishes(x, y)
        BY <1>10, <2>1, <2>3
      <3>2. Behind(x) /\ \A w \in ThreadId : Finishes(x, w) => y = w
        BY <3>1 DEF WayInv, FinishBehind
      <3>3. Precedes(s, x) /\ x # s
        BY <1>1, <1>4, <3>2, PrecedesOrder DEF Behind
      <3> QED BY <2>1, <3>2, <3>3
    <2> QED BY <2>2, <2>3
  <1>11. c \in C => /\ c.srv \in Server /\ c.thr \in ThreadId /\ up[c.srv]
                    /\ Precedes(c.srv, s)
    <2>1. c \in C => /\ c.srv \in Server /\ c.thr \in ThreadId /\ Waiting(c.srv, c.thr)
                     /\ Precedes(c.srv, s)
      BY <1>2, <1>4 DEF Await, Conn
    <2> QED BY <1>1, <2>1, Present
  <1>12. FinishBehind'
    <2>1. ASSUME NEW x \in Server, NEW y \in ThreadId, Finishes(x, y)'
          PROVE  Behind(x)'
      <3>1. ASSUME NEW u \in Server, NEW j \in Form, NEW a \in Spot, Front(u, j, a)'
            PROVE  Acknowledged(u, j, a)' /\ Precedes(u, x)'
        <4>1. j = "thr" /\ u = c.srv /\ c \in C /\ thr'[u][a].ack = "acked"
          BY <1>7, <3>1
        <4>2. Precedes(u, x)
          BY <1>1, <1>10, <1>11, <2>1, <4>1, PrecedesOrder
        <4>3. up'[u] /\ up'[x]
          BY <2>1, <3>1, PresentNext
        <4> QED BY <1>1, <4>1, <4>2, <4>3, StayBefore DEF Acknowledged
      <3> QED BY <3>1 DEF Behind
    <2> QED BY <1>10, <2>1 DEF FinishBehind
  <1>13. PICK D \in SUBSET Conn :
            D = {x \in C : Waiting(x.srv, x.thr)' /\ Precedes(x.srv, c.srv)}
    OBVIOUS
  <1>14. ASSUME NEW x \in C, x.srv \in Server, up[x.srv], x = c \/ x \in D,
                NEW b \in Conn, b = Args(x.srv, x.thr).conn
         PROVE  Owes(D, x.srv, b)'
    <2>1. ASSUME b.srv \in Server, Waiting(b.srv, b.thr)', thr'[b.srv][b.thr].peer = x.srv
          PROVE  b \in D
      <3>1. PICK u \in Server, w \in ThreadId : u = b.srv /\ w = b.thr
        BY <2>1 DEF Conn
      <3>2. u # s \/ w # t
        BY <1>6, <2>1, <3>1
      <3>3. thr'[u][w] # WithAck(thr[u][w], "acked")
        BY <1>1, <2>1, <3>1, BookTypes, WithAckFields DEF Waiting
      <3>4. thr'[u][w] = thr[u][w]
        BY <1>4, <3>2, <3>3
      <3>5. Waiting(u, w) /\ thr[u][w].peer = x.srv
        BY <2>1, <3>1, <3>4 DEF Waiting
      <3>6. b \in C
        BY <1>2, <1>14, <3>1, <3>5 DEF Await, Owes
      <3>7. Precedes(u, x.srv)
        <4>1. up[u]
          BY <1>1, <3>5, Present
        <4>2. PICK v \in Server, z \in ThreadId : v = x.srv /\ z = x.thr
          BY <1>14 DEF Conn
        <4>3. thr[v][z].chan \in Chan
          BY <1>1, BookTypes DEF Thread
        <4>4. args[v][thr[v][z].chan].conn.srv = u
          BY <1>14, <3>1, <4>2 DEF Args
        <4> QED BY <1>1, <4>1, <4>2, <4>3, <4>4 DEF Downward, Alive
      <3>8. Precedes(u, c.srv)
        BY <1>1, <1>13, <1>14, <3>7, PrecedesOrder
      <3> QED BY <1>13, <2>1, <3>1, <3>6, <3>8
    <2> QED BY <2>1 DEF Owes
  <1>15. ASSUME NEW x \in D
         PROVE  /\ x.srv \in Server /\ Waiting(x.srv, x.thr)'
                /\ thr'[x.srv][x.thr].pc = "wait" => Stored(x.srv, Args(x.srv, x.thr).req)'
                /\ Owes(D, x.srv, Args(x.srv, x.thr).conn)'
                /\ up'[x.srv] /\ Precedes(x.srv, c.srv)
    <2>1. /\ x.srv \in Server /\ x.thr \in ThreadId /\ Waiting(x.srv, x.thr)'
          /\ up[x.srv] /\ up'[x.srv] /\ Args(x.srv, x.thr)' = Args(x.srv, x.thr)
          /\ thr'[x.srv][x.thr].pc = "wait" => Stored(x.srv, Args(x.srv, x.thr).req)'
      BY <1>1, <1>2, <1>13, WaitersKept
    <2>2. PICK b \in Conn : b = Args(x.srv, x.thr).conn
      BY <1>1, <2>1, BackOther
    <2>3. Owes(D, x.srv, b)'
      BY <1>13, <1>14, <2>1, <2>2
    <2>4. b = Args(x.srv, x.thr).conn'
      BY <2>1, <2>2
    <2> QED BY <1>13, <2>1, <2>3, <2>4 DEF Owes
  <1>16. ASSUME NEW u \in Server, NEW j \in Form, NEW a \in Spot, Front(u, j, a)'
         PROVE  Owes(D, u, Back(u, j, a))' /\ \A x \in D : Precedes(x.srv, u)'
    <2>1. j = "thr" /\ u = c.srv /\ a = c.thr /\ c \in C
      BY <1>7, <1>16
    <2>2. a \in ThreadId /\ up[u] /\ up'[u]
      BY <1>5, <1>11, <2>1
    <2>3. PICK b \in Conn : b = Args(u, a).conn
      BY <1>1, <2>2, BackOther
    <2>4. Owes(D, u, b)'
      BY <1>14, <2>1, <2>2, <2>3
    <2>5. thr'[u][a].chan = thr[u][a].chan
      <3>1. u # s \/ a # t
        BY <1>6, <1>16, <2>1 DEF Front
      <3>2. thr'[u][a] = thr[u][a] \/ thr'[u][a] = WithAck(thr[u][a], "acked")
        BY <1>4, <2>2, <3>1
      <3>3. thr[u][a] \in Thread
        BY <1>1, <2>2, BookTypes
      <3> QED BY <3>2, <3>3, WithAckFields
    <2>6. b = Back(u, j, a)'
      BY <1>5, <2>1, <2>3, <2>5 DEF Back, Args
    <2>7. \A x \in D : Precedes(x.srv, u)'
      BY <1>1, <1>15, <2>1, <2>2, StayBefore
    <2> QED BY <2>4, <2>6, <2>7 DEF Owes
  <1>17. Await(D)'
    BY <1>15, <1>16 DEF Await
  <1> QED BY <1>8, <1>12, <1>17 DEF Awaited

LEMMA WayNext == Timing /\ WayInv /\ [Next]_vars => WayInv'
  <1> SUFFICES ASSUME Timing, WayInv, [Next]_vars
               PROVE  WayInv'
    OBVIOUS
  <1>1. OrderInv'
    BY OrderNext DEF WayInv
  <1>2. ASSUME NEW s \in Server, BankStart(s)
        PROVE  OneRequest' /\ FinishBehind' /\ Awaited'
    <2>1. udp' = udp /\ UNCHANGED <<tcp, args, thr>>
      BY <1>2 DEF BankStart, serverVars
    <2> QED BY <1>1, <2>1, WayQuiet
  <1>3. ASSUME UNCHANGED vars
        PROVE  OneRequest' /\ FinishBehind' /\ Awaited'
    <2>1. udp' = udp /\ UNCHANGED <<tcp, args, thr>>
      BY <1>3 DEF vars, wireVars, serverVars
    <2> QED BY <1>1, <2>1, WayQuiet
  <1>4. ASSUME NEW s \in Server, NEW t \in ThreadId, Runs(s, t)
        PROVE  OneRequest' /\ FinishBehind' /\ Awaited'
    <2>1. CASE SyncAcked(s, t) \/ ReplyAck(s, t)
      BY <1>1, <1>4, <2>1, WayAck
    <2>2. CASE SyncConnect(s, t) /\ NextUp(s)
      BY <1>1, <1>4, <2>2, WayConnect
    <2> QED BY <1>1, <1>4, <2>1, <2>2, WayRuns
  <1>5. OneRequest' /\ FinishBehind' /\ Awaited'
    BY <1>1, <1>2, <1>3, <1>4, StepKinds, WayDies, WayWorks, WayClients, WayMaster
       DEF WayInv, OrderInv
  <1> QED BY <1>1, <1>5 DEF WayInv

LEMMA WayInit ==
  ASSUME DelayedLast, PromptThreads, PromptMaster, Init
  PROVE  WayInv
  <1>1. OrderInv
    BY OrderInit
  <1>2. \A s \in Server : udp[s] = <<>> /\ tcp[s] = <<>>
    BY DEF Init
  <1>3. \A s \in Server, t \in ThreadId : thr[s][t] = Idle
    BY DEF Init, ServerInit
  <1>4. \A s \in Server, t \in ThreadId : ~Carries(s, t) /\ ~Finishes(s, t)
    BY <1>3, IdleFields DEF Carries, Finishes
  <1>5. DOMAIN <<>> = {}
    OBVIOUS
  <1>6. \A s \in Server, k \in Form, a \in Spot : ~Front(s, k, a)
    BY <1>2, <1>4, <1>5 DEF Front
  <1>7. Await({})
    BY <1>6 DEF Await
  <1>8. Awaited
    BY <1>7 DEF Awaited
  <1> QED BY <1>1, <1>4, <1>6, <1>8 DEF WayInv, OneRequest, FinishBehind

-----------------------------------------------------------------------------
(* The books.                                                              *)

\* One thread of a server at most processes.
LEMMA AloneProcesses ==
  ASSUME WayInv, NEW s \in Server, NEW t \in ThreadId, NEW w \in ThreadId,
         Processes(s, t), Processes(s, w)
  PROVE  t = w
  <1>1. ChainInv /\ Shape
    BY DEF WayInv, OrderInv
  <1>2. ASSUME NEW v \in ThreadId, Processes(s, v)
        PROVE  Carries(s, v) \/ Finishes(s, v)
    BY <1>1, <1>2, BookTypes DEF Processes, Carries, Finishes, Thread, Shape, Shaped
  <1>3. \A v \in ThreadId : Carries(s, v) => Front(s, "thr", v) /\ v \in Spot /\ "thr" \in Form
    BY DEF Front, Spot, Form
  <1>4. ASSUME NEW v \in ThreadId, NEW x \in ThreadId, Carries(s, v), Finishes(s, x)
        PROVE  FALSE
    <2>1. Precedes(s, s)
      BY <1>3, <1>4 DEF WayInv, FinishBehind, Behind
    <2> QED BY <1>1, <2>1, PrecedesOrder
  <1>5. CASE Carries(s, t) /\ Carries(s, w)
    BY <1>3, <1>5 DEF WayInv, OneRequest
  <1>6. CASE Finishes(s, t) /\ Finishes(s, w)
    BY <1>6 DEF WayInv, FinishBehind
  <1> QED BY <1>2, <1>4, <1>5, <1>6

\* Books that are not touched, whatever the threads of the server hear.
LEMMA BooksStay ==
  ASSUME ChainInv, NEW u \in Server, BooksOf(u),
         args'[u] = args[u], sent'[u] = sent[u], proc'[u] = proc[u],
         applied'[u] = applied[u],
         \A w \in ThreadId :
            \/ thr'[u][w] = thr[u][w]
            \/ /\ thr[u][w].pc \in {"add", "wait"}
               /\ \/ thr'[u][w] = WithAck(thr[u][w], "eof")
                  \/ /\ thr'[u][w] = WithAck(thr[u][w], "acked")
                     /\ thr[u][w].pc = "wait" => Stored(u, Args(u, w).req)
  PROVE  BooksOf(u)'
  <1>1. ASSUME NEW w \in ThreadId
        PROVE  /\ thr'[u][w].pc = thr[u][w].pc /\ thr'[u][w].role = thr[u][w].role
               /\ thr'[u][w].chan = thr[u][w].chan /\ thr'[u][w].req = thr[u][w].req
               /\ thr'[u][w].hist = thr[u][w].hist
    <2>1. thr[u][w] \in Thread
      BY BookTypes
    <2>2. CASE thr'[u][w] = thr[u][w]
      BY <2>2
    <2>3. CASE thr'[u][w] = WithAck(thr[u][w], "eof")
      BY <2>1, <2>3, WithAckFields
    <2>4. CASE thr'[u][w] = WithAck(thr[u][w], "acked")
      BY <2>1, <2>4, WithAckFields
    <2> QED BY <2>2, <2>3, <2>4
  <1>2. ASSUME NEW w \in ThreadId
        PROVE  /\ Processes(u, w)' <=> Processes(u, w)
               /\ Finishes(u, w)' <=> Finishes(u, w)
               /\ Opened(u, w)' <=> Opened(u, w)
               /\ Args(u, w)' = Args(u, w)
    BY <1>1 DEF Processes, Finishes, Opened, Args
  <1>3. ASSUME NEW r
        PROVE  Stored(u, r)' <=> Stored(u, r)
    BY DEF Stored
  <1>4. ASSUME NEW w \in ThreadId
        PROVE  Prepared(u, w)'
    BY <1>1, <1>2 DEF BooksOf, Prepared
  <1>5. ASSUME NEW w \in ThreadId
        PROVE  Grounded(u, w)'
    <2>1. thr'[u][w].pc = "wait" /\ thr'[u][w].ack = "acked" => Stored(u, Args(u, w).req)
      <3>1. thr[u][w] \in Thread
        BY BookTypes
      <3>2. CASE thr'[u][w] = thr[u][w]
        BY <3>2 DEF BooksOf, Grounded
      <3>3. CASE thr'[u][w] = WithAck(thr[u][w], "eof")
        BY <3>1, <3>3, WithAckFields
      <3>4. CASE thr[u][w].pc = "wait" => Stored(u, Args(u, w).req)
        BY <1>1, <3>4
      <3> QED BY <3>2, <3>3, <3>4
    <2>2. thr'[u][w].pc = "wait" /\ thr'[u][w].ack = "acked" => Stored(u, Args(u, w).req)'
      BY <1>2, <1>3, <2>1 DEF Stored
    <2>3. Finishes(u, w)' => Stored(u, thr[u][w].req)'
      BY <1>1, <1>2, <1>3 DEF BooksOf, Grounded, Stored
    <2> QED BY <2>2, <2>3 DEF Grounded
  <1>6. Balanced(u)'
    BY <1>1, <1>2 DEF BooksOf, Balanced
  <1> QED BY <1>4, <1>5, <1>6 DEF BooksOf

\* A server without threads that process.
LEMMA BooksRest ==
  ASSUME NEW u \in Server, Balanced(u)',
         \A w \in ThreadId :
            /\ ~Processes(u, w)' /\ ~Finishes(u, w)'
            /\ ~(thr'[u][w].pc = "wait" /\ thr'[u][w].ack = "acked")
  PROVE  BooksOf(u)'
  BY DEF BooksOf, Prepared, Grounded

\* A request that is new to the history has not changed a balance, if no thread
\* is in between.
LEMMA NewUnapplied ==
  ASSUME ChainInv, NEW s \in Server, Balanced(s), NEW r \in Request,
         CheckHist(r, proc[s]) = "New",
         \A t \in ThreadId : ~(Opened(s, t) /\ thr[s][t].req.id = r.id)
  PROVE  applied[s][r.id] = 0 /\ r.id \in Id /\ r.id \notin IdsOf(proc[s])
  <1>1. r.id \in Id
    BY DEF Request
  <1>2. r.id \notin IdsOf(proc[s])
    BY DEF CheckHist
  <1> QED BY <1>1, <1>2 DEF Balanced

\* The balance and the history are as they were, and so are those in between.
LEMMA BalancedStays ==
  ASSUME NEW s \in Server, Balanced(s),
         applied'[s] = applied[s], proc'[s] = proc[s],
         \A w \in ThreadId :
            /\ Opened(s, w)' <=> Opened(s, w)
            /\ Opened(s, w) => thr'[s][w].req = thr[s][w].req
  PROVE  Balanced(s)'
  BY DEF Balanced

\* A request becomes history, and with it whoever was in between.
LEMMA BalancedHist ==
  ASSUME NEW s \in Server, Balanced(s), NEW r \in Request, NEW S,
         applied'[s] = applied[s], proc'[s] = AckProc(r, S, proc[s]),
         \A w \in ThreadId : ~Opened(s, w)',
         \A w \in ThreadId : Opened(s, w) =>
            thr[s][w].req = r /\ CheckHist(r, proc[s]) = "New" /\ \E q \in S : Same(q, r),
         r.type = "Deposit" /\ CheckHist(r, proc[s]) = "New" => applied[s][r.id] = 1
  PROVE  Balanced(s)'
  <1>1. proc[s] \subseteq proc'[s] /\ proc'[s] \subseteq proc[s] \cup {r}
    BY DEF AckProc
  <1>2. r \in proc'[s] => r \in proc[s] \/ CheckHist(r, proc[s]) = "New"
    BY DEF AckProc
  <1>3. ASSUME NEW w \in ThreadId, Opened(s, w)
        PROVE  r \in proc'[s]
    BY <1>3 DEF Opened, IsUpdate, AckProc
  <1>4. ASSUME NEW i \in Id, applied'[s][i] # 0
        PROVE  applied'[s][i] = 1 /\ i \in IdsOf(proc'[s])
    <2>1. CASE i \in IdsOf(proc[s])
      BY <1>1, <1>4, <2>1 DEF Balanced, IdsOf
    <2>2. CASE \E w \in ThreadId : Opened(s, w) /\ thr[s][w].req.id = i
      BY <1>3, <1>4, <2>2 DEF Balanced, IdsOf
    <2> QED BY <1>4, <2>1, <2>2 DEF Balanced
  <1>5. ASSUME NEW q \in proc'[s], q.type = "Deposit"
        PROVE  applied'[s][q.id] = 1
    BY <1>1, <1>2, <1>5 DEF Balanced
  <1> QED BY <1>4, <1>5 DEF Balanced

\* The end of a server: its books are empty, and those of the others the same.
LEMMA BooksDies ==
  ASSUME WayInv, BooksInv, NEW s \in Server, Dies(s)
  PROVE  BooksInv'
  <1> SUFFICES ASSUME NEW u \in Server
               PROVE  BooksOf(u)'
    BY DEF BooksInv
  <1>1. ChainInv /\ Shape /\ BooksOf(u) /\ Down(s)
    BY DEF WayInv, OrderInv, BooksInv, Dies
  <1>2. CASE u # s
    <2>1. /\ args'[u] = args[u] /\ sent'[u] = sent[u] /\ proc'[u] = proc[u]
          /\ applied'[u] = applied[u]
      BY <1>1, <1>2, BookTypes DEF Down
    <2>2. ASSUME NEW w \in ThreadId
          PROVE  \/ thr'[u][w] = thr[u][w]
                 \/ /\ thr[u][w].pc \in {"add", "wait"}
                    /\ thr'[u][w] = WithAck(thr[u][w], "eof")
      BY <1>1, <1>2, DownThread, AckShape
    <2> QED BY <1>1, <2>1, <2>2, BooksStay
  <1>3. CASE u = s
    <2>1. \A w \in ThreadId : thr'[s][w].pc = "idle"
      BY <1>1, DownThread, IdleFields
    <2>2. applied'[s] = NeverApplied /\ proc'[s] = {}
      BY <1>1, BookTypes DEF Down
    <2>3. Balanced(s)'
      BY <2>1, <2>2 DEF Balanced, NeverApplied, Opened
    <2>4. \A w \in ThreadId :
            /\ ~Processes(s, w)' /\ ~Finishes(s, w)'
            /\ ~(thr'[s][w].pc = "wait" /\ thr'[s][w].ack = "acked")
      BY <2>1 DEF Processes, Finishes
    <2> QED BY <1>3, <2>3, <2>4, BooksRest
  <1> QED BY <1>2, <1>3

\* When a server takes a message none of its threads processes, nor will.
LEMMA WorksResting ==
  ASSUME ChainInv, PromptThreads, NEW s \in Server, Works(s), NEW w \in ThreadId
  PROVE  /\ ~Opened(s, w)
         /\ ~Processes(s, w)' /\ ~Finishes(s, w)' /\ ~Opened(s, w)'
         /\ ~(thr'[s][w].pc = "wait" /\ thr'[s][w].ack = "acked")
  <1>1. /\ thr[s][w].pc \in {"idle", "wait"}
        /\ thr[s][w].pc = "wait" => thr[s][w].ack = "none"
    BY WorksUp DEF Works, Busy, Runnable
  <1>2. thr'[s][w] = thr[s][w] \/ thr'[s][w].pc \in {"start", "connect"}
    <2>1. CASE RecvRequest(s) \/ AcceptRequest(s)
      <3>1. PICK c \in Chan : Spawn(s, c)
        BY <2>1 DEF RecvRequest, AcceptRequest, Chan
      <3> QED BY <3>1, SpawnThread
    <2>2. CASE ~RecvRequest(s) /\ ~AcceptRequest(s)
      BY <2>2 DEF Works, MainLoop, Synchronize, RecvNotification, DropRequest,
              ExpireOnRequest, ExpireOnAccept, AcceptSyncSent, AcceptSyncProc,
              AcceptSyncSentNoNext, SyncSentTrans, SyncSentEnd, SyncProcTrans, SyncDone
    <2> QED BY <2>1, <2>2
  <1> QED BY <1>1, <1>2 DEF Processes, Finishes, Opened

\* A synchronized request of the history is processed and added at once.
LEMMA SyncedBalanced ==
  ASSUME ChainInv, PromptThreads, NEW s \in Server, Works(s), AcceptSyncProc(s), Balanced(s)
  PROVE  Balanced(s)'
  <1>1. \A w \in ThreadId : ~Opened(s, w) /\ ~Opened(s, w)'
    BY WorksResting
  <1>2. PICK r \in Request : r = Parse(Head(tcp[s]).msg)
    BY HeadPacketType, ParseType, BankInvNow DEF AcceptSyncProc, Accepts, ChainInv
  <1>3. PICK S \in SUBSET Request : S = AddsentTrans(r, sent[s])
    BY BookTypes DEF AddsentTrans
  <1>4. proc'[s] = AckProc(r, S, proc[s])
    BY <1>2, <1>3, BookTypes DEF AcceptSyncProc
  <1>5. CASE Applies(r, CheckHist(r, proc[s]), acct[s][r.acct])
    <2>1. CheckHist(r, proc[s]) = "New" /\ r.type # "Query"
      BY <1>5 DEF Applies
    <2>2. applied[s][r.id] = 0 /\ r.id \in Id /\ r.id \notin IdsOf(proc[s])
      BY <1>1, <2>1, NewUnapplied
    <2>3. \A i \in Id : applied'[s][i] = IF i = r.id THEN 1 ELSE applied[s][i]
      BY <1>2, <1>5, <2>2, BookTypes DEF AcceptSyncProc, Credit
    <2>4. proc'[s] = proc[s] \cup {r}
      BY <1>3, <1>4, <2>1 DEF AckProc, AddsentTrans, Same
    <2>5. \A q \in proc[s] : q.id \in Id /\ q.id # r.id
      BY <2>2, BookTypes DEF IdsOf, Request
    <2> QED BY <1>1, <2>2, <2>3, <2>4, <2>5 DEF Balanced, IdsOf
  <1>6. CASE ~Applies(r, CheckHist(r, proc[s]), acct[s][r.acct])
    <2>1. applied'[s] = applied[s]
      BY <1>2, <1>6 DEF AcceptSyncProc
    <2>2. ~(r.type = "Deposit" /\ CheckHist(r, proc[s]) = "New")
      BY <1>6 DEF Applies
    <2> QED BY <1>1, <1>4, <2>1, <2>2, BalancedHist
  <1> QED BY <1>5, <1>6

\* Main.
LEMMA BooksWorks ==
  ASSUME WayInv, BooksInv, PromptThreads, NEW s \in Server, Works(s)
  PROVE  BooksInv'
  <1> SUFFICES ASSUME NEW u \in Server
               PROVE  BooksOf(u)'
    BY DEF BooksInv
  <1>1. ChainInv /\ BooksOf(u)
    BY DEF WayInv, OrderInv, BooksInv
  <1>2. CASE u # s
    <2>1. /\ args'[u] = args[u] /\ sent'[u] = sent[u] /\ proc'[u] = proc[u]
          /\ applied'[u] = applied[u] /\ thr'[u] = thr[u]
      BY <1>1, <1>2, WorksElsewhere
    <2> QED BY <1>1, <2>1, BooksStay
  <1>3. CASE u = s
    <2>1. Balanced(s)
      BY <1>1, <1>3 DEF BooksOf
    <2>2. CASE AcceptSyncProc(s)
      BY <1>1, <1>3, <2>1, <2>2, SyncedBalanced, WorksResting, BooksRest
    <2>3. CASE ~AcceptSyncProc(s)
      <3>1. proc'[s] = proc[s] /\ applied'[s] = applied[s]
        BY <2>3 DEF Works, MainLoop, Synchronize, RecvNotification, DropRequest,
                RecvRequest, ExpireOnRequest, AcceptRequest, ExpireOnAccept,
                AcceptSyncSent, AcceptSyncSentNoNext, SyncSentTrans, SyncSentEnd, SyncProcTrans,
                SyncDone, books
      <3>2. Balanced(s)'
        BY <1>1, <2>1, <3>1, WorksResting, BalancedStays
      <3> QED BY <1>1, <1>3, <3>2, WorksResting, BooksRest
    <2> QED BY <2>2, <2>3
  <1> QED BY <1>2, <1>3

\* What a thread leaves to the other threads of its server.
LEMMA RunsBeside ==
  ASSUME WayInv, [Next]_vars, NEW s \in Server, BooksOf(s),
         NEW t \in ThreadId, Runs(s, t), NEW w \in ThreadId, w # t
  PROVE  /\ Prepared(s, w)' /\ Grounded(s, w)'
         /\ Opened(s, w)' <=> Opened(s, w)
         /\ thr'[s][w].req = thr[s][w].req
         /\ Processes(s, t) => ~Opened(s, w)
  <1>1. ChainInv /\ Downward
    BY DEF WayInv, OrderInv
  <1>2. thr'[s][w] = thr[s][w] /\ up'[s] /\ args' = args
    BY <1>1, RunsSelf, RunsUp
  <1>3. PICK r : r = Args(s, w).req
    OBVIOUS
  <1>4. Args(s, w)'.req = r
    BY <1>2, <1>3 DEF Args
  <1>5. /\ Processes(s, w)' <=> Processes(s, w)
        /\ Finishes(s, w)' <=> Finishes(s, w)
        /\ Opened(s, w)' <=> Opened(s, w)
    BY <1>2 DEF Processes, Finishes, Opened
  <1>6. Processes(s, t) => ~Processes(s, w)
    BY AloneProcesses
  <1>7. Prepared(s, w)'
    <2>1. CASE Processes(s, t)
      BY <1>5, <1>6, <2>1 DEF Prepared
    <2>2. CASE ~Processes(s, t)
      <3>1. proc'[s] = proc[s]
        BY <2>2 DEF Runs, ThreadStep, SyncConnect, SyncNullNext, SyncAdd, SyncEof,
                SyncAcked, SyncHist, ReplyStart, ProcCheck, ProcApply, ReplySend,
                ReplyNowhere, ReplyHist, ReplyAck, books, Processes, At
      <3>2. Prepared(s, w)
        BY DEF BooksOf
      <3> QED BY <1>2, <1>3, <1>4, <1>5, <3>1, <3>2 DEF Prepared
    <2> QED BY <2>1, <2>2
  <1>8. Grounded(s, w)'
    <2>1. Grounded(s, w)
      BY DEF BooksOf
    <2>2. thr[s][w].pc = "wait" /\ thr[s][w].ack = "acked" => Stored(s, r)'
      BY <1>1, <1>2, <1>3, <2>1, StoredKept DEF Grounded, WayInv, OrderInv
    <2>3. Finishes(s, w) => Stored(s, thr[s][w].req)'
      <3>1. PICK q : q = thr[s][w].req
        OBVIOUS
      <3>2. Finishes(s, w) => Stored(s, q)'
        BY <1>1, <1>2, <2>1, <3>1, StoredKept DEF Grounded, WayInv, OrderInv
      <3> QED BY <1>2, <3>1, <3>2 DEF Stored
    <2> QED BY <1>2, <1>4, <1>5, <2>2, <2>3 DEF Grounded, Stored
  <1>9. Processes(s, t) => ~Opened(s, w)
    BY <1>6 DEF Processes, Opened
  <1> QED BY <1>2, <1>5, <1>7, <1>8, <1>9

\* The books of the server whose thread does nothing to them.
LEMMA BooksIdle ==
  ASSUME WayInv, [Next]_vars, NEW s \in Server, BooksOf(s),
         NEW t \in ThreadId, Runs(s, t),
         applied'[s] = applied[s], proc'[s] = proc[s],
         Opened(s, t)' <=> Opened(s, t),
         Opened(s, t) => thr'[s][t].req = thr[s][t].req
  PROVE  Balanced(s)'
  BY RunsBeside, BalancedStays DEF BooksOf

\* Up to the balance: a thread of Sync or Reply before it processes.
LEMMA BooksBefore ==
  ASSUME WayInv, [Next]_vars, NEW s \in Server, BooksOf(s),
         NEW t \in ThreadId, Runs(s, t),
         \/ SyncConnect(s, t) \/ SyncAdd(s, t) \/ SyncEof(s, t) \/ SyncAcked(s, t)
         \/ ReplyStart(s, t) \/ ReplyAck(s, t)
  PROVE  Prepared(s, t)' /\ Grounded(s, t)' /\ Balanced(s)'
  <1>1. ChainInv /\ Downward /\ Shaped(thr[s][t])
    BY DEF WayInv, OrderInv, Shape
  <1>2. up[s] /\ args' = args
    BY RunsUp
  <1>3. applied'[s] = applied[s] /\ proc'[s] = proc[s]
    BY DEF SyncConnect, SyncAdd, SyncEof, SyncAcked, ReplyStart, ReplyAck, books
  <1>4. PICK r \in Request : r = Args(s, t).req
    BY <1>1, <1>2, BackOther
  <1>5. thr'[s][t].chan = thr[s][t].chan => Args(s, t)'.req = r
    BY <1>2, <1>4 DEF Args
  <1>6. ~Opened(s, t) /\ ~Opened(s, t)'
    BY <1>1, RunsThread, IdleFields DEF Opened, Moved, At, SyncConnect, SyncAdd, SyncEof,
       SyncAcked, ReplyStart, ReplyAck
  <1>7. Balanced(s)'
    BY <1>3, <1>6, BooksIdle
  <1>8. CASE thr'[s][t] = Idle \/ SyncConnect(s, t)
    BY <1>1, <1>7, <1>8, RunsThread, IdleFields
       DEF Prepared, Grounded, Processes, Finishes
  <1>9. CASE SyncAdd(s, t)
    <2>1. thr'[s][t].pc = "wait" /\ thr'[s][t].chan = thr[s][t].chan
      BY <1>1, <1>9, RunsThread DEF Moved
    <2>2. sent'[s] = AddsentTrans(r, sent[s])
      BY <1>1, <1>4, <1>9, BookTypes DEF SyncAdd
    <2>3. Stored(s, r)'
      BY <2>2 DEF Stored, AddsentTrans, Same
    <2> QED BY <1>5, <1>7, <2>1, <2>3
            DEF Prepared, Grounded, Processes, Finishes, Stored
  <1>10. CASE SyncAcked(s, t)
    <2>1. /\ thr[s][t].pc = "wait" /\ thr[s][t].ack = "acked"
          /\ thr'[s][t].pc = "check" /\ thr'[s][t].chan = thr[s][t].chan
          /\ thr'[s][t].req = r
      BY <1>1, <1>4, <1>10, RunsThread
    <2>2. Stored(s, r)
      BY <1>4, <2>1 DEF BooksOf, Grounded
    <2>3. Stored(s, r)'
      BY <1>10, <2>2 DEF SyncAcked, books, Stored
    <2> QED BY <1>5, <1>7, <2>1, <2>3
            DEF Prepared, Grounded, Processes, Finishes, Stored
  <1>11. CASE ReplyStart(s, t)
    <2>1. /\ thr[s][t].pc = "start" /\ thr'[s][t].pc = "check"
          /\ thr'[s][t].chan = thr[s][t].chan /\ thr'[s][t].role = thr[s][t].role
          /\ thr'[s][t].req = r
      BY <1>1, <1>4, <1>11, RunsThread DEF Moved
    <2>2. thr'[s][t].role = "Reply"
      BY <1>1, <2>1 DEF Shaped
    <2> QED BY <1>5, <1>7, <2>1, <2>2 DEF Prepared, Grounded, Processes, Finishes
  <1> QED BY <1>1, <1>8, <1>9, <1>10, <1>11, RunsThread

\* ProcReq: a request that the history does not know is applied once.
LEMMA BooksProcess ==
  ASSUME WayInv, [Next]_vars, NEW s \in Server, BooksOf(s),
         NEW t \in ThreadId, Runs(s, t),
         ProcCheck(s, t) \/ ProcApply(s, t) \/ ReplySend(s, t)
  PROVE  Prepared(s, t)' /\ Grounded(s, t)' /\ Balanced(s)'
  <1>1. ChainInv /\ Downward /\ Shaped(thr[s][t])
    BY DEF WayInv, OrderInv, Shape
  <1>2. up[s] /\ args' = args
    BY RunsUp
  <1>3. sent'[s] = sent[s] /\ proc'[s] = proc[s]
    BY DEF ProcCheck, ProcApply, ReplySend, books
  <1>4. PICK r \in Request : r = thr[s][t].req
    BY <1>1, BookTypes DEF Thread
  <1>5. /\ thr[s][t].pc \in {"check", "apply", "send"}
        /\ thr'[s][t].pc \in {"apply", "send", "hist"}
        /\ thr'[s][t].req = r /\ thr'[s][t].role = thr[s][t].role
        /\ thr'[s][t].chan = thr[s][t].chan
    BY <1>1, <1>4, RunsThread DEF Moved
  <1>6. Processes(s, t) /\ Processes(s, t)'
    BY <1>5 DEF Processes
  <1>7. thr'[s][t].hist = CheckHist(r, proc[s])
    BY <1>1, <1>4, <1>5, <1>6, RunsThread DEF BooksOf, Prepared, Moved
  <1>8. Args(s, t).req = r /\ Args(s, t)'.req = r
    BY <1>2, <1>4, <1>5, <1>6 DEF BooksOf, Prepared, Args
  <1>9. Prepared(s, t)'
    BY <1>3, <1>5, <1>7, <1>8 DEF Prepared
  <1>10. Grounded(s, t)'
    <2>1. Finishes(s, t)' => Finishes(s, t)
      BY <1>1, <1>5 DEF Finishes, Shaped
    <2>2. Finishes(s, t) => Stored(s, r)
      BY <1>4 DEF BooksOf, Grounded
    <2> QED BY <1>3, <1>5, <2>1, <2>2 DEF Grounded, Stored
  <1>11. Balanced(s)'
    <2>1. CASE ProcCheck(s, t)
      <3>1. applied'[s] = applied[s] /\ ~Opened(s, t) /\ ~Opened(s, t)'
        BY <1>1, <2>1, RunsThread DEF ProcCheck, books, Opened, Moved
      <3> QED BY <1>3, <3>1, BooksIdle
    <2>2. CASE ReplySend(s, t)
      <3>1. /\ applied'[s] = applied[s]
            /\ thr[s][t].pc = "send" /\ thr'[s][t].pc = "hist"
            /\ thr'[s][t].hist = thr[s][t].hist
        BY <1>1, <2>2, RunsThread DEF ReplySend, books, Moved
      <3>2. Opened(s, t)' <=> Opened(s, t)
        BY <1>4, <1>5, <3>1 DEF Opened
      <3> QED BY <1>3, <1>4, <1>5, <3>1, <3>2, BooksIdle
    <2>3. CASE ProcApply(s, t)
      <3>1. /\ thr[s][t].pc = "apply" /\ thr[s][t].hist = CheckHist(r, proc[s])
            /\ thr'[s][t].pc \in {"send", "hist"}
        BY <1>1, <1>7, <2>3, RunsThread DEF Moved
      <3>2. \A w \in ThreadId : ~Opened(s, w) /\ (w # t => ~Opened(s, w)')
        BY <1>6, <3>1, RunsBeside DEF Opened
      <3>3. Balanced(s)
        BY DEF BooksOf
      <3>4. CASE Applies(r, thr[s][t].hist, thr[s][t].bal)
        <4>1. CheckHist(r, proc[s]) = "New" /\ IsUpdate(r)
          BY <3>1, <3>4 DEF Applies, IsUpdate
        <4>2. applied[s][r.id] = 0 /\ r.id \in Id /\ r.id \notin IdsOf(proc[s])
          BY <1>1, <3>2, <3>3, <4>1, NewUnapplied
        <4>3. \A i \in Id : applied'[s][i] = IF i = r.id THEN 1 ELSE applied[s][i]
          <5>1. applied' = [applied EXCEPT ![s][r.id] = @ + 1]
            BY <1>4, <2>3, <3>4 DEF ProcApply, Credit
          <5> QED BY <1>1, <4>2, <5>1, BookTypes
        <4>4. Opened(s, t)' /\ thr'[s][t].req.id = r.id
          BY <1>5, <1>7, <3>1, <4>1 DEF Opened
        <4>5. \A q \in proc[s] : q.id \in Id /\ q.id # r.id
          BY <1>1, <4>2, BookTypes DEF IdsOf, Request
        <4> QED BY <1>3, <3>2, <3>3, <4>2, <4>3, <4>4, <4>5 DEF Balanced
      <3>5. CASE ~Applies(r, thr[s][t].hist, thr[s][t].bal)
        <4>1. applied'[s] = applied[s]
          BY <1>4, <2>3, <3>5 DEF ProcApply
        <4>2. Opened(s, t)' => thr'[s][t].req.type # "Deposit"
          BY <1>5, <1>7, <3>1, <3>5 DEF Opened, Applies
        <4> QED BY <1>3, <3>2, <3>3, <4>1, <4>2 DEF Balanced
      <3> QED BY <3>4, <3>5
    <2> QED BY <2>1, <2>2, <2>3
  <1> QED BY <1>9, <1>10, <1>11

\* AckHist: what has been applied becomes history.
LEMMA BooksHist ==
  ASSUME WayInv, [Next]_vars, NEW s \in Server, BooksOf(s),
         NEW t \in ThreadId, Runs(s, t), ReplyHist(s, t) \/ SyncHist(s, t)
  PROVE  Prepared(s, t)' /\ Grounded(s, t)' /\ Balanced(s)'
  <1>1. ChainInv /\ Downward
    BY DEF WayInv, OrderInv
  <1>2. up[s] /\ thr[s][t].pc = "hist" /\ applied'[s] = applied[s]
    BY DEF ReplyHist, SyncHist, At
  <1>3. thr'[s][t].pc \in {"ack", "idle"}
    BY <1>1, RunsThread, IdleFields DEF Moved
  <1>4. PICK r \in Request : r = Args(s, t).req
    BY <1>1, <1>2, BackOther
  <1>5. Processes(s, t) /\ thr[s][t].req = r /\ thr[s][t].hist = CheckHist(r, proc[s])
    BY <1>2, <1>4 DEF BooksOf, Prepared, Processes
  <1>6. \A w \in ThreadId : ~Opened(s, w)'
    BY <1>3, <1>5, RunsBeside DEF Opened
  <1>7. \A w \in ThreadId : Opened(s, w) => w = t
    BY <1>5, RunsBeside
  <1>8. Balanced(s)
    BY DEF BooksOf
  <1>9. r.type = "Deposit" /\ CheckHist(r, proc[s]) = "New" => applied[s][r.id] = 1
    BY <1>2, <1>5, <1>8 DEF Balanced, Opened, IsUpdate
  <1>10. PICK S : /\ proc'[s] = AckProc(r, S, proc[s])
                  /\ Opened(s, t) => \E q \in S : Same(q, r)
    <2>1. CASE ReplyHist(s, t)
      <3>1. proc'[s] = AckProc(r, AddsentTrans(r, sent[s]), proc[s])
        BY <1>1, <1>4, <2>1, BookTypes DEF ReplyHist
      <3>2. Opened(s, t) => \E q \in AddsentTrans(r, sent[s]) : Same(q, r)
        BY <1>5 DEF Opened, IsUpdate, AddsentTrans, Same
      <3> QED BY <3>1, <3>2
    <2>2. CASE SyncHist(s, t)
      <3>1. proc'[s] = AckProc(r, sent[s], proc[s])
        BY <1>1, <1>4, <2>2, BookTypes DEF SyncHist
      <3>2. Stored(s, r)
        BY <1>2, <1>5, <2>2 DEF BooksOf, Grounded, Finishes, SyncHist
      <3>3. Opened(s, t) => \E q \in sent[s] : Same(q, r)
        BY <1>5, <3>2 DEF Opened, IsUpdate, Stored, CheckHist
      <3> QED BY <3>1, <3>3
    <2> QED BY <2>1, <2>2
  <1>11. Balanced(s)'
    BY <1>2, <1>5, <1>6, <1>7, <1>8, <1>9, <1>10, BalancedHist DEF Opened
  <1> QED BY <1>3, <1>11 DEF Prepared, Grounded, Processes, Finishes

\* The threads.
LEMMA BooksRuns ==
  ASSUME WayInv, BooksInv, [Next]_vars, NEW s \in Server, NEW t \in ThreadId, Runs(s, t)
  PROVE  BooksInv'
  <1> SUFFICES ASSUME NEW u \in Server
               PROVE  BooksOf(u)'
    BY DEF BooksInv
  <1>1. ChainInv /\ BooksOf(u) /\ args' = args
    BY RunsUp DEF WayInv, OrderInv, BooksInv
  <1>2. CASE u # s
    <2>1. sent'[u] = sent[u] /\ proc'[u] = proc[u] /\ applied'[u] = applied[u]
      BY <1>1, <1>2, RunsElsewhere
    <2>2. PICK C \in SUBSET Conn : Await(C)
      BY DEF WayInv, Awaited
    <2>3. ASSUME NEW w \in ThreadId
          PROVE  \/ thr'[u][w] = thr[u][w]
                 \/ /\ thr[u][w].pc \in {"add", "wait"}
                    /\ thr'[u][w] = WithAck(thr[u][w], "acked")
                    /\ thr[u][w].pc = "wait" => Stored(u, Args(u, w).req)
      <3>1. CASE SyncAcked(s, t) \/ ReplyAck(s, t)
        BY <1>2, <2>2, <3>1, AckReaches DEF Waiting
      <3>2. CASE ~SyncAcked(s, t) /\ ~ReplyAck(s, t)
        BY <1>1, <1>2, <3>2, RunsAlone
      <3> QED BY <3>1, <3>2
    <2> QED BY <1>1, <2>1, <2>3, BooksStay
  <1>3. CASE u = s
    <2>1. \/ SyncConnect(s, t) \/ SyncAdd(s, t) \/ SyncEof(s, t) \/ SyncAcked(s, t)
          \/ ReplyStart(s, t) \/ ReplyAck(s, t)
          \/ ProcCheck(s, t) \/ ProcApply(s, t) \/ ReplySend(s, t)
          \/ ReplyHist(s, t) \/ SyncHist(s, t)
      BY DEF Runs, ThreadStep, SyncNullNext, ReplyNowhere
    <2>2. BooksOf(s)
      BY <1>1, <1>3
    <2>3. Prepared(s, t)' /\ Grounded(s, t)' /\ Balanced(s)'
      BY <2>1, <2>2, BooksBefore, BooksProcess, BooksHist
    <2>4. ASSUME NEW w \in ThreadId
          PROVE  Prepared(s, w)' /\ Grounded(s, w)'
      <3>1. CASE w = t
        BY <2>3, <3>1
      <3>2. CASE w # t
        BY <2>2, <3>2, RunsBeside
      <3> QED BY <3>1, <3>2
    <2>5. BooksOf(s)'
      BY <2>3, <2>4 DEF BooksOf
    <2> QED BY <1>3, <2>5
  <1> QED BY <1>2, <1>3

\* Every step.
LEMMA BookNext == Timing /\ BookInv /\ [Next]_vars => BookInv'
  <1> SUFFICES ASSUME Timing, WayInv, BooksInv, [Next]_vars
               PROVE  BooksInv'
    BY WayNext DEF BookInv
  <1>1. CASE \E s \in Server : Dies(s)
    BY <1>1, BooksDies
  <1>2. CASE \E s \in Server : Works(s)
    BY <1>2, BooksWorks DEF Timing
  <1>3. CASE \E s \in Server, t \in ThreadId : Runs(s, t)
    BY <1>3, BooksRuns
  <1>4. CASE \/ \E s \in Server : BankStart(s)
             \/ BankTimer \/ BankReceive \/ BankMaster \/ UNCHANGED vars
    <2>1. ChainInv
      BY DEF WayInv, OrderInv
    <2>2. UNCHANGED serverVars
      BY <1>4, <2>1, ClientsElsewhere, MasterElsewhere DEF BankStart, vars
    <2>3. ASSUME NEW u \in Server
          PROVE  BooksOf(u)'
      <3>1. BooksOf(u)
        BY DEF BooksInv
      <3>2. /\ args' = args /\ sent' = sent /\ proc' = proc /\ applied' = applied
            /\ thr' = thr
        BY <2>2 DEF serverVars, books
      <3> QED BY <2>1, <3>1, <3>2, BooksStay
    <2> QED BY <2>3 DEF BooksInv
  <1> QED BY <1>1, <1>2, <1>3, <1>4, StepKinds DEF WayInv, OrderInv

\* The books are empty at the beginning.
LEMMA BookInit == Timing /\ Init => BookInv
  <1> SUFFICES ASSUME Timing, Init
               PROVE  BookInv
    OBVIOUS
  <1>1. WayInv
    BY WayInit DEF Timing
  <1>2. ASSUME NEW s \in Server
        PROVE  BooksOf(s)
    <2>1. \A t \in ThreadId : thr[s][t] = Idle
      BY DEF Init, ServerInit
    <2>2. applied[s] = NeverApplied /\ proc[s] = {}
      BY DEF Init, ServerInit
    <2>3. Balanced(s)
      BY <2>1, <2>2, IdleFields DEF Balanced, NeverApplied, Opened
    <2>4. ASSUME NEW t \in ThreadId
          PROVE  Prepared(s, t) /\ Grounded(s, t)
      BY <2>1, IdleFields DEF Prepared, Grounded, Processes, Finishes
    <2> QED BY <2>3, <2>4 DEF BooksOf
  <1> QED BY <1>1, <1>2 DEF BookInv, BooksInv

\* A server without a thread that could go on has no request in between.
LEMMA BookImplies == BookInv => Booked
  <1> SUFFICES ASSUME BookInv, NEW s \in Server, ~Busy(s)
               PROVE  /\ \A i \in Id : applied[s][i] # 0 =>
                            applied[s][i] = 1 /\ i \in IdsOf(proc[s])
                      /\ \A r \in proc[s] : r.type = "Deposit" => applied[s][r.id] = 1
    BY DEF Booked
  <1>1. Balanced(s) /\ Silent
    BY DEF BookInv, BooksInv, BooksOf, WayInv, OrderInv
  <1>2. CASE up[s]
    <2>1. \A t \in ThreadId : ~Opened(s, t)
      BY <1>2 DEF Busy, Runnable, Opened
    <2> QED BY <1>1, <2>1 DEF Balanced
  <1>3. CASE ~up[s]
    <2>1. applied[s] = NeverApplied /\ proc[s] = {}
      BY <1>1, <1>3 DEF Silent, Blank
    <2> QED BY <2>1 DEF NeverApplied
  <1> QED BY <1>2, <1>3

\* Balance and history of every server tell the same story whenever none of its
\* threads is between the two, although a thread reads main's ARGS again at each
\* use, for any number of servers, clients, threads and requests, whatever is
\* lost, killed or joins: a request has changed the balance of a server once at
\* most and is then in its history, and a deposit in the history has changed the
\* balance (ProcReq, AddsentTrans, AckHist). Timing is needed: if a client does
\* not wait until nothing is under way, two acknowledgements of a request may
\* meet at a server; if main does not wait for a thread, the thread may book
\* another request than it processed; if threads of the master overlap, the links
\* of the servers need not follow the chain.
THEOREM BookedOnce ==
  ASSUME Timing
  PROVE  Spec => []Booked
  <1>1. Init => BookInv
    BY BookInit
  <1>2. BookInv /\ [Next]_vars => BookInv'
    BY BookNext
  <1> QED BY <1>1, <1>2, BookImplies, PTL DEF Spec
=============================================================================
