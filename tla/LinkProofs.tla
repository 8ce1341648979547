----------------------------- MODULE LinkProofs ------------------------------
(***************************************************************************)
(* Every server forwards to its successor in the master's chain, for any   *)
(* number of servers, clients, threads and requests, however the threads   *)
(* of the servers and the clients overlap, as long as those of the master  *)
(* do not and the delayed servers come last in the configuration file.     *)
(***************************************************************************)
EXTENDS BankChainProofs

\* The delayed servers come last, as the programs take for granted: a server
\* before one with a delay starts without a next (server.cpp, main).
DelayedLast ==
    \E n \in 0..Len(Lines) :
        /\ Configured = SubSeq(Lines, 1, n)
        /\ \A i \in (n + 1)..Len(Lines) : Lines[i] \in Spare

IsNoti(m) == m.kind \in NotiKind

\* A server whose next is n, with the datagrams q to read, will take p for its
\* next when it has read them.
LastSays(q, n, p) ==
    /\ (\A i \in DOMAIN q : ~IsNoti(q[i])) => n = p
    /\ \A i \in DOMAIN q :
          IsNoti(q[i]) /\ (\A j \in DOMAIN q : j > i => ~IsNoti(q[j]))
             => q[i].port = p

Told(s, p) == LastSays(udp[s], next[s], p)

Following(i) == IF i < Len(chain) THEN chain[i + 1] ELSE NoServer

\* The thread of the joining of the server after the i-th one is between
\* client_notify and server_notify.
Coming(i) ==
    i < Len(chain) /\ [kind |-> "Extension", srv |-> chain[i + 1]] \in notices

\* A server of the chain has been told its successor, or will be.
MembersTold ==
    \A i \in DOMAIN chain :
        up[chain[i]] => Told(chain[i], Following(i)) \/ Coming(i)

\* A server that has not joined takes itself for a tail.
OthersTold ==
    \A s \in Server :
        ~InChain(s) /\ (up[s] \/ s \in asleep) => Told(s, NoServer)

LinkInv == ChainInv /\ MembersTold /\ OthersTold

-----------------------------------------------------------------------------
(* What is read and what is written.                                       *)

\* A notification is the last word (Proc_master_notification).
LEMMA AppendNoti ==
  ASSUME NEW S, NEW q \in Seq(S), NEW m \in S, IsNoti(m), NEW n
  PROVE  LastSays(Append(q, m), n, m.port)
  <1>1. /\ DOMAIN Append(q, m) = 1..(Len(q) + 1) /\ Len(q) \in Nat
        /\ \A i \in 1..Len(q) : Append(q, m)[i] = q[i]
        /\ Append(q, m)[Len(q) + 1] = m
    BY AppendProperties
  <1> QED BY <1>1 DEF LastSays

\* A request is not.
LEMMA AppendRequest ==
  ASSUME NEW S, NEW q \in Seq(S), NEW m \in S, ~IsNoti(m), NEW n, NEW p,
         LastSays(q, n, p)
  PROVE  LastSays(Append(q, m), n, p)
  <1>1. /\ DOMAIN Append(q, m) = 1..(Len(q) + 1) /\ Len(q) \in Nat
        /\ DOMAIN q = 1..Len(q)
        /\ \A i \in 1..Len(q) : Append(q, m)[i] = q[i]
        /\ Append(q, m)[Len(q) + 1] = m
    BY AppendProperties
  <1> QED BY <1>1 DEF LastSays

\* What has been read counts as long as nothing else is there to read.
LEMMA TailSays ==
  ASSUME NEW S, NEW q \in Seq(S), q # <<>>, NEW n, NEW p, LastSays(q, n, p)
  PROVE  LastSays(Tail(q), IF IsNoti(Head(q)) THEN Head(q).port ELSE n, p)
  <1>1. /\ DOMAIN Tail(q) = 1..(Len(q) - 1) /\ Len(q) \in Nat /\ Len(q) # 0
        /\ DOMAIN q = 1..Len(q) /\ Head(q) = q[1]
        /\ \A i \in 1..(Len(q) - 1) : Tail(q)[i] = q[i + 1]
    BY HeadTailProperties
  <1>2. ASSUME \A i \in DOMAIN Tail(q) : ~IsNoti(Tail(q)[i])
        PROVE  (IF IsNoti(Head(q)) THEN Head(q).port ELSE n) = p
    <2>1. \A j \in DOMAIN q : j > 1 => ~IsNoti(q[j])
      <3> SUFFICES ASSUME NEW j \in DOMAIN q, j > 1
                   PROVE  ~IsNoti(q[j])
        OBVIOUS
      <3>1. j - 1 \in DOMAIN Tail(q) /\ Tail(q)[j - 1] = q[j]
        BY <1>1
      <3> QED BY <1>2, <3>1
    <2>2. CASE IsNoti(q[1])
      BY <1>1, <2>1, <2>2 DEF LastSays
    <2>3. CASE ~IsNoti(q[1])
      <3>1. \A j \in DOMAIN q : ~IsNoti(q[j])
        BY <1>1, <2>1, <2>3
      <3> QED BY <1>1, <2>3, <3>1 DEF LastSays
    <2> QED BY <2>2, <2>3
  <1>3. ASSUME NEW i \in DOMAIN Tail(q), IsNoti(Tail(q)[i]),
               \A j \in DOMAIN Tail(q) : j > i => ~IsNoti(Tail(q)[j])
        PROVE  Tail(q)[i].port = p
    <2>1. \A j \in DOMAIN q : j > i + 1 => ~IsNoti(q[j])
      <3> SUFFICES ASSUME NEW j \in DOMAIN q, j > i + 1
                   PROVE  ~IsNoti(q[j])
        OBVIOUS
      <3>1. j - 1 \in DOMAIN Tail(q) /\ j - 1 > i /\ Tail(q)[j - 1] = q[j]
        BY <1>1
      <3> QED BY <1>3, <3>1
    <2>2. i + 1 \in DOMAIN q /\ q[i + 1] = Tail(q)[i]
      BY <1>1
    <2> QED BY <1>3, <2>1, <2>2 DEF LastSays
  <1> QED BY <1>2, <1>3 DEF LastSays

\* A process that has ended has no next and nothing to read.
LEMMA DownTold ==
  ASSUME TypeOK, NEW u \in Server, Down(u), NEW s \in Server
  PROVE  \/ u # s /\ udp'[s] = udp[s] /\ next'[s] = next[s]
         \/ u = s /\ ~up'[s] /\ Told(s, NoServer)'
  <1>1. /\ udp \in [Server -> Seq(Text)] /\ next \in [Server -> Server \cup {NoServer}]
        /\ up \in [Server -> BOOLEAN]
    BY DEF TypeOK, WireTypeOK, ServerTypeOK
  <1>2. CASE u # s
    BY <1>1, <1>2 DEF Down
  <1>3. CASE u = s
    <2>1. udp'[s] = <<>> /\ next'[s] = NoServer /\ ~up'[s]
      BY <1>1, <1>3 DEF Down
    <2> QED BY <1>3, <2>1 DEF Told, LastSays
  <1> QED BY <1>2, <1>3

-----------------------------------------------------------------------------
(* Processes other than the master.                                        *)

\* What the last word to s was does not change, or s has ended.
Hears(s) ==
    \/ \A p : Told(s, p) => Told(s, p)'
    \/ ~up'[s] /\ Told(s, NoServer)'

\* The types the lemmas below rest on.
LEMMA WireNow ==
  ASSUME TypeOK
  PROVE  /\ up \in [Server -> BOOLEAN] /\ udp \in [Server -> Seq(Text)]
         /\ next \in [Server -> Server \cup {NoServer}]
         /\ chain \in Seq(Server) /\ notices \in SUBSET Notice
  BY DEF TypeOK, WireTypeOK, ServerTypeOK, MasterTypeOK

\* A server reads a datagram and takes the port of a notification for its next.
LEMMA ReadHears ==
  ASSUME TypeOK, NEW u \in Server, udp[u] # <<>>,
         udp' = [udp EXCEPT ![u] = Tail(@)],
         next' = [next EXCEPT ![u] = IF IsNoti(Head(udp[u])) THEN Head(udp[u]).port
                                     ELSE @],
         NEW s \in Server
  PROVE  Hears(s)
  <1>1. udp[u] \in Seq(Text) /\ udp[s] \in Seq(Text)
    BY WireNow
  <1>2. CASE s # u
    <2>1. udp'[s] = udp[s] /\ next'[s] = next[s]
      BY <1>2, WireNow
    <2> QED BY <2>1 DEF Hears, Told
  <1>3. CASE s = u
    <2>1. /\ udp'[s] = Tail(udp[s])
          /\ next'[s] = IF IsNoti(Head(udp[s])) THEN Head(udp[s]).port ELSE next[s]
      BY <1>3, WireNow
    <2>2. ASSUME NEW p, Told(s, p)
          PROVE  Told(s, p)'
      BY <1>1, <1>3, <2>1, <2>2, TailSays DEF Told
    <2> QED BY <2>2 DEF Hears
  <1> QED BY <1>2, <1>3

\* Nothing that speaks of s is read or written.
LEMMA SameHears ==
  ASSUME udp' = udp, next' = next, NEW s
  PROVE  Hears(s)
  BY DEF Hears, Told

\* The loop of main.
LEMMA MainHears ==
  ASSUME TypeOK, NEW u \in Server, MainLoop(u) \/ Synchronize(u), NEW s \in Server
  PROVE  Hears(s)
  <1>1. CASE RecvNotification(u)
    BY <1>1, ReadHears DEF RecvNotification, Datagram, TakeDatagram, IsNoti
  <1>2. CASE DropRequest(u) \/ RecvRequest(u)
    <2>1. ~IsNoti(Head(udp[u])) /\ udp[u] # <<>>
      BY <1>2 DEF DropRequest, RecvRequest, RequestWaiting, Datagram, IsNoti, NotiKind
    <2>2. udp' = [udp EXCEPT ![u] = Tail(@)] /\ next' = next
      BY <1>2 DEF DropRequest, RecvRequest, TakeDatagram
    <2>3. next' = [next EXCEPT ![u] = IF IsNoti(Head(udp[u])) THEN Head(udp[u]).port
                                      ELSE @]
      BY <2>1, <2>2, WireNow
    <2> QED BY <2>1, <2>2, <2>3, ReadHears
  <1>3. CASE Down(u)
    BY <1>3, DownTold DEF Hears, Told
  <1>4. CASE ~(RecvNotification(u) \/ DropRequest(u) \/ RecvRequest(u)) /\ ~Down(u)
    <2>1. udp' = udp /\ next' = next
      BY <1>4 DEF MainLoop, Synchronize, ExpireOnRequest, AcceptRequest,
                  ExpireOnAccept, AcceptSyncSent, AcceptSyncSentNoNext,
                  AcceptSyncProc, SyncSentTrans, SyncSentEnd, SyncProcTrans,
                  SyncDone, wireVars
    <2> QED BY <2>1, SameHears
  <1> QED BY <1>1, <1>2, <1>3, <1>4

\* The threads Sync and Reply.
LEMMA ThreadHears ==
  ASSUME TypeOK, NEW u \in Server, NEW t \in ThreadId, ThreadStep(u, t),
         NEW s \in Server
  PROVE  Hears(s)
  <1>1. CASE Down(u)
    BY <1>1, DownTold DEF Hears, Told
  <1>2. CASE ~Down(u)
    <2>1. udp' = udp /\ next' = next
      BY <1>2 DEF ThreadStep, SyncConnect, SyncNullNext, SyncAdd, SyncEof,
                  SyncAcked, SyncHist, ReplyStart, ProcCheck, ProcApply,
                  ReplyHist, ReplySend, ReplyNowhere, ReplyAck, wireVars
    <2> QED BY <2>1, SameHears
  <1> QED BY <1>1, <1>2

\* Main and the threads while they overlap.
LEMMA OverlapHears ==
  ASSUME TypeOK, NEW u \in Server, BankOverlap(u), NEW s \in Server
  PROVE  Hears(s)
  <1>1. CASE Down(u)
    BY <1>1, DownTold DEF Hears, Told
  <1>2. CASE ~Down(u)
    <2>1. udp' = udp /\ next' = next
      BY <1>2 DEF BankOverlap, MainOverlap, ThreadOverlap, StartSyncHist,
                  EmptyRequest, EmptySyncSent, EmptySyncHist, EmptyDown, SyncOpen,
                  SyncWrite, SyncPassAck, SyncTake, AddSent, AckHist, wireVars
    <2> QED BY <2>1, SameHears
  <1> QED BY <1>1, <1>2

\* Clients send requests only.
LEMMA ClientHears ==
  ASSUME TypeOK, BankTimer \/ BankReceive, NEW s \in Server
  PROVE  Hears(s)
  <1>1. next' = next
    BY DEF BankTimer, BankReceive, serverVars
  <1>2. \/ udp' = udp
        \/ \E u \in Server : udp' = [udp EXCEPT ![u] = Append(@, Raw(Current))]
    BY DEF BankTimer, BankReceive, OpenSocket, SendRequest, Resend, GiveUp,
           RecvReply, RecvFail, RecvExtension, ToServer
  <1>3. CASE udp' = udp
    BY <1>1, <1>3, SameHears
  <1>4. ASSUME NEW u \in Server, udp' = [udp EXCEPT ![u] = Append(@, Raw(Current))]
        PROVE  Hears(s)
    <2>1. udp[s] \in Seq(Text)
      BY WireNow
    <2>2. Raw(Current) \in Text /\ ~IsNoti(Raw(Current))
      BY CurrentType, RawType DEF IsNoti, Raw, NotiKind, TypeOK
    <2>3. udp'[s] = IF s = u THEN Append(udp[s], Raw(Current)) ELSE udp[s]
      BY <1>4, WireNow
    <2>4. ASSUME NEW p, Told(s, p)
          PROVE  Told(s, p)'
      BY <1>1, <2>1, <2>2, <2>3, <2>4, AppendRequest DEF Told
    <2> QED BY <2>4 DEF Hears
  <1> QED BY <1>2, <1>3, <1>4

\* Whatever the other processes do, the links are as good as they were.
LEMMA HearsLinks ==
  ASSUME ChainInv, MembersTold, OthersTold, EndsOnly, \A s \in Server : Hears(s)
  PROVE  MembersTold' /\ OthersTold'
  <1>1. \A s \in Server : ~up[s] => ~up'[s]
    BY WireNow DEF EndsOnly, ChainInv, BankInv
  <1>2. UNCHANGED <<chain, notices, asleep>> /\ chain \in Seq(Server)
    BY WireNow DEF EndsOnly, ChainInv, BankInv
  <1>3. ASSUME NEW i \in DOMAIN chain, up'[chain[i]], ~Coming(i)
        PROVE  Told(chain[i], Following(i))'
    <2>1. PICK s \in Server : s = chain[i]
      BY <1>2
    <2>2. Told(s, Following(i))
      BY <1>1, <1>3, <2>1 DEF MembersTold
    <2> QED BY <1>2, <1>3, <2>1, <2>2 DEF Hears, Told, Following
  <1>4. MembersTold'
    BY <1>2, <1>3 DEF MembersTold, Coming
  <1>5. OthersTold'
    BY <1>1, <1>2 DEF OthersTold, Hears, InChain
  <1> QED BY <1>4, <1>5

LEMMA OthersLinks ==
  ASSUME ChainInv, MembersTold, OthersTold,
         \/ \E s \in Server : BankKill(s) \/ BankMain(s) \/ BankOverlap(s)
         \/ \E s \in Server, t \in ThreadId : BankThread(s, t)
         \/ BankTimer \/ BankReceive
         \/ UNCHANGED vars
  PROVE  MembersTold' /\ OthersTold'
  <1>1. TypeOK
    BY DEF ChainInv, BankInv
  <1>2. ASSUME NEW s \in Server
        PROVE  Hears(s)
    <2>1. ASSUME NEW u \in Server, BankKill(u)
          PROVE  Hears(s)
      BY <1>1, <2>1, DownTold DEF BankKill, Kill, Hears, Told
    <2>2. ASSUME NEW u \in Server, BankMain(u)
          PROVE  Hears(s)
      BY <1>1, <2>2, MainHears DEF BankMain
    <2>3. ASSUME NEW u \in Server, NEW t \in ThreadId, BankThread(u, t)
          PROVE  Hears(s)
      BY <1>1, <2>3, ThreadHears DEF BankThread
    <2>6. ASSUME NEW u \in Server, BankOverlap(u)
          PROVE  Hears(s)
      BY <1>1, <2>6, OverlapHears
    <2>4. CASE BankTimer \/ BankReceive
      BY <1>1, <2>4, ClientHears
    <2>5. CASE UNCHANGED vars
      BY <2>5, SameHears DEF vars, wireVars, serverVars
    <2> QED BY <2>1, <2>2, <2>3, <2>4, <2>5, <2>6
  <1> QED BY <1>2, OthersEnd, HearsLinks

\* A delayed server starts with nobody in front and nobody behind.
LEMMA StartLinks ==
  ASSUME ChainInv, MembersTold, OthersTold, NEW s \in Server, BankStart(s)
  PROVE  MembersTold' /\ OthersTold'
  <1>1. /\ UNCHANGED <<udp, next, chain, notices>> /\ s \in asleep /\ ~InChain(s)
        /\ asleep' = asleep \ {s}
    BY DEF BankStart, masterVars, serverVars, ChainInv, Known
  <1>2. \A u \in Server \ {s} : up'[u] = up[u]
    BY WireNow DEF BankStart, ChainInv, BankInv
  <1>3. \A i \in DOMAIN chain : chain[i] \in Server \ {s}
    BY <1>1, WireNow DEF InChain, ChainInv, BankInv
  <1>4. MembersTold'
    BY <1>1, <1>2, <1>3 DEF MembersTold, Told, Following, Coming
  <1>5. OthersTold'
    BY <1>1, <1>2 DEF OthersTold, Told, InChain
  <1> QED BY <1>4, <1>5

-----------------------------------------------------------------------------
(* The master.                                                             *)

\* While clients are told of a failure the chain is what it was.
LEMMA FailLinks ==
  ASSUME ChainInv, MembersTold, OthersTold, NEW s \in Server, BankMaster, DetectFail(s)
  PROVE  MembersTold' /\ OthersTold'
  <1>1. /\ UNCHANGED <<up, udp, next, asleep, chain>> /\ notices \subseteq notices'
    BY DEF BankMaster, DetectFail, serverVars
  <1> QED BY <1>1 DEF MembersTold, OthersTold, Told, Following, Coming, InChain

\* The server before one that joins will be told.
LEMMA JoinLinks ==
  ASSUME ChainInv, MembersTold, OthersTold, NEW s \in Server, BankMaster, DetectJoin(s)
  PROVE  MembersTold' /\ OthersTold'
  <1>1. /\ UNCHANGED <<up, udp, next, asleep>>
        /\ notices' = notices \cup {[kind |-> "Extension", srv |-> s]}
        /\ up[s] /\ ~InChain(s) /\ chain' = Append(chain, s)
    BY DEF BankMaster, DetectJoin, serverVars
  <1>2. /\ chain \in Seq(Server) /\ Len(chain) \in Nat /\ DOMAIN chain = 1..Len(chain)
        /\ DOMAIN chain' = 1..(Len(chain) + 1) /\ Len(chain') = Len(chain) + 1
        /\ \A i \in 1..Len(chain) : chain'[i] = chain[i]
        /\ chain'[Len(chain) + 1] = s
    BY <1>1, WireNow, AppendProperties DEF ChainInv, BankInv
  <1>3. Told(s, NoServer)
    BY <1>1 DEF OthersTold
  <1>4. ASSUME NEW i \in DOMAIN chain', up'[chain'[i]]
        PROVE  (Told(chain[i], Following(i)) \/ Coming(i))'
    <2>1. CASE i = Len(chain) + 1
      BY <1>1, <1>2, <1>3, <2>1 DEF Told, Following
    <2>2. CASE i = Len(chain)
      BY <1>1, <1>2, <2>2 DEF Coming
    <2>3. CASE i \in 1..(Len(chain) - 1)
      <3>1. Told(chain[i], Following(i)) \/ Coming(i)
        BY <1>1, <1>2, <1>4, <2>3 DEF MembersTold
      <3> QED BY <1>1, <1>2, <2>3, <3>1 DEF Told, Following, Coming
    <2> QED BY <1>2, <1>4, <2>1, <2>2, <2>3
  <1>5. \A u : InChain(u) => InChain(u)'
    BY <1>2 DEF InChain
  <1> QED BY <1>1, <1>4, <1>5 DEF MembersTold, OthersTold, Told

\* What ServerNotify writes reaches the server before s, if that is up.
LEMMA ToServerTold ==
  ASSUME TypeOK, NEW u \in Server, NEW k \in NotiKind, NEW p \in Server \cup {NoServer},
         ToServer(u, Noti(k, p)), next' = next
  PROVE  /\ up[u] => Told(u, p)'
         /\ \A v \in Server \ {u} : \A q : Told(v, q) <=> Told(v, q)'
  <1>1. Noti(k, p) \in Text /\ IsNoti(Noti(k, p)) /\ Noti(k, p).port = p
    BY NotiType DEF IsNoti, Noti, Text
  <1>2. \A v \in Server \ {u} : udp'[v] = udp[v]
    BY WireNow DEF ToServer
  <1>3. up[u] => udp'[u] = Append(udp[u], Noti(k, p)) /\ udp[u] \in Seq(Text)
    BY WireNow DEF ToServer
  <1>4. up[u] => Told(u, p)'
    BY <1>1, <1>3, AppendNoti DEF Told
  <1> QED BY <1>2, <1>4 DEF Told

\* A server of the chain is where IndexOf finds it.
LEMMA IndexFound ==
  ASSUME TypeOK, NEW s \in Server, InChain(s)
  PROVE  IndexOf(s) \in DOMAIN chain /\ chain[IndexOf(s)] = s
  <1>1. \E k \in DOMAIN chain : chain[k] = s /\ \A j \in 1..(k - 1) : chain[j] # s
    BY FirstIndex, WireNow DEF InChain
  <1> QED BY <1>1 DEF IndexOf

\* The notification of a server that has left the chain says nothing: nobody
\* waits for it.
LEMMA GoneLinks ==
  ASSUME ChainInv, MembersTold, OthersTold, BankMaster, NEW n \in notices,
         ServerNotify(n), ~InChain(n.srv)
  PROVE  MembersTold' /\ OthersTold'
  <1>1. UNCHANGED <<up, udp, next, asleep, chain>> /\ notices' = notices \ {n}
    BY DEF BankMaster, ServerNotify, serverVars
  <1>2. ASSUME NEW i \in DOMAIN chain, Coming(i)
        PROVE  Coming(i)'
    <2>1. chain[i + 1] # n.srv
      BY <1>2, WireNow DEF Coming, InChain, ChainInv, BankInv
    <2> QED BY <1>1, <1>2, <2>1 DEF Coming
  <1>3. MembersTold'
    BY <1>1, <1>2 DEF MembersTold, Told, Following
  <1> QED BY <1>1, <1>3 DEF OthersTold, Told, InChain

\* What server_notify makes of the chain, and whom it tells what.
LEMMA NotifySays ==
  ASSUME ChainInv, BankMaster, NEW n \in notices, ServerNotify(n), InChain(n.srv),
         NEW k \in DOMAIN chain, k = IndexOf(n.srv)
  PROVE  /\ UNCHANGED <<up, next, asleep>> /\ notices' = notices \ {n}
         /\ chain[k] = n.srv
         /\ chain' = IF n.kind = "Fail" THEN Drop(chain, k) ELSE chain
         /\ k = 1 => udp' = udp
         /\ k # 1 => \E u \in Server, p \in Server \cup {NoServer} :
               /\ u = chain[k - 1]
               /\ p = IF k \in DOMAIN chain' THEN chain'[k] ELSE NoServer
               /\ up[u] => Told(u, p)'
               /\ \A v \in Server \ {u} : \A q : Told(v, q) <=> Told(v, q)'
  <1> DEFINE link == IF k \in DOMAIN chain' THEN chain'[k] ELSE NoServer
  <1>1. TypeOK /\ n \in Notice /\ chain \in Seq(Server)
    BY WireNow DEF ChainInv, BankInv
  <1>2. PICK s \in Server : s = n.srv
    BY <1>1 DEF Notice
  <1>3. chain[k] = n.srv
    BY <1>1, <1>2, IndexFound
  <1>4. /\ UNCHANGED <<up, next, asleep>> /\ notices' = notices \ {n}
        /\ chain' = IF n.kind = "Fail" THEN Removed(n.srv) ELSE chain
        /\ k = 1 => udp' = udp
        /\ k # 1 => ToServer(chain[k - 1],
                             Noti(NotiOf(n.kind), link))
    BY DEF BankMaster, ServerNotify, serverVars
  <1>5. Removed(n.srv) = Drop(chain, k)
    BY DEF Removed, Drop
  <1>6. chain' \in Seq(Server)
    BY <1>1, <1>4, <1>5, DropIndex
  <1>7. ASSUME k # 1
        PROVE  \E u \in Server, p \in Server \cup {NoServer} :
                  /\ u = chain[k - 1] /\ p = link
                  /\ up[u] => Told(u, p)'
                  /\ \A v \in Server \ {u} : \A q : Told(v, q) <=> Told(v, q)'
    <2>1. k - 1 \in DOMAIN chain
      BY <1>1, <1>7
    <2>2. PICK u \in Server : u = chain[k - 1]
      BY <1>1, <2>1
    <2>3. PICK p \in Server \cup {NoServer} : p = link
      BY <1>6
    <2>4. PICK w \in NotiKind : w = NotiOf(n.kind)
      BY DEF NotiKind, NotiOf
    <2>5. ToServer(u, Noti(w, p))
      BY <1>4, <1>7, <2>2, <2>3, <2>4
    <2> HIDE DEF link
    <2> QED BY <1>1, <1>4, <2>2, <2>3, <2>5, ToServerTold
  <1> QED BY <1>3, <1>4, <1>5, <1>7

\* The server before one that has joined is told of it.
LEMMA ExtensionLinks ==
  ASSUME ChainInv, MembersTold, OthersTold, BankMaster, NEW n \in notices,
         ServerNotify(n), InChain(n.srv), n.kind # "Fail"
  PROVE  MembersTold' /\ OthersTold'
  <1>1. TypeOK /\ n \in Notice /\ chain \in Seq(Server) /\ Distinct(chain)
    BY WireNow DEF ChainInv, BankInv, NoServerTwice
  <1>2. PICK s \in Server : s = n.srv
    BY <1>1 DEF Notice
  <1>3. PICK k \in DOMAIN chain : k = IndexOf(n.srv)
    BY <1>1, <1>2, IndexFound
  <1>4. /\ UNCHANGED <<up, next, asleep, chain>> /\ notices' = notices \ {n}
        /\ chain[k] = n.srv
    BY <1>3, NotifySays
  <1>5. \A i \in DOMAIN chain : i + 1 # k /\ Coming(i) => Coming(i)'
    BY <1>1, <1>4 DEF Coming, Distinct
  <1>6. CASE k = 1
    <2>1. udp' = udp
      BY <1>3, <1>6, NotifySays
    <2>2. MembersTold'
      BY <1>1, <1>4, <1>5, <1>6, <2>1 DEF MembersTold, Told, Following
    <2> QED BY <1>4, <2>1, <2>2 DEF OthersTold, Told, InChain
  <1>7. CASE k # 1
    <2>1. PICK u \in Server :
             /\ u = chain[k - 1]
             /\ up[u] => Told(u, chain[k])'
             /\ \A v \in Server \ {u} : \A q : Told(v, q) <=> Told(v, q)'
      BY <1>3, <1>4, <1>7, NotifySays
    <2>2. k - 1 \in DOMAIN chain /\ k - 1 < Len(chain) /\ (k - 1) + 1 = k
      BY <1>1, <1>7
    <2>3. ASSUME NEW i \in DOMAIN chain, up[chain[i]]
          PROVE  (Told(chain[i], Following(i)) \/ Coming(i))'
      <3>1. CASE i = k - 1
        <4>1. Following(i)' = chain[k]
          BY <1>4, <2>2, <3>1 DEF Following
        <4> QED BY <1>4, <2>1, <2>3, <3>1, <4>1 DEF Told
      <3>2. CASE i # k - 1
        <4>1. PICK v \in Server : v = chain[i]
          BY <1>1
        <4>2. v # u /\ i + 1 # k
          BY <1>1, <2>1, <2>2, <3>2, <4>1 DEF Distinct
        <4>3. Told(v, Following(i)) \/ Coming(i)
          BY <2>3, <4>1 DEF MembersTold
        <4>4. Following(i)' = Following(i)
          BY <1>4 DEF Following
        <4> QED BY <1>4, <1>5, <2>1, <4>1, <4>2, <4>3, <4>4 DEF Told
      <3> QED BY <3>1, <3>2
    <2>4. MembersTold'
      BY <1>4, <2>3 DEF MembersTold
    <2>5. \A v \in Server : ~InChain(v) => v # u
      BY <2>1, <2>2 DEF InChain
    <2> QED BY <1>4, <2>1, <2>4, <2>5 DEF OthersTold, InChain
  <1> QED BY <1>6, <1>7

\* A failed server leaves the chain, and the one before it is told what comes
\* after it.
LEMMA RemovalLinks ==
  ASSUME ChainInv, MembersTold, OthersTold, BankMaster, NEW n \in notices,
         ServerNotify(n), InChain(n.srv), n.kind = "Fail"
  PROVE  MembersTold' /\ OthersTold'
  <1>1. TypeOK /\ n \in Notice /\ chain \in Seq(Server) /\ Distinct(chain)
    BY WireNow DEF ChainInv, BankInv, NoServerTwice
  <1>2. PICK s \in Server : s = n.srv
    BY <1>1 DEF Notice
  <1>3. PICK k \in DOMAIN chain : k = IndexOf(n.srv)
    BY <1>1, <1>2, IndexFound
  <1>4. /\ UNCHANGED <<up, next, asleep>> /\ notices' = notices \ {n}
        /\ chain[k] = s /\ chain' = Drop(chain, k)
    BY <1>2, <1>3, NotifySays
  <1>5. /\ chain' \in Seq(Server) /\ Len(chain') = Len(chain) - 1
        /\ DOMAIN chain = 1..Len(chain) /\ Len(chain) \in Nat
        /\ DOMAIN chain' = 1..(Len(chain) - 1)
        /\ \A i \in 1..(Len(chain) - 1) :
              chain'[i] = IF i < k THEN chain[i] ELSE chain[i + 1]
    BY <1>1, <1>4, DropIndex
  <1>6. ~up[s] /\ s \notin asleep
    BY <1>2 DEF ChainInv, Known
  <1>7. \A u \in Server : ~InChain(u)' => ~InChain(u) \/ u = s
    <2>1. Elements(chain') = Elements(chain) \ {s}
      BY <1>1, <1>4, DropDistinct
    <2> QED BY <2>1 DEF Elements, InChain
  <1>8. \A m : m.kind = "Extension" /\ m \in notices => m \in notices'
    BY <1>4
  \* The links before the gap, and those behind it, are the ones there were.
  <1>9. ASSUME NEW i \in 1..(Len(chain) - 1), i < k - 1
        PROVE  /\ i \in DOMAIN chain /\ chain'[i] = chain[i]
               /\ Following(i)' = Following(i) /\ (Coming(i) => Coming(i)')
    BY <1>5, <1>8, <1>9 DEF Following, Coming
  <1>10. ASSUME NEW i \in 1..(Len(chain) - 1), k <= i
         PROVE  /\ i + 1 \in DOMAIN chain /\ chain'[i] = chain[i + 1]
                /\ Following(i)' = Following(i + 1) /\ (Coming(i + 1) => Coming(i)')
    <2>1. i + 1 \in DOMAIN chain /\ chain'[i] = chain[i + 1]
      BY <1>5, <1>10
    <2>2. i < Len(chain') <=> i + 1 < Len(chain)
      BY <1>5
    <2>3. i < Len(chain') => chain'[i + 1] = chain[(i + 1) + 1]
      BY <1>5, <1>10
    <2> QED BY <1>8, <2>1, <2>2, <2>3 DEF Following, Coming
  <1>11. CASE k = 1
    <2>1. udp' = udp
      BY <1>3, <1>11, NotifySays
    <2>2. ASSUME NEW i \in DOMAIN chain', up'[chain'[i]]
          PROVE  (Told(chain[i], Following(i)) \/ Coming(i))'
      <3>1. /\ i + 1 \in DOMAIN chain /\ chain'[i] = chain[i + 1]
            /\ Following(i)' = Following(i + 1) /\ (Coming(i + 1) => Coming(i)')
        BY <1>5, <1>10, <1>11
      <3>2. Told(chain[i + 1], Following(i + 1)) \/ Coming(i + 1)
        BY <1>4, <2>2, <3>1 DEF MembersTold
      <3> QED BY <1>4, <2>1, <3>1, <3>2 DEF Told
    <2>3. MembersTold'
      BY <2>2 DEF MembersTold
    <2>4. OthersTold'
      BY <1>4, <1>6, <1>7, <2>1 DEF OthersTold, Told
    <2> QED BY <2>3, <2>4
  <1>12. CASE k # 1
    <2>1. PICK u \in Server, p \in Server \cup {NoServer} :
             /\ u = chain[k - 1]
             /\ p = IF k \in DOMAIN chain' THEN chain'[k] ELSE NoServer
             /\ up[u] => Told(u, p)'
             /\ \A v \in Server \ {u} : \A q : Told(v, q) <=> Told(v, q)'
      BY <1>3, <1>12, NotifySays
    <2>2. k - 1 \in DOMAIN chain /\ k - 1 \in DOMAIN chain' /\ chain'[k - 1] = u
      BY <1>5, <1>12, <2>1
    <2>3. Following(k - 1)' = p
      BY <1>5, <2>1, <2>2 DEF Following
    <2>4. ASSUME NEW i \in DOMAIN chain', up'[chain'[i]]
          PROVE  (Told(chain[i], Following(i)) \/ Coming(i))'
      <3>1. CASE i = k - 1
        BY <1>4, <2>1, <2>2, <2>3, <2>4, <3>1 DEF Told
      <3>2. ASSUME NEW j \in DOMAIN chain, j # k - 1, chain'[i] = chain[j],
                   Following(i)' = Following(j), Coming(j) => Coming(i)'
            PROVE  (Told(chain[i], Following(i)) \/ Coming(i))'
        <4>1. PICK v \in Server : v = chain[j]
          BY <1>1
        <4>2. v # u
          BY <1>1, <2>1, <2>2, <3>2, <4>1 DEF Distinct
        <4>3. Told(v, Following(j)) \/ Coming(j)
          BY <1>4, <2>4, <3>2, <4>1 DEF MembersTold
        <4> QED BY <2>1, <3>2, <4>1, <4>2, <4>3 DEF Told
      <3>3. CASE i < k - 1
        <4>1. /\ i \in DOMAIN chain /\ chain'[i] = chain[i] /\ i # k - 1
              /\ Following(i)' = Following(i) /\ (Coming(i) => Coming(i)')
          BY <1>5, <1>9, <3>3
        <4> QED BY <3>2, <4>1
      <3>4. CASE k <= i
        <4>1. /\ i + 1 \in DOMAIN chain /\ i + 1 # k - 1 /\ chain'[i] = chain[i + 1]
              /\ Following(i)' = Following(i + 1) /\ (Coming(i + 1) => Coming(i)')
          BY <1>5, <1>10, <3>4
        <4> QED BY <3>2, <4>1
      <3> QED BY <1>5, <3>1, <3>3, <3>4
    <2>5. MembersTold'
      BY <2>4 DEF MembersTold
    <2>6. \A v \in Server : ~InChain(v) => v # u
      BY <2>1, <2>2 DEF InChain
    <2>7. OthersTold'
      BY <1>4, <1>6, <1>7, <2>1, <2>6 DEF OthersTold
    <2> QED BY <2>5, <2>7
  <1> QED BY <1>11, <1>12

-----------------------------------------------------------------------------
\* A server of the file starts with the line after its own, if that server has
\* no startup delay (main).
LEMMA FirstNext ==
  ASSUME ServerInit(Lines, Spare)
  PROVE  /\ \A i \in 1..(Len(Lines) - 1) :
               Lines[i + 1] \notin Spare => next[Lines[i]] = Lines[i + 1]
         /\ \A s \in Server :
               (\A i \in 1..(Len(Lines) - 1) : Lines[i] = s => Lines[i + 1] \in Spare)
                  => next[s] = NoServer
  <1>1. /\ Lines \in Seq(Server) /\ DOMAIN Lines = 1..Len(Lines) /\ Len(Lines) \in Nat
        /\ \A i, j \in DOMAIN Lines : Lines[i] = Lines[j] => i = j
    BY BankAssumption
  <1>2. next = [s \in Server |->
                  IF \E i \in 1..(Len(Lines) - 1) :
                        Lines[i] = s /\ Lines[i + 1] \notin Spare
                  THEN Lines[1 + CHOOSE i \in 1..(Len(Lines) - 1) : Lines[i] = s]
                  ELSE NoServer]
    BY DEF ServerInit
  <1>3. ASSUME NEW i \in 1..(Len(Lines) - 1), Lines[i + 1] \notin Spare
        PROVE  next[Lines[i]] = Lines[i + 1]
    <2>1. PICK s \in Server : s = Lines[i]
      BY <1>1
    <2> DEFINE c == CHOOSE j \in 1..(Len(Lines) - 1) : Lines[j] = s
    <2>2. c \in 1..(Len(Lines) - 1) /\ Lines[c] = s
      BY <2>1
    <2>3. next[s] = Lines[1 + c]
      BY <1>2, <1>3, <2>1
    <2> HIDE DEF c
    <2>4. c = i
      BY <1>1, <2>1, <2>2
    <2> QED BY <2>1, <2>3, <2>4
  <1>4. ASSUME NEW s \in Server,
               \A i \in 1..(Len(Lines) - 1) : Lines[i] = s => Lines[i + 1] \in Spare
        PROVE  next[s] = NoServer
    BY <1>2, <1>4
  <1> QED BY <1>3, <1>4

LEMMA LinkInit ==
  ASSUME DelayedLast, PromptMaster, Init
  PROVE  LinkInv
  <1>1. PICK n \in 0..Len(Lines) :
           /\ Configured = SubSeq(Lines, 1, n)
           /\ \A i \in (n + 1)..Len(Lines) : Lines[i] \in Spare
    BY DEF DelayedLast
  <1>2. /\ chain = Configured /\ udp = [s \in Server |-> <<>>]
        /\ ServerInit(Lines, Spare)
    BY DEF Init, MasterInit
  <1>3. /\ Lines \in Seq(Server) /\ Len(Lines) \in Nat
        /\ \A i \in DOMAIN Configured : Configured[i] \notin Spare
        /\ \A i, j \in DOMAIN Lines : Lines[i] = Lines[j] => i = j
    BY BankAssumption
  <1>4. /\ Len(chain) = n /\ DOMAIN chain = 1..n
        /\ \A i \in 1..n : chain[i] = Lines[i]
    BY <1>1, <1>2, <1>3, SubSeqProperties
  <1>5. ASSUME NEW s \in Server, NEW p, next[s] = p
        PROVE  Told(s, p)
    BY <1>2, <1>5 DEF Told, LastSays
  <1>6. ASSUME NEW i \in 1..n
        PROVE  Told(chain[i], Following(i))
    <2>1. PICK s \in Server : s = Lines[i] /\ s = chain[i]
      BY <1>3, <1>4
    <2>2. CASE i < n
      <3>1. Lines[i + 1] = chain[i + 1] /\ Lines[i + 1] \notin Spare
        BY <1>2, <1>3, <1>4, <2>2
      <3>2. i \in 1..(Len(Lines) - 1)
        BY <1>3, <2>2
      <3>3. next[s] = chain[i + 1]
        BY <1>2, <2>1, <3>1, <3>2, FirstNext
      <3> QED BY <1>4, <1>5, <2>1, <2>2, <3>3 DEF Following
    <2>3. CASE i = n
      <3>1. \A j \in 1..(Len(Lines) - 1) : Lines[j] = s => Lines[j + 1] \in Spare
        <4> SUFFICES ASSUME NEW j \in 1..(Len(Lines) - 1), Lines[j] = s
                     PROVE  Lines[j + 1] \in Spare
          OBVIOUS
        <4>1. i \in DOMAIN Lines /\ j \in DOMAIN Lines
          BY <1>3, <2>3
        <4>2. j = n
          BY <1>3, <2>1, <2>3, <4>1
        <4>3. n + 1 \in (n + 1)..Len(Lines)
          BY <1>3, <4>2
        <4> QED BY <1>1, <4>2, <4>3
      <3>2. next[s] = NoServer
        BY <1>2, <3>1, FirstNext
      <3> QED BY <1>4, <1>5, <2>1, <2>3, <3>2 DEF Following
    <2> QED BY <2>2, <2>3
  <1>7. ASSUME NEW s \in Server, ~InChain(s)
        PROVE  Told(s, NoServer)
    <2>1. \A j \in 1..(Len(Lines) - 1) : Lines[j] = s => Lines[j + 1] \in Spare
      <3> SUFFICES ASSUME NEW j \in 1..(Len(Lines) - 1), Lines[j] = s
                   PROVE  Lines[j + 1] \in Spare
        OBVIOUS
      <3>1. j \notin 1..n
        BY <1>4, <1>7 DEF InChain
      <3>2. j + 1 \in (n + 1)..Len(Lines)
        BY <1>3, <3>1
      <3> QED BY <1>1, <3>2
    <2> QED BY <1>2, <1>5, <2>1, FirstNext
  <1> QED BY <1>4, <1>6, <1>7, ChainInit DEF LinkInv, MembersTold, OthersTold

LEMMA LinkNext == LinkInv /\ [Next]_vars => LinkInv'
  <1> SUFFICES ASSUME LinkInv, [Next]_vars
               PROVE  LinkInv'
    OBVIOUS
  <1> USE DEF LinkInv
  <1>1. ChainInv'
    BY NextChain, NextInv DEF ChainInv
  <1>2. ASSUME NEW s \in Server, BankStart(s)
        PROVE  MembersTold' /\ OthersTold'
    BY <1>2, StartLinks
  <1>3. ASSUME BankMaster
        PROVE  MembersTold' /\ OthersTold'
    <2>1. ASSUME NEW s \in Server, DetectFail(s) \/ DetectJoin(s)
          PROVE  MembersTold' /\ OthersTold'
      BY <1>3, <2>1, FailLinks, JoinLinks
    <2>2. ASSUME NEW n \in notices, ServerNotify(n)
          PROVE  MembersTold' /\ OthersTold'
      BY <1>3, <2>2, GoneLinks, ExtensionLinks, RemovalLinks
    <2> QED BY <1>3, <2>1, <2>2 DEF BankMaster
  <1>4. CASE \E m \in MasterThread : BankMasterOverlap(m)
    BY <1>4 DEF BankMasterOverlap, ChainInv
  <1> QED BY <1>1, <1>2, <1>3, <1>4, OthersLinks DEF Next, Finished

\* Where the last word to a server was of its successor, and it has been read,
\* the server has that successor for its next.
LEMMA LinkLinked == LinkInv => Linked
  <1> SUFFICES ASSUME LinkInv, notices = {}, Detected,
                      NEW i \in DOMAIN chain, Heard(chain[i])
               PROVE  next[chain[i]] = Following(i)
    BY DEF Linked, Following
  <1>1. Told(chain[i], Following(i))
    BY DEF LinkInv, MembersTold, Coming, Detected
  <1> QED BY <1>1 DEF Heard, Told, LastSays, IsNoti

\* While the threads of the master leave each other alone, whatever overlaps
\* at the servers and the clients: whenever the master has noticed every
\* failure and is through with its notifications, each server of the chain
\* that has read them forwards to its successor in the chain of the master,
\* the last one to nobody (server_notify, Proc_master_notification).
THEOREM LinksFollow ==
  ASSUME DelayedLast, PromptMaster
  PROVE  Spec => []Linked
  <1>1. Init => LinkInv
    BY LinkInit
  <1> QED BY <1>1, LinkNext, LinkLinked, PTL DEF Spec
=============================================================================
