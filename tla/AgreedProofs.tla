---------------------------- MODULE AgreedProofs -----------------------------
(***************************************************************************)
(* All servers of a settled chain have the same balances, and every update *)
(* that was answered is in all their histories (BankChain.Agreed and       *)
(* BankChain.Durable), for any number of servers, clients, threads and     *)
(* requests, under the timing the program counts on, when processes end by *)
(* their life time only.                                                   *)
(***************************************************************************)
EXTENDS KeptProofs

\* Life times end a server when it takes a request, so before it does anything
\* with it. A signal may end it between two servers' processing it. In an
\* itemized file a forwarded update has "0" where synchronizations have their
\* type, so it is not taken for one (server.cpp, get_sync_type).
AgreedTiming == Timing /\ NoneDelayed /\ Itemized /\ MaxKills = 0

Scripted == {Script[p] : p \in DOMAIN Script}

-----------------------------------------------------------------------------
(* Which notifications are on their way, and what the client knows.        *)

Dead(p) == p \in Server /\ ~up[p]

\* A server with a notification to read has lost its next server, and of
\* several notifications all but the last name a server that is lost as well.
Outdated ==
    \A s \in Server : \A i \in DOMAIN udp[s] : IsNoti(udp[s][i]) =>
        /\ Dead(next[s])
        /\ \A j \in DOMAIN udp[s] : j < i /\ IsNoti(udp[s][j]) => Dead(udp[s][j].port)

Missing(s) == [kind |-> "Fail", srv |-> s] \in notices

\* The client loses no server of the chain before the master has started to
\* remove it.
ViewFull ==
    /\ \A s \in Server : InChain(s) => Missing(s) \/ s \in Elements(view)
    /\ \A m \in Elements(inbox) : m.kind = "Fail" /\ InChain(m.port) => Missing(m.port)

-----------------------------------------------------------------------------
(* The request that is on its way.                                         *)

TextOf(s, k, a) ==
    IF k = "udp" THEN udp[s][a] ELSE IF k = "tcp" THEN tcp[s][a].msg ELSE buf[s]

Plain(m) == m.kind = "Raw" /\ m.req.from \in Client

Begun(s, k, a) == k = "thr" /\ thr[s][a].pc \notin {"connect", "start"}

\* It is forwarded as the client wrote it.
TextsPlain ==
    \A s \in Server, k \in Form, a \in Spot :
        Front(s, k, a) /\ ~Begun(s, k, a) => Plain(TextOf(s, k, a))

\* Whoever replies knows where to.
Addressed ==
    \A s \in Server, t \in ThreadId :
        thr[s][t].role = "Reply" /\ thr[s][t].pc \in {"check", "apply", "send"}
            => thr[s][t].dest # NoClient

\* A query is at the tail only, which nobody waits for.
Sought ==
    \A s \in Server, k \in Form, a \in Spot :
        Front(s, k, a) /\ What(s, k, a).type = "Query" =>
            /\ next[s] = NoServer /\ Back(s, k, a).srv = NoServer
            /\ What(s, k, a) \in Scripted

\* Thread d.thr of server d.srv waits, with request r, for the next server.
Waits(d, r) ==
    /\ d.srv \in Server /\ up[d.srv] /\ Waiting(d.srv, d.thr)
    /\ NextUp(d.srv) /\ thr[d.srv][d.thr].peer = next[d.srv]
    /\ Args(d.srv, d.thr).req = r

\* Connection c leads from s to the server before it.
Backed(C, s, c) ==
    \/ \A u \in Server : up[u] => ~Precedes(u, s)
    \/ c \in C /\ next[c.srv] = s

\* The request r at s, with connection c back, has left a thread of C waiting
\* at every server before s.
Trail(C, s, c, r) ==
    /\ Backed(C, s, c)
    /\ \A d \in C :
          /\ Waits(d, r) /\ Precedes(d.srv, s)
          /\ Backed(C, d.srv, Args(d.srv, d.thr).conn)
          /\ next[d.srv] = s \/ \E e \in C : e.srv = next[d.srv]

PathInv ==
    \A s \in Server, k \in Form, a \in Spot :
        Front(s, k, a) /\ What(s, k, a).type # "Query" =>
            \E C \in SUBSET Conn : Trail(C, s, Back(s, k, a), What(s, k, a))

PlainInv == LinkInv /\ Outdated /\ ViewFull /\ TextsPlain /\ Addressed /\ Sought /\ PathInv

-----------------------------------------------------------------------------
(* What each server has made of the requests.                              *)

Looked ==
    \A s \in Server, t \in ThreadId :
        thr[s][t].pc = "apply" => thr[s][t].bal = acct[s][thr[s][t].req.acct]

AllBooks == [acct : [Account -> Int], ids : SUBSET Id]

BooksAt(s) == [acct |-> acct[s], ids |-> IdsOf(proc[s])]

Noted(I, r) == IF r.type = "Query" THEN I ELSE I \cup {r.id}

\* The books B after request r.
After(B, r) ==
    LET h == IF r.id \in B.ids THEN "Duplicate" ELSE "New" IN
    [acct |-> IF Applies(r, h, B.acct[r.acct])
              THEN [B.acct EXCEPT ![r.acct] = NewBal(r, B.acct[r.acct])] ELSE B.acct,
     ids |-> Noted(B.ids, r)]

\* The books of s will be B when its thread is through with processing.
Done(s, B) ==
    /\ \A t \in ThreadId : thr[s][t].pc \in {"check", "apply"} =>
          B = After(BooksAt(s), thr[s][t].req)
    /\ \A t \in ThreadId : thr[s][t].pc \in {"send", "hist"} =>
          B = [acct |-> acct[s], ids |-> Noted(IdsOf(proc[s]), thr[s][t].req)]
    /\ (\A t \in ThreadId : ~Processes(s, t)) => B = BooksAt(s)

\* It is the turn of thread t of s, on the way back from the tail.
Turn(s, t) == Carries(s, t) /\ thr[s][t].pc \notin {"connect", "start"}

\* u has the request still to process.
Owing(u) ==
    \E s \in Server, t \in ThreadId :
        Turn(s, t) /\ (Precedes(u, s) \/ (u = s /\ thr[s][t].ack = "acked"))

Share(O, B, u) == IF Owing(u) THEN O ELSE B

\* Who has the request still to process has the books O, the others have B. What is
\* synchronized is known already where it arrives.
LevelOf(O, B) ==
    /\ \A u \in Server : up[u] => Done(u, Share(O, B, u))
    /\ \A s \in Server, t \in ThreadId : Turn(s, t) => B = After(O, Args(s, t).req)
    /\ (\A s \in Server, t \in ThreadId : ~Turn(s, t)) => O = B
    /\ \A u \in Server : up[u] => \A p \in Elements(tcp[u]) :
          p.msg.kind = "SyncProc" => p.msg.req.id \in Share(O, B, u).ids
    /\ QueriesApart => \A i \in UpdateIds : Replied(i) => i \in B.ids

Level == \E O, B \in AllBooks : LevelOf(O, B)

-----------------------------------------------------------------------------
(* A server with a notification to read has lost its next server.          *)

\* What the others do to the datagrams and the next of a server.
LEMMA QueueMoves ==
  ASSUME PromptThreads, ChainInv, [Next]_vars, NEW u \in Server, up'[u], ~BankMaster
  PROVE  \/ udp'[u] = udp[u] /\ next'[u] = next[u]
         \/ \E m \in Text : /\ ~IsNoti(m) /\ udp'[u] = Append(udp[u], m)
                            /\ next'[u] = next[u]
         \/ /\ udp[u] # <<>> /\ udp'[u] = Tail(udp[u])
            /\ next'[u] = IF IsNoti(Head(udp[u])) THEN Head(udp[u]).port ELSE next[u]
  <1> USE BookTypes
  <1>1. ASSUME NEW s \in Server, BankStart(s) \/ Dies(s)
        PROVE  udp'[u] = udp[u] /\ next'[u] = next[u]
    BY <1>1 DEF BankStart, serverVars, Dies, Down
  <1>2. ASSUME NEW s \in Server, Works(s), s # u
        PROVE  udp'[u] = udp[u] /\ next'[u] = next[u]
    BY <1>2, WorksElsewhere
  <1>3. ASSUME Works(u), RecvNotification(u)
        PROVE  /\ udp[u] # <<>> /\ udp'[u] = Tail(udp[u])
               /\ next'[u] = IF IsNoti(Head(udp[u])) THEN Head(udp[u]).port ELSE next[u]
    BY <1>3 DEF RecvNotification, Datagram, TakeDatagram, IsNoti
  <1>4. ASSUME Works(u), DropRequest(u) \/ RecvRequest(u)
        PROVE  /\ udp[u] # <<>> /\ udp'[u] = Tail(udp[u])
               /\ next'[u] = IF IsNoti(Head(udp[u])) THEN Head(udp[u]).port ELSE next[u]
    BY <1>4 DEF DropRequest, RecvRequest, RequestWaiting, Datagram, TakeDatagram, IsNoti,
                NotiKind
  <1>5. ASSUME Works(u), ~RecvNotification(u), ~DropRequest(u), ~RecvRequest(u)
        PROVE  udp'[u] = udp[u] /\ next'[u] = next[u]
    BY <1>5 DEF Works, MainLoop, Synchronize, ExpireOnRequest, AcceptRequest,
                ExpireOnAccept, AcceptSyncSent, AcceptSyncSentNoNext, AcceptSyncProc,
                SyncSentTrans, SyncSentEnd, SyncProcTrans, SyncDone, wireVars
  <1>6. ASSUME NEW s \in Server, NEW t \in ThreadId, Runs(s, t)
        PROVE  udp'[u] = udp[u] /\ next'[u] = next[u]
    BY <1>6, RunsUp
  <1>7. CASE BankTimer \/ BankReceive
    <2>1. Raw(Current) \in Text /\ ~IsNoti(Raw(Current))
      BY CurrentType, RawType DEF IsNoti, Raw, NotiKind, ChainInv, BankInv, TypeOK
    <2>2. next' = next /\ (udp'[u] = udp[u] \/ udp'[u] = Append(udp[u], Raw(Current)))
      BY <1>7, ClientsElsewhere DEF serverVars
    <2> QED BY <2>1, <2>2
  <1>8. CASE UNCHANGED vars
    BY <1>8 DEF vars, wireVars, serverVars
  <1> QED BY <1>1, <1>2, <1>3, <1>4, <1>5, <1>6, <1>7, <1>8, StepKinds

\* The master writes to the server before the one it removes.
LEMMA NotifyWhom ==
  ASSUME ChainInv, NoJoins, BankMaster, NEW n \in notices, ServerNotify(n), udp' # udp
  PROVE  \E i \in DOMAIN chain, u \in Server, m \in NotiText :
            /\ u = chain[i] /\ Following(i) = n.srv /\ Dead(n.srv)
            /\ up[u] /\ udp' = [udp EXCEPT ![u] = Append(@, m)]
  <1>1. /\ chain \in Seq(Server) /\ n \in Notice /\ chain' \in Seq(Server)
    <2>1. chain \in Seq(Server) /\ n \in Notice
      BY BookTypes
    <2>2. MasterTypeOK'
      BY PromptMasterStep DEF ChainInv, BankInv, TypeOK, BankMaster
    <2> QED BY <2>1, <2>2 DEF MasterTypeOK
  <1>2. InChain(n.srv)
    BY DEF ServerNotify
  <1>3. PICK s \in Server : s = n.srv
    BY <1>1 DEF Notice
  <1>4. PICK k \in DOMAIN chain : k = IndexOf(n.srv) /\ chain[k] = s
    BY <1>2, <1>3, IndexFound DEF ChainInv, BankInv
  <1> DEFINE link == IF k \in DOMAIN chain' THEN chain'[k] ELSE NoServer
             kind == NotiOf(n.kind)
  <1>5. link \in Server \cup {NoServer} /\ kind \in NotiKind
    BY <1>1 DEF NotiKind, NotiOf
  <1>6. PICK p \in Server \cup {NoServer}, w \in NotiKind : p = link /\ w = kind
    BY <1>5
  <1>7. k # 1 /\ ToServer(chain[k - 1], Noti(w, p))
    BY <1>2, <1>4, <1>6 DEF ServerNotify
  <1>8. k - 1 \in DOMAIN chain /\ (k - 1) + 1 = k /\ k - 1 < Len(chain)
    BY <1>1, <1>7
  <1>9. PICK u \in Server : u = chain[k - 1]
    BY <1>1, <1>8
  <1>10. PICK m \in NotiText : m = Noti(w, p)
    BY NotiType
  <1>11. up[u] /\ udp' = [udp EXCEPT ![u] = Append(@, m)]
    BY <1>7, <1>9, <1>10 DEF ToServer
  <1>12. Dead(n.srv)
    BY <1>3 DEF ChainInv, Known, NoJoins, Dead
  <1>13. Following(k - 1) = n.srv
    BY <1>3, <1>4, <1>8 DEF Following
  <1> QED BY <1>8, <1>9, <1>11, <1>12, <1>13

LEMMA OutdatedNext ==
  ASSUME PromptThreads, LinkInv, NoJoins, Shrinks, Silent', Outdated, [Next]_vars
  PROVE  Outdated'
  <1>1. ChainInv /\ udp \in [Server -> Seq(Text)] /\ MembersTold
    BY BookTypes DEF LinkInv
  <1> DEFINE Late(p) == p \in Server /\ ~up'[p]
  <1>2. \A p : Dead(p) => Late(p)
    BY DEF Dead, Shrinks
  <1> SUFFICES ASSUME NEW s \in Server, NEW i \in DOMAIN udp'[s], IsNoti(udp'[s][i]),
                      NEW j \in DOMAIN udp'[s]
               PROVE  /\ Late(next'[s])
                      /\ j < i /\ IsNoti(udp'[s][j]) => Late(udp'[s][j].port)
    BY DEF Outdated, Dead
  <1> HIDE DEF Late
  <1>3. CASE ~up'[s]
    BY <1>3 DEF Silent, Blank
  <1>4. CASE udp'[s] = udp[s] /\ next'[s] = next[s]
    BY <1>2, <1>4 DEF Outdated
  <1>5. ASSUME NEW m \in Text, ~IsNoti(m), udp'[s] = Append(udp[s], m), next'[s] = next[s]
        PROVE  /\ Late(next'[s])
               /\ j < i /\ IsNoti(udp'[s][j]) => Late(udp'[s][j].port)
    <2>1. i \in DOMAIN udp[s] /\ udp'[s][i] = udp[s][i]
      BY <1>1, <1>5, AppendAt
    <2>2. (j \in DOMAIN udp[s] /\ udp'[s][j] = udp[s][j]) \/ ~IsNoti(udp'[s][j])
      BY <1>1, <1>5, AppendAt
    <2> QED BY <1>2, <1>5, <2>1, <2>2 DEF Outdated
  <1>6. ASSUME udp[s] # <<>>, udp'[s] = Tail(udp[s]),
               next'[s] = IF IsNoti(Head(udp[s])) THEN Head(udp[s]).port ELSE next[s]
        PROVE  /\ Late(next'[s])
               /\ j < i /\ IsNoti(udp'[s][j]) => Late(udp'[s][j].port)
    <2>1. /\ i + 1 \in DOMAIN udp[s] /\ udp'[s][i] = udp[s][i + 1]
          /\ j + 1 \in DOMAIN udp[s] /\ udp'[s][j] = udp[s][j + 1]
          /\ Head(udp[s]) = udp[s][1] /\ 1 \in DOMAIN udp[s]
      BY <1>1, <1>6, TailElements
    <2>2. i \in Nat /\ j \in Nat /\ 1 < i + 1 /\ (j < i => j + 1 < i + 1)
      BY <1>1, <1>6
    <2> QED BY <1>2, <1>6, <2>1, <2>2 DEF Outdated
  <1>7. CASE BankMaster
    <2>1. next' = next
      BY <1>1, <1>7, MasterElsewhere DEF serverVars
    <2>2. CASE udp' = udp
      BY <1>4, <2>1, <2>2
    <2>3. CASE udp' # udp
      <3>1. PICK n \in notices : ServerNotify(n)
        BY <1>1, <1>7, <2>3, MasterElsewhere
      <3>2. PICK k \in DOMAIN chain, u \in Server, m \in NotiText :
               /\ u = chain[k] /\ Following(k) = n.srv /\ Dead(n.srv)
               /\ up[u] /\ udp' = [udp EXCEPT ![u] = Append(@, m)]
        BY <1>1, <1>7, <2>3, <3>1, NotifyWhom
      <3>3. CASE s # u
        BY <1>1, <1>4, <2>1, <3>2, <3>3
      <3>4. CASE s = u
        <4>1. udp'[s] = Append(udp[s], m) /\ m \in Text
          BY <1>1, <3>2, <3>4 DEF Text
        <4>2. LastSays(udp[s], next[s], n.srv)
          BY <3>2, <3>4 DEF LinkInv, MembersTold, Told, Coming, NoJoins
        <4>3. ASSUME NEW h \in DOMAIN udp[s], IsNoti(udp[s][h])
              PROVE  Dead(udp[s][h].port) \/ \E l \in DOMAIN udp[s] : h < l /\ IsNoti(udp[s][l])
          BY <3>2, <4>2, <4>3 DEF LastSays
        <4>4. Dead(next[s])
          BY <3>2, <4>2 DEF LastSays, Outdated
        <4>5. ASSUME NEW h \in DOMAIN udp[s], IsNoti(udp[s][h])
              PROVE  Dead(udp[s][h].port)
          BY <4>3, <4>5 DEF Outdated
        <4>6. (j \in DOMAIN udp[s] /\ udp'[s][j] = udp[s][j]) \/ j = Len(udp[s]) + 1
          BY <1>1, <4>1, AppendAt
        <4>7. i \in DOMAIN udp[s] \/ i = Len(udp[s]) + 1
          BY <1>1, <4>1, AppendAt
        <4>8. j < i => j # Len(udp[s]) + 1
          BY <1>1, <4>7
        <4> QED BY <1>2, <2>1, <4>4, <4>5, <4>6, <4>8
      <3> QED BY <3>3, <3>4
    <2> QED BY <2>2, <2>3
  <1> QED BY <1>1, <1>3, <1>4, <1>5, <1>6, <1>7, QueueMoves

-----------------------------------------------------------------------------
(* The client knows the chain.                                             *)

\* A server that stays in the chain was in it, and the clients have been told of its
\* failure if they were before.
LEMMA MissingKept ==
  ASSUME PromptThreads, ChainInv, NoJoins, [Next]_vars, NEW s \in Server, InChain(s)'
  PROVE  InChain(s) /\ (Missing(s) => Missing(s)')
  <1>1. ASSUME chain' = chain, notices \subseteq notices'
        PROVE  InChain(s) /\ (Missing(s) => Missing(s)')
    BY <1>1 DEF InChain, Missing
  <1>2. CASE BankMaster
    <2>1. ASSUME NEW u \in Server, DetectFail(u) \/ DetectJoin(u)
          PROVE  InChain(s) /\ (Missing(s) => Missing(s)')
      BY <1>1, <2>1 DEF DetectFail, DetectJoin, NoJoins
    <2>2. ASSUME NEW n \in notices, ServerNotify(n), InChain(n.srv)
          PROVE  InChain(s) /\ (Missing(s) => Missing(s)')
      <3>1. n \in Notice /\ n.kind = "Fail" /\ chain \in Seq(Server) /\ Distinct(chain)
        BY BookTypes DEF NoJoins
      <3>2. PICK u \in Server : u = n.srv
        BY <3>1 DEF Notice
      <3>3. PICK k \in DOMAIN chain : k = IndexOf(n.srv) /\ chain[k] = u
        BY <2>2, <3>2, IndexFound DEF ChainInv, BankInv
      <3>4. chain' = Drop(chain, k) /\ notices' = notices \ {n}
        BY <2>2, <3>1, <3>3 DEF ServerNotify, Removed, Drop
      <3>5. Elements(chain') = Elements(chain) \ {u}
        BY <3>1, <3>3, <3>4, DropDistinct
      <3>6. s \in Elements(chain) /\ s # u
        BY <3>5 DEF InChain, Elements
      <3>7. [kind |-> "Fail", srv |-> s] # n
        BY <3>2, <3>6
      <3> QED BY <3>4, <3>6, <3>7 DEF InChain, Elements, Missing
    <2>3. ASSUME NEW n \in notices, ServerNotify(n), ~InChain(n.srv)
          PROVE  InChain(s) /\ (Missing(s) => Missing(s)')
      <3>1. chain' = chain /\ notices' = notices \ {n}
        BY <2>3 DEF ServerNotify
      <3>2. InChain(s)
        BY <3>1 DEF InChain
      <3> QED BY <2>3, <3>1, <3>2 DEF Missing
    <2> QED BY <1>2, <2>1, <2>2, <2>3 DEF BankMaster
  <1>3. CASE ~BankMaster
    <2>1. chain' = chain /\ notices' = notices
      <3>1. CASE \E u \in Server : BankStart(u) \/ Dies(u) \/ Works(u)
        BY <3>1 DEF BankStart, Dies, Works, masterVars
      <3>2. CASE \E u \in Server, t \in ThreadId : Runs(u, t)
        BY <3>2 DEF Runs, masterVars
      <3>3. CASE BankTimer \/ BankReceive \/ UNCHANGED vars
        BY <3>3, ClientsElsewhere DEF masterVars, vars
      <3> QED BY <1>3, <3>1, <3>2, <3>3, StepKinds
    <2> QED BY <1>1, <2>1
  <1> QED BY <1>2, <1>3

\* The client forgets a server it reads the failure of.
LEMMA ViewMoves ==
  ASSUME PromptThreads, ChainInv, FailsTrue, [Next]_vars, NEW s \in Elements(view)
  PROVE  \/ s \in Elements(view')
         \/ \E m \in Elements(inbox) : m.kind = "Fail" /\ m.port = s
  <1>1. CASE RecvFail \/ RecvExtension
    <2>1. inbox # <<>> /\ Head(inbox).kind # "Reply"
      BY <1>1 DEF RecvFail, RecvExtension, Arrived
    <2>2. Head(inbox) \in Elements(inbox)
      BY <2>1, ClientTypes, TailElements
    <2>3. PICK m \in Elements(inbox) : m = Head(inbox) /\ m.kind = "Fail"
      BY <2>1, <2>2 DEF FailsTrue
    <2>4. view' = RemoveServer(m.port)
      BY <1>1, <2>3 DEF RecvFail, RecvExtension, Arrived
    <2>5. CASE m.port \notin Elements(view)
      BY <2>4, <2>5 DEF RemoveServer, Elements
    <2>6. ASSUME m.port \in Elements(view), s # m.port
          PROVE  s \in Elements(view')
      <3>1. PICK k \in DOMAIN view : view[k] = m.port /\ view' = Drop(view, k)
        BY <2>4, <2>6, FirstViewed DEF Elements
      <3>2. view \in Seq(Server \cup {NoServer})
        BY ClientTypes
      <3>3. /\ Drop(view, k) \in Seq(Server \cup {NoServer})
            /\ Len(Drop(view, k)) = Len(view) - 1
            /\ \A i \in 1..(Len(view) - 1) :
                  Drop(view, k)[i] = IF i < k THEN view[i] ELSE view[i + 1]
        BY ONLY k \in DOMAIN view, <3>2, DropIndex
      <3>4. /\ DOMAIN view' = 1..(Len(view) - 1) /\ DOMAIN view = 1..Len(view)
            /\ Len(view) \in Nat
            /\ \A i \in 1..(Len(view) - 1) :
                  view'[i] = IF i < k THEN view[i] ELSE view[i + 1]
        BY <3>1, <3>2, <3>3
      <3>5. PICK h \in DOMAIN view : view[h] = s /\ h # k
        BY <2>6, <3>1 DEF Elements
      <3>6. PICK i \in DOMAIN view' : view'[i] = s
        <4>1. CASE h < k
          BY <3>4, <3>5, <4>1
        <4>2. CASE h > k
          <5>1. h - 1 \in DOMAIN view' /\ view'[h - 1] = view[h]
            BY <3>4, <4>2
          <5> QED BY <3>5, <5>1
        <4> QED BY <3>4, <3>5, <4>1, <4>2
      <3> QED BY <3>6 DEF Elements
    <2> QED BY <2>3, <2>5, <2>6
  <1>2. CASE ~(RecvFail \/ RecvExtension)
    <2>1. view' = view
      <3>1. CASE \E u \in Server : BankStart(u) \/ Dies(u) \/ Works(u)
        BY <3>1 DEF BankStart, Dies, Works, clientVars
      <3>2. CASE \E u \in Server, t \in ThreadId : Runs(u, t)
        BY <3>2 DEF Runs, clientVars
      <3>3. CASE BankTimer
        BY <3>3 DEF BankTimer, OpenSocket, SendRequest, Resend, GiveUp
      <3>4. CASE BankReceive
        BY <1>2, <3>4 DEF BankReceive, RecvReply
      <3>5. CASE BankMaster \/ UNCHANGED vars
        BY <3>5 DEF BankMaster, vars, clientVars
      <3> QED BY <3>1, <3>2, <3>3, <3>4, <3>5, StepKinds
    <2> QED BY <2>1
  <1> QED BY <1>1, <1>2

LEMMA ViewFullNext ==
  ASSUME PromptThreads, ChainInv, PlaceInv, ViewFull, [Next]_vars
  PROVE  ViewFull'
  <1>1. NoJoins /\ FailsTrue
    BY DEF PlaceInv
  <1>2. ASSUME NEW s \in Server, InChain(s)'
        PROVE  Missing(s)' \/ s \in Elements(view')
    BY <1>1, <1>2, MissingKept, ViewMoves DEF ViewFull
  <1>3. ASSUME NEW m \in Elements(inbox'), m.kind = "Fail", InChain(m.port)'
        PROVE  Missing(m.port)'
    <2>1. m.port \in Server
      <3>1. chain' \in Seq(Server)
        BY NextInv DEF ChainInv, BankInv, TypeOK, MasterTypeOK
      <3> QED BY <1>3, <3>1 DEF InChain
    <2>2. CASE m \in Elements(inbox)
      BY <1>1, <1>3, <2>1, <2>2, MissingKept DEF ViewFull
    <2>3. CASE BankMaster /\ m \notin Elements(inbox)
      <3>1. ASSUME NEW n \in notices, ServerNotify(n)
            PROVE  FALSE
        BY <2>3, <3>1 DEF ServerNotify
      <3>2. PICK u \in Server : DetectFail(u)
        BY <1>1, <2>3, <3>1 DEF BankMaster, DetectJoin, NoJoins
      <3>3. PICK q \in NotiText : q = Noti("Fail", u) /\ q.kind = "Fail" /\ q.port = u
        BY NotiFields
      <3>4. inbox' = inbox \/ inbox' = Append(inbox, q)
        BY <3>2, <3>3 DEF DetectFail, ToClients
      <3>5. Elements(Append(inbox, q)) = Elements(inbox) \cup {q}
        BY ClientTypes, AppendElements
      <3>6. m.port = u
        BY <2>3, <3>3, <3>4, <3>5
      <3> QED BY <3>2, <3>6 DEF DetectFail, Missing
    <2>4. m.kind # "Reply"
      BY <1>3
    <2> QED BY <1>1, <2>2, <2>3, <2>4, InboxFrom
  <1>4. \A m \in Elements(inbox') : m.kind = "Fail" /\ InChain(m.port)' => Missing(m.port)'
    BY <1>3
  <1> QED BY <1>2, <1>4 DEF ViewFull

-----------------------------------------------------------------------------
(* Who changes what.                                                       *)

\* What the others leave of a thread.
LEMMA Undisturbed ==
  ASSUME OrderInv, [Next]_vars, NEW u \in Server, up'[u], ~Works(u),
         NEW w \in ThreadId, ~Runs(u, w)
  PROVE  \/ thr'[u][w] = thr[u][w]
         \/ Waiting(u, w) /\ thr'[u][w] = WithAck(thr[u][w], "eof")
         \/ /\ Waiting(u, w) /\ thr'[u][w] = WithAck(thr[u][w], "acked")
            /\ \E s \in Server, t \in ThreadId :
                  Runs(s, t) /\ (SyncAcked(s, t) \/ ReplyAck(s, t))
  <1>1. ChainInv /\ Downward /\ Shaped(thr[u][w])
    BY DEF OrderInv, Shape
  <1>2. ASSUME thr[u][w].peer \in Server, thr[u][w].ack = "none"
        PROVE  Waiting(u, w)
    BY <1>1, <1>2, WireAssumption DEF Shaped, Waiting
  <1>3. CASE \/ \E s \in Server : BankStart(s)
             \/ BankTimer \/ BankReceive \/ BankMaster \/ UNCHANGED vars
    <2>1. UNCHANGED serverVars
      BY <1>1, <1>3, ClientsElsewhere, MasterElsewhere DEF BankStart, vars
    <2> QED BY <2>1 DEF serverVars
  <1>4. ASSUME NEW s \in Server, Dies(s)
        PROVE  \/ thr'[u][w] = thr[u][w]
               \/ Waiting(u, w) /\ thr'[u][w] = WithAck(thr[u][w], "eof")
    <2>1. Down(s) /\ u # s
      BY <1>1, <1>4, BookTypes DEF Dies, Down
    <2> QED BY <1>1, <1>2, <2>1, DownThread
  <1>5. ASSUME NEW s \in Server, Works(s)
        PROVE  thr'[u][w] = thr[u][w]
    BY <1>1, <1>5, WorksElsewhere
  <1>6. ASSUME NEW s \in Server, NEW t \in ThreadId, Runs(s, t),
               SyncAcked(s, t) \/ ReplyAck(s, t)
        PROVE  \/ thr'[u][w] = thr[u][w]
               \/ Waiting(u, w) /\ thr'[u][w] = WithAck(thr[u][w], "acked")
    <2>1. CASE u = s
      BY <1>1, <1>6, <2>1, RunsSelf
    <2>2. CASE u # s
      BY <1>1, <1>2, <1>6, <2>2, RunsOthers
    <2> QED BY <2>1, <2>2
  <1>7. ASSUME NEW s \in Server, NEW t \in ThreadId, Runs(s, t),
               ~SyncAcked(s, t), ~ReplyAck(s, t)
        PROVE  thr'[u][w] = thr[u][w]
    BY <1>1, <1>7, RunsAlone
  <1> QED BY <1>3, <1>4, <1>5, <1>6, <1>7, StepKinds DEF OrderInv

\* How a server ends when nobody is killed.
LEMMA Deaths ==
  ASSUME Timing, MaxKills = 0, ChainInv, [Next]_vars, NEW s \in Server, up[s], ~up'[s]
  PROVE  \/ ~Busy(s) /\ (ExpireOnRequest(s) \/ ExpireOnAccept(s) \/ AcceptSyncSentNoNext(s))
         \/ \E t \in ThreadId : SyncNullNext(s, t) \/ ReplyNowhere(s, t)
  <1>1. PromptThreads /\ kills = 0
    BY DEF Timing, ChainInv, BankInv, TypeOK
  <1>2. ASSUME NEW u \in Server, Down(u)
        PROVE  u = s
    BY <1>2, BookTypes DEF Down
  <1>3. ASSUME NEW u \in Server, BankKill(u)
        PROVE  FALSE
    BY <1>1, <1>3 DEF BankKill
  <1>4. ASSUME NEW u \in Server, BankStart(u)
        PROVE  FALSE
    BY <1>4, BookTypes DEF BankStart
  <1>5. ASSUME NEW u \in Server, BankMain(u)
        PROVE  ~Busy(s) /\ (ExpireOnRequest(s) \/ ExpireOnAccept(s) \/ AcceptSyncSentNoNext(s))
    <2>1. ~Busy(u) /\ (MainLoop(u) \/ Synchronize(u))
      BY <1>1, <1>5 DEF BankMain
    <2>2. CASE ExpireOnRequest(u) \/ ExpireOnAccept(u)
      BY <1>2, <2>1, <2>2 DEF ExpireOnRequest, ExpireOnAccept
    <2>3. CASE AcceptSyncSentNoNext(u)
      BY <1>2, <2>1, <2>3 DEF AcceptSyncSentNoNext
    <2>4. CASE ~ExpireOnRequest(u) /\ ~ExpireOnAccept(u) /\ ~AcceptSyncSentNoNext(u)
      BY <2>1, <2>4 DEF MainLoop, Synchronize, RecvNotification, DropRequest, RecvRequest,
           AcceptRequest, AcceptSyncSent, AcceptSyncProc, SyncSentTrans, SyncSentEnd, SyncProcTrans,
           SyncDone, wireVars
    <2> QED BY <2>2, <2>3, <2>4
  <1>6. ASSUME NEW u \in Server, NEW t \in ThreadId, BankThread(u, t)
        PROVE  SyncNullNext(s, t) \/ ReplyNowhere(s, t)
    <2>1. CASE SyncNullNext(u, t) \/ ReplyNowhere(u, t)
      BY <1>2, <2>1 DEF SyncNullNext, ReplyNowhere
    <2>2. CASE ~SyncNullNext(u, t) /\ ~ReplyNowhere(u, t)
      BY <1>6, <2>2 DEF BankThread, ThreadStep, SyncConnect, SyncAdd, SyncEof, SyncAcked,
           SyncHist, ReplyStart, ProcCheck, ProcApply, ReplySend, ReplyHist, ReplyAck, wireVars
    <2> QED BY <2>1, <2>2
  <1>7. CASE BankTimer \/ BankReceive \/ BankMaster
    BY <1>7, ClientsElsewhere, MasterElsewhere
  <1>8. CASE Finished \/ UNCHANGED vars
    BY <1>8 DEF Finished, vars, wireVars
  <1>9. /\ \A u \in Server : ~BankOverlap(u)
        /\ \A m \in MasterThread : ~BankMasterOverlap(m)
    BY <1>1 DEF BankOverlap, BankMasterOverlap, ChainInv
  <1> QED BY <1>3, <1>4, <1>5, <1>6, <1>7, <1>8, <1>9 DEF Next

\* A server ends with the request it would take, or if it has lost its next server.
LEMMA WaiterLives ==
  ASSUME Timing, MaxKills = 0, OrderInv, [Next]_vars, NEW u \in Server, up[u], NextUp(u),
         \A k \in Form, a \in Spot : ~Front(u, k, a)
  PROVE  up'[u]
  <1>1. ChainInv
    BY DEF OrderInv
  <1>2. ASSUME ExpireOnRequest(u)
        PROVE  FALSE
    <2>1. RequestWaiting(u)
      BY <1>2 DEF ExpireOnRequest
    <2> QED BY <1>1, <2>1, TakesFront
  <1>3. ASSUME ExpireOnAccept(u)
        PROVE  FALSE
    <2>1. tcp[u] # <<>> /\ "Normal" \in SyncTypes(Head(tcp[u]).msg)
      BY <1>3 DEF ExpireOnAccept, Accepts
    <2>2. Head(tcp[u]).msg.kind \notin {"SyncSent", "SyncProc"}
      BY <2>1 DEF SyncTypes
    <2>3. Head(tcp[u]) = tcp[u][1] /\ 1 \in DOMAIN tcp[u]
      BY <1>1, <2>1, BookTypes, TailElements
    <2>4. Front(u, "tcp", 1)
      BY <2>2, <2>3 DEF Front
    <2> QED BY <2>4 DEF Form, Spot
  <1>4. ~AcceptSyncSentNoNext(u)
    BY DEF AcceptSyncSentNoNext
  <1>5. ASSUME NEW t \in ThreadId, SyncNullNext(u, t) \/ ReplyNowhere(u, t)
        PROVE  FALSE
    <2>1. Front(u, "thr", t)
      BY <1>5 DEF SyncNullNext, ReplyNowhere, At, Front, Carries
    <2> QED BY <2>1 DEF Form, Spot
  <1> QED BY <1>1, <1>2, <1>3, <1>4, <1>5, Deaths

\* Whoever's turn it is stays.
LEMMA TurnLives ==
  ASSUME Timing, MaxKills = 0, WayInv, Addressed, [Next]_vars,
         NEW s \in Server, NEW t \in ThreadId, Turn(s, t)
  PROVE  up[s] /\ up'[s] /\ ~Works(s)
  <1>1. OrderInv /\ ChainInv /\ OneRequest /\ Shaped(thr[s][t])
    BY DEF WayInv, OrderInv, Shape
  <1>2. up[s]
    BY <1>1, Present DEF Turn
  <1>3. Front(s, "thr", t) /\ "thr" \in Form /\ ThreadId \subseteq Spot
    BY DEF Turn, Front, Form, Spot
  <1>4. Runnable(s, t)
    BY <1>1, <1>2 DEF Runnable, Turn, Carries, Shaped
  <1>5. ASSUME NEW w \in ThreadId, SyncNullNext(s, w) \/ ReplyNowhere(s, w)
        PROVE  FALSE
    <2>1. Front(s, "thr", w)
      BY <1>5 DEF SyncNullNext, ReplyNowhere, At, Front, Carries
    <2>2. w = t
      BY <1>1, <1>3, <2>1 DEF OneRequest
    <2> QED BY <1>1, <1>5, <2>2 DEF SyncNullNext, ReplyNowhere, At, Turn, Addressed, Shaped
  <1>6. up'[s]
    BY <1>1, <1>2, <1>4, <1>5, Deaths DEF Busy
  <1> QED BY <1>2, <1>4, <1>6 DEF Works, Busy, Timing

-----------------------------------------------------------------------------
(* Where a request comes from.                                             *)

\* A request at s was there before, with the same connection back, and its text
\* is the same as long as somebody is going to read it.
Stays(s, k, a) ==
    \E j \in Form, b \in Spot :
        /\ Front(s, j, b)
        /\ What(s, k, a)' = What(s, j, b) /\ Back(s, k, a)' = Back(s, j, b)
        /\ ~Begun(s, k, a)' => ~Begun(s, j, b) /\ TextOf(s, k, a)' = TextOf(s, j, b)

AllStay == \A s \in Server, k \in Form, a \in Spot : Front(s, k, a)' => Stays(s, k, a)

\* The client sends to v, when there is no other request.
Sends(v) ==
    /\ Quiet /\ up[v] /\ v = SearchServer(Current) /\ view # <<>>
    /\ UNCHANGED <<tcp, serverVars, up, chain>>
    /\ udp' = [udp EXCEPT ![v] = Append(@, Raw(Current))]

Passes(s, t) == Runs(s, t) /\ SyncConnect(s, t) /\ NextUp(s)

PassesBack(s, t) == Runs(s, t) /\ (SyncAcked(s, t) \/ ReplyAck(s, t))

\* A thread that carries a request keeps it, and what it will read of the buffer.
Bears(u, w) ==
    /\ Keeps(u, w)
    /\ thr'[u][w].pc \in {"connect", "start"} =>
          thr[u][w].pc \in {"connect", "start"} /\ buf'[u] = buf[u]

LEMMA ReadsStay ==
  ASSUME ChainInv, NEW l, NEW k, Reads(l, k),
         \A u \in Server, w \in ThreadId : Bears(u, w)
  PROVE  AllStay
  <1> SUFFICES ASSUME NEW s \in Server, NEW j \in Form, NEW a \in Spot, Front(s, j, a)'
               PROVE  Stays(s, j, a)
    BY DEF AllStay
  <1>1. CASE j = "thr"
    <2>1. a \in ThreadId /\ Carries(s, a)'
      BY <1>1 DEF Front
    <2>2. Carries(s, a) /\ Args(s, a)' = Args(s, a)
      BY <2>1 DEF Bears, Keeps
    <2>3. Begun(s, j, a) => Begun(s, j, a)'
      BY <1>1, <2>1 DEF Bears, Begun
    <2>4. ~Begun(s, j, a)' => buf'[s] = buf[s]
      BY <1>1, <2>1 DEF Bears, Begun
    <2>5. Front(s, j, a)
      BY <1>1, <2>1, <2>2 DEF Front
    <2> QED BY <1>1, <2>2, <2>3, <2>4, <2>5 DEF Stays, What, Back, TextOf
  <1>2. CASE j \in {"udp", "tcp"}
    <2>1. PICK b \in Spot : /\ Front(s, j, b) /\ Item(s, j, a)' = Item(s, j, b)
                            /\ Back(s, j, a)' = Back(s, j, b)
      <3>1. CASE s = l /\ j = k
        BY <1>2, <3>1, QueueFronts
      <3>2. CASE ~(s = l /\ j = k)
        BY <1>2, <3>2, QueueFronts
      <3> QED BY <3>1, <3>2
    <2>2. What(s, j, a)' = What(s, j, b) /\ TextOf(s, j, a)' = TextOf(s, j, b)
      BY <1>2, <2>1 DEF What, TextOf, Item
    <2>3. ~Begun(s, j, b)
      BY <1>2 DEF Begun
    <2> QED BY <2>1, <2>2, <2>3 DEF Stays
  <1> QED BY <1>1, <1>2 DEF Form

\* The request is at one place after the step.
LEMMA OneStays ==
  ASSUME NEW v \in Server, NEW l \in Form, NEW b \in Spot, Stays(v, l, b),
         OneRequest', Front(v, l, b)'
  PROVE  AllStay
  BY DEF AllStay, OneRequest

LEMMA QuietStay ==
  ASSUME ChainInv, UNCHANGED <<tcp, args, thr, buf>>,
         \A u \in Server : \/ udp'[u] = udp[u]
                           \/ \E m : NoRequest(m) /\ udp'[u] = Append(udp[u], m)
  PROVE  AllStay
  <1>1. \A u \in Server, w \in ThreadId : Bears(u, w)
    BY DEF Bears, Keeps, Carries, Args
  <1>2. PICK k : k = "thr"
    OBVIOUS
  <1>3. Reads(k, k)
    BY <1>2 DEF Reads
  <1> QED BY <1>1, <1>3, ReadsStay

\* Main starts a thread for it.
LEMMA TakesStay ==
  ASSUME ChainInv, NEW s \in Server, RecvRequest(s) \/ AcceptRequest(s), OneRequest'
  PROVE  AllStay
  <1>1. PICK c \in {"udp", "tcp"} : IF c = "udp" THEN RecvRequest(s) ELSE AcceptRequest(s)
    OBVIOUS
  <1>2. Front(s, c, 1) /\ 1 \in Spot /\ c \in Form /\ "thr" \in Form /\ ThreadId \subseteq Spot
    BY <1>1, TakesFront DEF RecvRequest
  <1>3. Spawn(s, c) /\ c \in Chan
    BY <1>1 DEF RecvRequest, AcceptRequest, Chan
  <1>4. /\ args'[s][c].req = What(s, c, 1) /\ args'[s][c].conn = Back(s, c, 1)
        /\ buf'[s] = TextOf(s, c, 1)
    <2>1. CASE c = "udp"
      <3>1. Head(udp[s]) = udp[s][1]
        BY <1>1, <2>1, BookTypes, TailElements DEF RecvRequest, RequestWaiting, Datagram
      <3> QED BY <1>1, <2>1, <3>1, BookTypes DEF RecvRequest, TakeDatagram, What, Back,
                 TextOf, Chan
    <2>2. CASE c = "tcp"
      <3>1. Head(tcp[s]) = tcp[s][1]
        BY <1>1, <2>2, BookTypes, TailElements DEF AcceptRequest, Accepts
      <3> QED BY <1>1, <2>2, <3>1, BookTypes DEF AcceptRequest, TakePacket, What, Back,
                 TextOf, Chan
    <2> QED BY <2>1, <2>2
  <1>5. PICK t \in ThreadId :
           /\ thr'[s][t].pc = IF isTail(s) THEN "start" ELSE "connect"
           /\ thr'[s][t].chan = c
    BY <1>3, SpawnThread
  <1>6. Front(s, "thr", t)'
    BY <1>5 DEF Front, Carries
  <1>7. /\ What(s, "thr", t)' = What(s, c, 1) /\ Back(s, "thr", t)' = Back(s, c, 1)
        /\ TextOf(s, "thr", t)' = TextOf(s, c, 1)
    BY <1>4, <1>5 DEF What, Back, TextOf, Args
  <1>8. ~Begun(s, c, 1)
    BY DEF Begun
  <1>9. Stays(s, "thr", t)
    BY <1>2, <1>7, <1>8 DEF Stays
  <1> QED BY <1>2, <1>6, <1>9, OneStays

\* Nothing the client wrote is taken for a request to keep as sent, at a server that
\* could pass it on.
LEMMA NoForward ==
  ASSUME Itemized, ChainInv, TextsPlain, Sought, NEW s \in Server,
         AcceptSyncSent(s), ~isTail(s)
  PROVE  Head(tcp[s]).msg.kind \in {"SyncSent", "SyncProc"}
  <1> SUFFICES ASSUME Head(tcp[s]).msg.kind \notin {"SyncSent", "SyncProc"}
               PROVE  FALSE
    OBVIOUS
  <1>1. tcp[s] # <<>> /\ "SyncSent" \in SyncTypes(Head(tcp[s]).msg)
    BY DEF AcceptSyncSent, Accepts
  <1>2. Head(tcp[s]) = tcp[s][1] /\ 1 \in DOMAIN tcp[s]
    BY <1>1, BookTypes, TailElements
  <1>3. Front(s, "tcp", 1) /\ "tcp" \in Form /\ 1 \in Spot /\ ~Begun(s, "tcp", 1)
    BY <1>2 DEF Front, Form, Spot, Begun
  <1>4. PICK m \in Text : m = Head(tcp[s]).msg
    BY <1>1, HeadPacketType, BankInvNow DEF ChainInv, AcceptSyncSent, Accepts
  <1>5. Plain(m)
    BY <1>2, <1>3, <1>4 DEF TextsPlain, TextOf
  <1>6. m.req.type = "Query"
    BY <1>1, <1>4, <1>5 DEF SyncTypes, Plain
  <1>7. m \in RequestText
    BY <1>5 DEF Plain, Text, NotiText, NotiKind
  <1>8. What(s, "tcp", 1) = m.req
    BY <1>2, <1>4, <1>7 DEF What, Parse
  <1> QED BY <1>3, <1>6, <1>8 DEF Sought, isTail

\* A client sends when there is no other request.
LEMMA ClientsStay ==
  ASSUME Timing, ChainInv, PlaceInv, BankTimer \/ BankReceive
  PROVE  AllStay \/ \E v \in Server : Sends(v)
  <1>1. UNCHANGED <<tcp, serverVars, up, chain>>
    BY ClientsElsewhere DEF masterVars
  <1>2. CASE udp' = udp
    BY <1>1, <1>2, QuietStay DEF serverVars
  <1>3. CASE udp' # udp
    <2>1. PICK v \in Server :
             /\ v = SearchServer(Current) /\ up[v]
             /\ udp' = [udp EXCEPT ![v] = Append(@, Raw(Current))]
      BY <1>3 DEF BankTimer, BankReceive, OpenSocket, SendRequest, Resend, GiveUp,
                  RecvReply, RecvFail, RecvExtension, ToServer
    <2>2. Quiet
      BY <1>3 DEF BankTimer, BankReceive, OpenSocket, GiveUp, RecvReply, RecvFail,
                  RecvExtension, Timing
    <2>3. view # <<>>
      <3>1. PICK i \in DOMAIN view : view[i] = v
        BY <2>1 DEF PlaceInv, ViewOrdered
      <3>2. DOMAIN <<>> = {}
        OBVIOUS
      <3> QED BY <3>1, <3>2
    <2>4. Sends(v)
      BY <1>1, <2>1, <2>2, <2>3 DEF Sends
    <2> QED BY <2>4
  <1> QED BY <1>2, <1>3

\* Main, when it takes no request.
LEMMA WorksStay ==
  ASSUME WayInv, PromptThreads, NEW s \in Server, Works(s),
         ~RecvRequest(s), ~AcceptRequest(s),
         AcceptSyncSent(s) =>
            isTail(s) \/ Head(tcp[s]).msg.kind \in {"SyncSent", "SyncProc"}
  PROVE  AllStay
  <1>1. ChainInv
    BY DEF WayInv, OrderInv
  <1>2. thr' = thr /\ args' = args
    BY WorksReads
  <1>3. PICK k : Reads(s, k)
    BY WorksReads
  <1>4. ASSUME NEW u \in Server, NEW w \in ThreadId
        PROVE  Bears(u, w)
    <2>1. Keeps(u, w)
      BY <1>2 DEF Keeps, Carries, Args
    <2>2. CASE u = s
      <3>1. thr[s][w].pc \in {"idle", "wait"}
        BY <1>1, WorksThreads
      <3> QED BY <1>2, <2>1, <2>2, <3>1 DEF Bears
    <2>3. CASE u # s
      BY <1>1, <1>2, <2>1, <2>3, BufferKept DEF Bears
    <2> QED BY <2>2, <2>3
  <1> QED BY <1>1, <1>3, <1>4, ReadsStay

\* A thread, when it hands nothing over.
LEMMA RunsStay ==
  ASSUME WayInv, NEW s \in Server, NEW t \in ThreadId, Runs(s, t),
         ~SyncAcked(s, t), ~ReplyAck(s, t), SyncConnect(s, t) => ~NextUp(s)
  PROVE  AllStay
  <1>1. ChainInv /\ Downward
    BY DEF WayInv, OrderInv
  <1>2. PICK k : k = "thr"
    OBVIOUS
  <1>3. Reads(k, k)
    BY <1>2, RunsKeeps
  <1>4. thr'[s][t].pc \notin {"connect", "start"}
    <2>1. CASE SyncConnect(s, t) \/ SyncEof(s, t) \/ SyncHist(s, t)
      BY <1>1, <2>1, RunsThread, IdleFields
    <2>2. CASE SyncAdd(s, t) \/ ReplyStart(s, t) \/ ProcCheck(s, t) \/ ReplySend(s, t)
               \/ ReplyHist(s, t)
      <3>1. \/ Moved(s, t, "add", "wait") \/ Moved(s, t, "start", "check")
            \/ Moved(s, t, "check", "apply") \/ Moved(s, t, "send", "hist")
            \/ Moved(s, t, "hist", "ack")
        BY <1>1, <2>2, RunsThread
      <3> QED BY <3>1 DEF Moved
    <2>3. CASE ProcApply(s, t)
      <3>1. Moved(s, t, "apply", IF thr[s][t].role = "Reply" THEN "send" ELSE "hist")
        BY <1>1, <2>3, RunsThread
      <3> QED BY <3>1 DEF Moved
    <2> QED BY <2>1, <2>2, <2>3 DEF Runs, ThreadStep, SyncNullNext, ReplyNowhere
  <1>5. buf' = buf
    BY <1>1, BufferKept
  <1>6. ASSUME NEW u \in Server, NEW w \in ThreadId
        PROVE  Bears(u, w)
    <2>1. Keeps(u, w)
      BY RunsKeeps
    <2>2. u # s \/ w # t => thr'[u][w] = thr[u][w]
      BY <1>1, RunsAlone
    <2> QED BY <1>4, <1>5, <2>1, <2>2 DEF Bears
  <1> QED BY <1>1, <1>3, <1>6, ReadsStay

\* A process that ends leaves the others' threads what they carry.
LEMMA DiesStay ==
  ASSUME WayInv, NEW s \in Server, Dies(s)
  PROVE  AllStay
  <1>1. ChainInv /\ Down(s)
    BY DEF WayInv, OrderInv, Dies
  <1>2. PICK k : k = "thr"
    OBVIOUS
  <1>3. Reads(k, k)
    BY <1>2, DiesKeeps
  <1>4. ASSUME NEW u \in Server, NEW w \in ThreadId
        PROVE  Bears(u, w)
    <2>1. Keeps(u, w)
      BY DiesKeeps
    <2>2. CASE u = s
      <3>1. thr'[u][w] = Idle
        BY <1>1, <2>2, DownThread
      <3> QED BY <2>1, <3>1, IdleFields DEF Bears
    <2>3. CASE u # s
      <3>1. thr'[u][w] = thr[u][w] \/ thr'[u][w] = WithAck(thr[u][w], "eof")
        BY <1>1, <2>3, DownThread
      <3>2. thr'[u][w].pc = thr[u][w].pc
        BY <1>1, <3>1, BookTypes, WithAckFields
      <3>3. buf'[u] = buf[u]
        BY <1>1, <2>3, BookTypes DEF Down
      <3> QED BY <2>1, <3>2, <3>3 DEF Bears
    <2> QED BY <2>2, <2>3
  <1> QED BY <1>1, <1>3, <1>4, ReadsStay

\* Every step.
LEMMA Moves ==
  ASSUME Timing, Itemized, BookInv, BookInv', PlaceInv, TextsPlain, Sought, [Next]_vars
  PROVE  \/ \E s \in Server, t \in ThreadId : PassesBack(s, t) \/ Passes(s, t)
         \/ \E v \in Server : Sends(v)
         \/ AllStay
  <1>1. WayInv /\ ChainInv /\ ChainInv' /\ OneRequest' /\ PromptThreads
    BY DEF BookInv, WayInv, OrderInv, Timing
  <1>2. ASSUME NEW s \in Server, BankStart(s)
        PROVE  FALSE
    BY <1>2 DEF BankStart, PlaceInv, NoJoins
  <1>3. ASSUME NEW s \in Server, Works(s)
        PROVE  AllStay
    BY <1>1, <1>3, TakesStay, NoForward, WorksStay
  <1>4. ASSUME NEW s \in Server, NEW t \in ThreadId, Runs(s, t),
               ~PassesBack(s, t), ~Passes(s, t)
        PROVE  AllStay
    BY <1>1, <1>4, RunsStay DEF PassesBack, Passes
  <1>5. CASE BankMaster
    <2>1. UNCHANGED <<tcp, args, thr, buf>>
      BY <1>1, <1>5, MasterElsewhere DEF serverVars
    <2>2. \A u \in Server : \/ udp'[u] = udp[u]
                            \/ \E m : NoRequest(m) /\ udp'[u] = Append(udp[u], m)
      BY <1>1, <1>5, MasterWrites
    <2> QED BY <1>1, <2>1, <2>2, QuietStay
  <1>6. CASE UNCHANGED vars
    BY <1>1, <1>6, QuietStay DEF vars, wireVars, serverVars
  <1> QED BY <1>1, <1>2, <1>3, <1>4, <1>5, <1>6, DiesStay, ClientsStay, StepKinds

-----------------------------------------------------------------------------
(* The request has left a thread waiting everywhere before.                *)

\* A server that forwards goes on doing so while its next server is there.
LEMMA NextKept ==
  ASSUME PromptThreads, ChainInv, Downward, Outdated, [Next]_vars,
         NEW u \in Server, up'[u], ~Dead(next[u])
  PROVE  next'[u] = next[u]
  <1>1. ASSUME NEW m \in Elements(udp[u]), IsNoti(m)
        PROVE  FALSE
    BY <1>1 DEF Elements, Outdated
  <1> QED BY <1>1, NotisKept

\* A thread waits on, unless it is acknowledged.
LEMMA WaitsKept ==
  ASSUME WayInv, PromptThreads, PlaceInv, Outdated, [Next]_vars, NEW d \in Conn, NEW r,
         Waits(d, r), up'[d.srv], up'[next[d.srv]],
         \A k \in Form, a \in Spot : ~Front(d.srv, k, a),
         \/ \A s \in Server, t \in ThreadId : ~PassesBack(s, t)
         \/ thr'[d.srv][d.thr] = thr[d.srv][d.thr] /\ args' = args
  PROVE  /\ Waits(d, r)' /\ Args(d.srv, d.thr)' = Args(d.srv, d.thr)
         /\ next'[d.srv] = next[d.srv]
  <1>1. OrderInv /\ ChainInv /\ Downward /\ NoJoins
    BY DEF WayInv, OrderInv, PlaceInv
  <1>2. PICK u \in Server, w \in ThreadId : u = d.srv /\ w = d.thr
    BY DEF Conn, Waits
  <1>3. Waiting(u, w) /\ NextUp(u) /\ thr[u][w].peer = next[u] /\ up[u] /\ up'[u]
    BY <1>2 DEF Waits
  <1>4. next'[u] = next[u]
    BY <1>1, <1>3, NextKept DEF Dead, NextUp
  <1>5. NextUp(u)'
    BY <1>2, <1>3, <1>4 DEF NextUp
  <1>6. ASSUME args'[u] = args[u], Waiting(u, w)', thr'[u][w].peer = thr[u][w].peer,
               thr'[u][w].chan = thr[u][w].chan
        PROVE  Waits(d, r)' /\ Args(d.srv, d.thr)' = Args(d.srv, d.thr)
    BY <1>2, <1>3, <1>4, <1>5, <1>6 DEF Waits, Args
  <1>7. CASE Works(u)
    <2>1. ~RecvRequest(u) /\ ~AcceptRequest(u)
      <3>1. RecvRequest(u) => RequestWaiting(u)
        BY DEF RecvRequest
      <3> QED BY <1>1, <1>2, <3>1, TakesFront
    <2>2. AcceptSyncSent(u) => Head(tcp[u]).msg.kind \in {"SyncSent", "SyncProc"}
      <3> SUFFICES ASSUME AcceptSyncSent(u),
                          Head(tcp[u]).msg.kind \notin {"SyncSent", "SyncProc"}
                   PROVE  FALSE
        OBVIOUS
      <3>1. Head(tcp[u]) = tcp[u][1] /\ 1 \in DOMAIN tcp[u]
        BY <1>1, BookTypes, TailElements DEF AcceptSyncSent, Accepts
      <3>2. Front(u, "tcp", 1) /\ "tcp" \in Form /\ 1 \in Spot
        BY <3>1 DEF Front, Form, Spot
      <3> QED BY <1>2, <3>2
    <2>3. thr' = thr /\ args' = args
      BY <1>7, <2>1, <2>2, WorksReads
    <2> QED BY <1>2, <1>3, <1>4, <1>6, <2>3 DEF Waiting
  <1>8. CASE Runs(u, w)
    <2>1. args' = args
      BY <1>8, RunsUp
    <2>2. CASE thr'[u][w] = thr[u][w]
      BY <1>2, <1>3, <1>4, <1>6, <2>1, <2>2 DEF Waiting
    <2>3. CASE thr'[u][w] # thr[u][w]
      <3>1. ~SyncAcked(u, w) /\ ~ReplyAck(u, w)
        BY <1>2, <1>8, <2>3 DEF PassesBack
      <3>2. SyncAdd(u, w)
        BY <1>3, <1>8, <3>1 DEF Waiting, Runs, ThreadStep, SyncConnect, SyncNullNext, SyncEof,
             SyncHist, ReplyStart, ProcCheck, ProcApply, ReplySend, ReplyHist, ReplyNowhere, At
      <3>3. Moved(u, w, "add", "wait")
        BY <1>1, <1>8, <3>2, RunsThread
      <3> QED BY <1>2, <1>3, <1>4, <1>6, <2>1, <3>3 DEF Waiting, Moved
    <2> QED BY <2>2, <2>3
  <1>9. CASE ~Works(u) /\ ~Runs(u, w)
    <2>1. args'[u] = args[u]
      BY <1>1, <1>3, <1>9, Untouched DEF Rests
    <2>2. thr'[u][w] = thr[u][w]
      <3>1. CASE thr'[u][w] = WithAck(thr[u][w], "eof")
        <4>1. PICK s \in Server : Dies(s) \/ thr'[u][w] = thr[u][w]
          <5>1. ASSUME NEW s \in Server, BankStart(s)
                PROVE  FALSE
            BY <1>1, <5>1 DEF BankStart, NoJoins
          <5>2. ASSUME NEW s \in Server, Works(s)
                PROVE  thr'[u][w] = thr[u][w]
            BY <1>1, <1>9, <5>2, WorksElsewhere
          <5>3. ASSUME NEW s \in Server, NEW t \in ThreadId, Runs(s, t), s # u
                PROVE  thr'[u][w] = thr[u][w]
            <6>1. thr'[u][w] = thr[u][w] \/ thr'[u][w] = WithAck(thr[u][w], "acked")
              BY <1>1, <5>3, RunsOthers
            <6>2. PICK T \in Thread : T = thr[u][w]
              BY <1>1, BookTypes
            <6>3. WithAck(T, "acked").ack = "acked" /\ WithAck(T, "eof").ack = "eof"
              BY WithAckFields
            <6> QED BY <3>1, <6>1, <6>2, <6>3
          <5>4. ASSUME NEW t \in ThreadId, Runs(u, t)
                PROVE  thr'[u][w] = thr[u][w]
            BY <1>1, <1>9, <5>4, RunsSelf
          <5>5. CASE BankTimer \/ BankReceive \/ BankMaster \/ UNCHANGED vars
            <6>1. UNCHANGED serverVars
              BY <1>1, <5>5, ClientsElsewhere, MasterElsewhere DEF vars
            <6> QED BY <6>1 DEF serverVars
          <5> QED BY <1>1, <5>1, <5>2, <5>3, <5>4, <5>5, StepKinds
        <4>2. CASE Dies(s)
          <5>1. Down(s) /\ u # s /\ next[u] # s
            BY <1>1, <1>2, <1>3, <4>2, BookTypes DEF Dies, Down
          <5> QED BY <1>1, <1>3, <5>1, DownThread
        <4> QED BY <4>1, <4>2
      <3>2. CASE thr'[u][w] # WithAck(thr[u][w], "eof")
        BY <1>1, <1>2, <1>3, <1>9, <3>2, Undisturbed DEF PassesBack
      <3> QED BY <3>1, <3>2
    <2> QED BY <1>2, <1>3, <1>4, <1>6, <2>1, <2>2 DEF Waiting
  <1> QED BY <1>7, <1>8, <1>9

\* Every thread of a trail waits for the next one, and none of its servers goes.
LEMMA TrailWaits ==
  ASSUME Timing, MaxKills = 0, WayInv, PlaceInv, Outdated, [Next]_vars,
         NEW C \in SUBSET Conn, NEW s \in Server, NEW c, NEW r, Trail(C, s, c, r), up'[s],
         \A u \in Server, k \in Form, a \in Spot : Front(u, k, a) => u = s,
         NEW d \in C,
         \/ \A z \in Server, t \in ThreadId : ~PassesBack(z, t)
         \/ thr'[d.srv][d.thr] = thr[d.srv][d.thr] /\ args' = args
  PROVE  /\ d \in Conn /\ d.srv \in Server /\ up[d.srv] /\ up'[d.srv] /\ d.srv # s
         /\ Precedes(d.srv, next[d.srv]) /\ next[d.srv] \in Server
         /\ Waits(d, r)' /\ Args(d.srv, d.thr)' = Args(d.srv, d.thr)
         /\ next'[d.srv] = next[d.srv]
  <1>1. OrderInv /\ ChainInv /\ Downward /\ PromptThreads
    BY DEF WayInv, OrderInv, Timing
  <1>2. ASSUME NEW e \in C
        PROVE  /\ e.srv \in Server /\ up[e.srv] /\ NextUp(e.srv) /\ e.srv # s /\ up'[e.srv]
               /\ Waits(e, r)
    <2>1. Waits(e, r) /\ Precedes(e.srv, s)
      BY DEF Trail
    <2>2. e.srv \in Server /\ up[e.srv] /\ NextUp(e.srv)
      BY <2>1 DEF Waits
    <2>3. e.srv # s
      BY <1>1, <2>1, PrecedesOrder
    <2>4. up'[e.srv]
      BY <1>1, <2>2, <2>3, WaiterLives
    <2> QED BY <2>1, <2>2, <2>3, <2>4
  <1>3. next[d.srv] = s \/ \E e \in C : e.srv = next[d.srv]
    BY DEF Trail
  <1>4. up'[next[d.srv]]
    BY <1>2, <1>3
  <1>5. \A k \in Form, a \in Spot : ~Front(d.srv, k, a)
    BY <1>2
  <1>6. /\ Waits(d, r)' /\ Args(d.srv, d.thr)' = Args(d.srv, d.thr)
        /\ next'[d.srv] = next[d.srv]
    BY <1>1, <1>2, <1>4, <1>5, WaitsKept
  <1>7. Precedes(d.srv, next[d.srv]) /\ next[d.srv] \in Server
    BY <1>1, <1>2, NextOther
  <1> QED BY <1>2, <1>6, <1>7

\* Connections back stay in the sets that still have them.
LEMMA BackedKept ==
  ASSUME Shrinks, NEW C, NEW D, NEW s, NEW c, Backed(C, s, c),
         c \in C /\ next[c.srv] = s => c \in D /\ next'[c.srv] = s
  PROVE  Backed(D, s, c)'
  BY DEF Backed, Shrinks

LEMMA TrailKept ==
  ASSUME Timing, MaxKills = 0, WayInv, PlaceInv, Outdated, [Next]_vars,
         NEW C \in SUBSET Conn, NEW s \in Server, NEW c, NEW r, Trail(C, s, c, r), up'[s],
         \A u \in Server, k \in Form, a \in Spot : Front(u, k, a) => u = s,
         \A z \in Server, t \in ThreadId : ~PassesBack(z, t)
  PROVE  Trail(C, s, c, r)'
  <1>1. OrderInv /\ ChainInv /\ OrderKept /\ Shrinks
    BY NextOrder, ShrinksNext DEF WayInv, OrderInv, PlaceInv
  <1>2. ASSUME NEW d \in C
        PROVE  /\ d.srv \in Server /\ up'[d.srv] /\ next'[d.srv] = next[d.srv]
               /\ Waits(d, r)' /\ Args(d.srv, d.thr)' = Args(d.srv, d.thr)
    BY TrailWaits
  <1>3. Backed(C, s, c)'
    BY <1>1, <1>2, BackedKept DEF Trail
  <1>4. ASSUME NEW d \in C
        PROVE  /\ Waits(d, r)' /\ Precedes(d.srv, s)'
               /\ Backed(C, d.srv, Args(d.srv, d.thr).conn)'
               /\ next'[d.srv] = s \/ \E e \in C : e.srv = next'[d.srv]
    <2>1. Precedes(d.srv, s)'
      <3>1. Precedes(d.srv, s)
        BY DEF Trail
      <3> QED BY <1>1, <1>2, <3>1, StayBefore
    <2>2. PICK p : p = Args(d.srv, d.thr).conn
      OBVIOUS
    <2>3. Backed(C, d.srv, p)'
      BY <1>1, <1>2, <2>2, BackedKept DEF Trail
    <2>4. Backed(C, d.srv, Args(d.srv, d.thr).conn)'
      BY <1>2, <2>2, <2>3 DEF Backed
    <2>5. next[d.srv] = s \/ \E e \in C : e.srv = next[d.srv]
      BY DEF Trail
    <2> QED BY <1>2, <2>1, <2>4, <2>5
  <1> QED BY <1>3, <1>4 DEF Trail

LEMMA PathAt ==
  ASSUME NEW s \in Server, NEW k \in Form, NEW a \in Spot, NEW c, NEW r,
         c = Back(s, k, a)', r = What(s, k, a)',
         NEW C \in SUBSET Conn, Trail(C, s, c, r)'
  PROVE  \E D \in SUBSET Conn : Trail(D, s, Back(s, k, a), What(s, k, a))'
  <1>1. Trail(C, s, Back(s, k, a), What(s, k, a))'
    BY DEF Trail, Backed, Waits
  <1> QED BY <1>1

\* A Sync thread connects to the next server, and waits from then on.
LEMMA PathPasses ==
  ASSUME Timing, MaxKills = 0, WayInv, PlaceInv, Steady, Outdated, PathInv, [Next]_vars,
         NEW s \in Server, NEW t \in ThreadId, Passes(s, t)
  PROVE  PathInv'
  <1>1. OrderInv /\ ChainInv /\ Downward /\ OneRequest /\ OrderKept /\ Shrinks
    BY NextOrder, ShrinksNext DEF WayInv, OrderInv, PlaceInv
  <1>2. Runs(s, t) /\ SyncConnect(s, t) /\ NextUp(s)
    BY DEF Passes
  <1>3. PICK n \in Server : n = next[s]
    BY <1>2 DEF NextUp
  <1>4. PICK i \in Nat : i = Len(tcp[n]) + 1
    BY <1>1, BookTypes
  <1>5. /\ thr[s][t].pc = "connect" /\ thr[s][t].ack = "none"
        /\ thr'[s][t].pc = "add" /\ thr'[s][t].ack = "none"
        /\ thr'[s][t].peer = n /\ thr'[s][t].chan = thr[s][t].chan
        /\ tcp'[n][i].msg = buf[s]
        /\ tcp'[n][i].conn.srv = s /\ tcp'[n][i].conn.thr = t /\ tcp'[n][i].conn \in Conn
        /\ \A u \in Server, j \in Form, a \in Spot :
              Front(u, j, a)' => u = n /\ j = "tcp" /\ a = i
    BY <1>2, <1>3, <1>4, ConnectFronts
  <1>6. up[s] /\ up' = up /\ next' = next /\ args' = args
    BY <1>2, RunsUp
  <1>7. PICK r \in Request, b \in Conn : r = Args(s, t).req /\ b = Args(s, t).conn
    BY <1>1, <1>6, BackOther
  <1>8. PICK x \in Conn : x = tcp'[n][i].conn /\ x.srv = s /\ x.thr = t
    BY <1>5
  <1>9. r = What(n, "tcp", i)' /\ x = Back(n, "tcp", i)'
    BY <1>5, <1>7, <1>8 DEF Steady, What, Back
  <1>10. CASE r.type = "Query"
    BY <1>5, <1>9, <1>10 DEF PathInv
  <1>11. CASE r.type # "Query"
    <2>1. /\ Front(s, "thr", t) /\ r = What(s, "thr", t) /\ b = Back(s, "thr", t)
          /\ "thr" \in Form /\ t \in Spot
      BY <1>5, <1>7 DEF Front, Carries, What, Back, Form, Spot
    <2>2. PICK C \in SUBSET Conn : Trail(C, s, b, r)
      BY <1>11, <2>1 DEF PathInv
    <2>3. \A u \in Server, k \in Form, a \in Spot : Front(u, k, a) => u = s
      BY <1>1, <2>1 DEF OneRequest
    <2>4. ~SyncAcked(s, t) /\ ~ReplyAck(s, t)
      BY <1>5 DEF SyncAcked, ReplyAck, At
    <2>5. \A u \in Server, w \in ThreadId : u # s \/ w # t => thr'[u][w] = thr[u][w]
      BY <1>1, <1>2, <2>4, RunsAlone
    <2>6. ASSUME NEW d \in C
          PROVE  /\ d.srv \in Server /\ up'[d.srv] /\ next'[d.srv] = next[d.srv]
                 /\ Waits(d, r)' /\ Args(d.srv, d.thr)' = Args(d.srv, d.thr)
                 /\ d.srv # s
      <3>1. d.srv \in Server /\ d.thr \in ThreadId /\ d.srv # s
        BY <1>1, <2>2, PrecedesOrder DEF Trail, Waits, Conn
      <3>2. thr'[d.srv][d.thr] = thr[d.srv][d.thr]
        BY <2>5, <3>1
      <3> QED BY <1>6, <2>2, <2>3, <3>2, TrailWaits
    <2> DEFINE D == C \cup {x}
    <2>7. Precedes(s, n) /\ Precedes(s, n)'
      <3>1. Precedes(s, n)
        BY <1>1, <1>2, <1>3, NextOther
      <3> QED BY <1>1, <1>2, <1>3, <1>6, <3>1, StayBefore DEF NextUp
    <2>8. Backed(D, n, x)'
      BY <1>3, <1>6, <1>8 DEF Backed
    <2>9. ASSUME NEW p, NEW u, Backed(C, u, p), u \in Server
          PROVE  Backed(D, u, p)'
      BY <1>1, <1>6, <2>9, BackedKept
    <2>10. ASSUME NEW d \in C
           PROVE  /\ Waits(d, r)' /\ Precedes(d.srv, n)'
                  /\ Backed(D, d.srv, Args(d.srv, d.thr).conn)'
                  /\ next'[d.srv] = n \/ \E e \in D : e.srv = next'[d.srv]
      <3>1. Precedes(d.srv, n)'
        <4>1. Precedes(d.srv, n)
          <5>1. Precedes(d.srv, s)
            BY <2>2 DEF Trail
          <5> QED BY <1>1, <2>7, <5>1, PrecedesOrder
        <4> QED BY <1>1, <1>2, <1>3, <1>6, <2>6, <4>1, StayBefore DEF NextUp
      <3>2. PICK p : p = Args(d.srv, d.thr).conn
        OBVIOUS
      <3>3. Backed(D, d.srv, p)'
        BY <2>2, <2>6, <2>9, <3>2 DEF Trail
      <3>4. Backed(D, d.srv, Args(d.srv, d.thr).conn)'
        BY <2>6, <3>2, <3>3 DEF Backed
      <3>5. next[d.srv] = s \/ \E e \in C : e.srv = next[d.srv]
        BY <2>2 DEF Trail
      <3> QED BY <1>8, <2>6, <3>1, <3>4, <3>5
    <2>11. /\ Waits(x, r)' /\ Precedes(x.srv, n)'
           /\ Backed(D, x.srv, Args(x.srv, x.thr).conn)'
           /\ next'[x.srv] = n
      <3>1. Args(s, t)' = Args(s, t)
        BY <1>5, <1>6 DEF Args
      <3>2. Waits(x, r)'
        BY <1>2, <1>3, <1>5, <1>6, <1>7, <1>8, <3>1 DEF Waits, Waiting, NextUp
      <3>3. Backed(D, s, b)'
        BY <2>2, <2>9 DEF Trail
      <3>4. Backed(D, x.srv, Args(x.srv, x.thr).conn)'
        BY <1>7, <1>8, <3>1, <3>3 DEF Backed
      <3> QED BY <1>3, <1>6, <1>8, <2>7, <3>2, <3>4
    <2>12. Trail(D, n, x, r)'
      BY <2>8, <2>10, <2>11 DEF Trail
    <2>13. D \in SUBSET Conn /\ "tcp" \in Form /\ i \in Spot
      BY DEF Form, Spot
    <2>14. \E E \in SUBSET Conn : Trail(E, n, Back(n, "tcp", i), What(n, "tcp", i))'
      BY <1>9, <2>12, <2>13, PathAt
    <2> QED BY <1>5, <2>14 DEF PathInv
  <1> QED BY <1>10, <1>11

\* An ACK goes to a thread that waits at the server before, or there is none, and the
\* request has come from the client at this server.
LEMMA BackWhom ==
  ASSUME WayInv, Sought, PathInv, NEW z \in Server, NEW t \in ThreadId, PassesBack(z, t)
  PROVE  \E r \in Request, c \in Conn :
            /\ r = Args(z, t).req /\ c = Args(z, t).conn
            /\ Turn(z, t) /\ Front(z, "thr", t) /\ ~Carries(z, t)'
            /\ \/ /\ r.type = "Query" \/ \A u \in Server : up[u] => ~Precedes(u, z)
                  /\ \A u \in Server, j \in Form, a \in Spot : ~Front(u, j, a)'
               \/ /\ r.type # "Query" /\ c.srv # z /\ next[c.srv] = z
                  /\ \E C \in SUBSET Conn : Trail(C, z, c, r) /\ c \in C
                  /\ thr'[c.srv][c.thr] = WithAck(thr[c.srv][c.thr], "acked")
                  /\ \A u \in Server, j \in Form, a \in Spot :
                        Front(u, j, a)' => j = "thr" /\ u = c.srv /\ a = c.thr
  <1>1. ChainInv /\ Downward /\ OrderInv
    BY DEF WayInv, OrderInv
  <1>2. Runs(z, t) /\ (SyncAcked(z, t) \/ ReplyAck(z, t)) /\ up[z]
    BY RunsUp DEF PassesBack
  <1>3. PICK r \in Request, c \in Conn : r = Args(z, t).req /\ c = Args(z, t).conn
    BY <1>1, <1>2, BackOther
  <1>4. PICK C \in SUBSET Conn : Await(C)
    BY DEF WayInv, Awaited
  <1>5. Front(z, "thr", t) /\ "thr" \in Form /\ t \in Spot
    BY <1>2, <1>4, AckReaches
  <1>6. Turn(z, t)
    BY <1>2, <1>5 DEF Turn, Front, SyncAcked, ReplyAck, At
  <1>7. /\ ~Carries(z, t)'
        /\ \A u \in Server, j \in Form, a \in Spot : Front(u, j, a)' =>
               j = "thr" /\ u = c.srv /\ a = c.thr /\ c \in C
    BY <1>2, <1>3, <1>4, AckFronts
  <1>8. c \in C => c.srv \in Server /\ up[c.srv] /\ Precedes(c.srv, z)
    <2>1. c \in C => c.srv \in Server /\ Waiting(c.srv, c.thr) /\ Precedes(c.srv, z)
      BY <1>4, <1>5 DEF Await
    <2>2. c.thr \in ThreadId
      BY DEF Conn
    <2> QED BY <1>1, <2>1, <2>2, Present
  <1>9. r = What(z, "thr", t) /\ c = Back(z, "thr", t)
    BY <1>3 DEF What, Back
  <1>10. CASE r.type = "Query"
    <2>1. c.srv = NoServer
      BY <1>5, <1>9, <1>10 DEF Sought
    <2>2. \A u \in Server, j \in Form, a \in Spot : ~Front(u, j, a)'
      BY <1>7, <1>8, <2>1, WireAssumption
    <2> QED BY <1>3, <1>5, <1>6, <1>7, <1>10, <2>2
  <1>11. CASE r.type # "Query"
    <2>1. PICK D \in SUBSET Conn : Trail(D, z, c, r)
      BY <1>5, <1>9, <1>11 DEF PathInv
    <2>2. CASE \A u \in Server : up[u] => ~Precedes(u, z)
      <3>1. \A u \in Server, j \in Form, a \in Spot : ~Front(u, j, a)'
        BY <1>7, <1>8, <2>2
      <3> QED BY <1>3, <1>5, <1>6, <1>7, <2>2, <3>1
    <2>3. CASE c \in D /\ next[c.srv] = z
      <3>1. Waits(c, r) /\ c.srv # z
        BY <1>1, <2>1, <2>3, PrecedesOrder DEF Trail
      <3>2. /\ c.srv \in Server /\ c.thr \in ThreadId /\ thr[c.srv][c.thr].peer = z
            /\ thr[c.srv][c.thr].ack = "none"
        BY <2>3, <3>1 DEF Waits, Waiting, Conn
      <3>3. Acked(thr, z, c)[c.srv][c.thr] = WithAck(thr[c.srv][c.thr], "acked")
            /\ Acked(thr, z, c) \in [Server -> [ThreadId -> Thread]]
        <4>1. Acked(thr, z, c) = [thr EXCEPT ![c.srv][c.thr].ack = "acked"]
          BY <3>2 DEF Acked
        <4>2. thr \in [Server -> [ThreadId -> Thread]]
          BY <1>1, BookTypes
        <4> PICK X \in Thread : X = thr[c.srv][c.thr]
          BY <3>2, <4>2
        <4>3. PICK T \in Thread : T = WithAck(X, "acked")
          BY DEF WithAck, Thread
        <4>4. Acked(thr, z, c) = [thr EXCEPT ![c.srv][c.thr] = T]
          BY <4>1, <4>3 DEF WithAck
        <4> QED BY <3>2, <4>2, <4>3, <4>4
      <3>4. thr'[c.srv] = Acked(thr, z, c)[c.srv]
        BY <1>2, <1>3, <3>1, <3>2, <3>3 DEF SyncAcked, ReplyAck
      <3> QED BY <1>3, <1>5, <1>6, <1>7, <1>11, <2>1, <2>3, <3>1, <3>3, <3>4
    <2> QED BY <2>1, <2>2, <2>3 DEF Trail, Backed
  <1> QED BY <1>10, <1>11

\* The server before goes on with the part of the trail that leads to it.
LEMMA PathPassesBack ==
  ASSUME Timing, MaxKills = 0, WayInv, PlaceInv, Outdated, Sought, PathInv, [Next]_vars,
         NEW z \in Server, NEW t \in ThreadId, PassesBack(z, t),
         NEW s \in Server, NEW k \in Form, NEW a \in Spot, Front(s, k, a)'
  PROVE  /\ What(s, k, a)'.type # "Query"
         /\ \E D \in SUBSET Conn : Trail(D, s, Back(s, k, a), What(s, k, a))'
  <1>1. OrderInv /\ ChainInv /\ Downward /\ OneRequest /\ OrderKept /\ Shrinks
    BY NextOrder, ShrinksNext DEF WayInv, OrderInv, PlaceInv
  <1>2. PICK r \in Request, c \in Conn :
           /\ r = Args(z, t).req /\ c = Args(z, t).conn
           /\ Front(z, "thr", t)
           /\ r.type # "Query" /\ c.srv # z /\ next[c.srv] = z
           /\ \E C \in SUBSET Conn : Trail(C, z, c, r) /\ c \in C
           /\ thr'[c.srv][c.thr] = WithAck(thr[c.srv][c.thr], "acked")
           /\ \A u \in Server, j \in Form, b \in Spot :
                 Front(u, j, b)' => j = "thr" /\ u = c.srv /\ b = c.thr
    BY BackWhom
  <1>3. PICK C \in SUBSET Conn : Trail(C, z, c, r) /\ c \in C
    BY <1>2
  <1>4. s = c.srv /\ k = "thr" /\ a = c.thr /\ a \in ThreadId
    BY <1>2 DEF Conn
  <1>5. Runs(z, t) /\ up' = up /\ next' = next /\ args' = args /\ up[z]
    BY RunsUp DEF PassesBack
  <1>6. Waits(c, r) /\ Precedes(s, z) /\ up[s]
    BY <1>3, <1>4 DEF Trail, Waits
  <1>7. Args(s, a)' = Args(s, a) /\ Args(s, a).req = r
    <2>1. thr'[s][a].chan = thr[s][a].chan
      BY <1>1, <1>2, <1>4, BookTypes, WithAckFields
    <2> QED BY <1>4, <1>5, <1>6, <2>1 DEF Args, Waits
  <1>8. PICK b : b = Args(s, a).conn
    OBVIOUS
  <1>9. r = What(s, k, a)' /\ b = Back(s, k, a)'
    BY <1>4, <1>7, <1>8 DEF What, Back
  <1> PICK D \in SUBSET Conn : D = {d \in C : Precedes(d.srv, s)}
    OBVIOUS
  <1>10. \A u \in Server, j \in Form, e \in Spot : Front(u, j, e) => u = z
    <2>1. "thr" \in Form /\ t \in Spot
      BY DEF Form, Spot
    <2> QED BY <1>1, <1>2, <2>1 DEF OneRequest
  <1>11. ASSUME NEW d \in C
         PROVE  /\ d.srv \in Server /\ d.thr \in ThreadId /\ up[d.srv] /\ InChain(d.srv)
                /\ next[d.srv] \in Server /\ Precedes(d.srv, next[d.srv])
                /\ d.srv # z
    <2>1. Waits(d, r) /\ Precedes(d.srv, z)
      BY <1>3 DEF Trail
    <2>2. d.srv \in Server /\ up[d.srv] /\ NextUp(d.srv) /\ d.thr \in ThreadId
      BY <2>1 DEF Waits, Conn
    <2> QED BY <1>1, <2>1, <2>2, NextOther, PrecedesOrder
  <1>12. ASSUME NEW d \in D
         PROVE  /\ Waits(d, r)' /\ Args(d.srv, d.thr)' = Args(d.srv, d.thr)
    <2>1. d.srv # s /\ d.srv # z
      BY <1>1, <1>11, PrecedesOrder
    <2>2. PICK A \in SUBSET Conn : Await(A)
      BY DEF WayInv, Awaited
    <2>3. thr'[d.srv][d.thr] = thr[d.srv][d.thr]
      BY <1>2, <1>4, <1>5, <1>11, <2>1, <2>2, AckReaches DEF PassesBack
    <2> QED BY <1>3, <1>5, <1>10, <2>3, TrailWaits
  <1>13. ASSUME NEW p, NEW u \in Server, up[u], Backed(C, u, p), u = s \/ Precedes(u, s)
         PROVE  Backed(D, u, p)'
    <2>1. ASSUME p \in C, next[p.srv] = u
          PROVE  p \in D
      <3>1. Precedes(p.srv, u)
        BY <1>11, <2>1
      <3>2. Precedes(p.srv, s)
        BY <1>1, <1>13, <3>1, PrecedesOrder
      <3> QED BY <2>1, <3>2
    <2> QED BY <1>1, <1>5, <1>13, <2>1, BackedKept
  <1>14. Backed(D, s, b)'
    BY <1>3, <1>4, <1>6, <1>8, <1>13 DEF Trail
  <1>15. ASSUME NEW d \in D
         PROVE  /\ Waits(d, r)' /\ Precedes(d.srv, s)'
                /\ Backed(D, d.srv, Args(d.srv, d.thr).conn)'
                /\ next'[d.srv] = s \/ \E e \in D : e.srv = next'[d.srv]
    <2>1. Precedes(d.srv, s)'
      BY <1>1, <1>5, <1>6, <1>11, StayBefore
    <2>2. PICK p : p = Args(d.srv, d.thr).conn
      OBVIOUS
    <2>3. Backed(D, d.srv, p)'
      BY <1>3, <1>11, <1>13, <2>2 DEF Trail
    <2>4. Backed(D, d.srv, Args(d.srv, d.thr).conn)'
      BY <1>12, <2>2, <2>3 DEF Backed
    <2>5. next[d.srv] = s \/ \E e \in D : e.srv = next[d.srv]
      <3>1. PICK n \in Server : n = next[d.srv]
        BY <1>11
      <3>2. n = z \/ \E e \in C : e.srv = n
        BY <1>3, <3>1 DEF Trail
      <3>3. up[n] /\ InChain(n)
        BY <1>1, <1>5, <1>6, <1>11, <3>2, PrecedesOrder
      <3>4. ~Precedes(s, n)
        BY <1>4, <1>6, <1>11, <3>1 DEF PlaceInv, NextNearest, Nearest
      <3>5. n = s \/ Precedes(n, s)
        BY <1>1, <1>6, <3>3, <3>4, ChainTotal, PrecedesOrder
      <3> QED BY <1>6, <3>1, <3>2, <3>4, <3>5
    <2> QED BY <1>5, <1>12, <2>1, <2>4, <2>5
  <1>16. Trail(D, s, b, r)'
    BY <1>14, <1>15 DEF Trail
  <1> QED BY <1>2, <1>9, <1>16, PathAt

\* What the client sends is the only request.
LEMMA SendsFront ==
  ASSUME OrderInv, NEW v \in Server, Sends(v),
         NEW s \in Server, NEW k \in Form, NEW a \in Spot, Front(s, k, a)'
  PROVE  /\ s = v /\ k = "udp"
         /\ What(s, k, a)' = Current /\ Back(s, k, a)' = NoConn
         /\ TextOf(s, k, a)' = Raw(Current)
  <1>1. ChainInv /\ Current \in Request
    BY CurrentType DEF OrderInv, ChainInv, BankInv, TypeOK
  <1>2. /\ \A u \in Server : udp[u] = <<>> /\ tcp[u] = <<>>
        /\ \A u \in Server, w \in ThreadId : ~Carries(u, w)
    BY QuietWay DEF Sends
  <1>3. tcp' = tcp /\ thr' = thr /\ udp' = [udp EXCEPT ![v] = Append(@, Raw(Current))]
    BY DEF Sends, serverVars
  <1>4. k # "tcp" /\ k # "thr"
    BY <1>2, <1>3 DEF Front, Carries
  <1>5. k = "udp" /\ s = v
    BY <1>1, <1>2, <1>3, <1>4, BookTypes DEF Front, Form
  <1>6. udp'[v][a] = Raw(Current)
    <2>1. udp'[v] = Append(udp[v], Raw(Current)) /\ udp[v] \in Seq(Text)
      BY <1>1, <1>3, BookTypes
    <2>2. a \in DOMAIN Append(udp[v], Raw(Current)) /\ DOMAIN udp[v] = {}
      BY <1>2, <1>5, <2>1 DEF Front
    <2> QED BY <2>1, <2>2, AppendAt
  <1>7. What(s, k, a)' = Current
    BY <1>1, <1>5, <1>6, RawFields DEF What, Parse
  <1> QED BY <1>5, <1>6, <1>7 DEF Back, TextOf

LEMMA PathNext ==
  ASSUME Timing, Itemized, MaxKills = 0, BookInv, BookInv', PlaceInv, Steady, PlainInv,
         [Next]_vars
  PROVE  PathInv'
  <1>1. /\ WayInv /\ OrderInv /\ OrderInv' /\ ChainInv /\ OneRequest
        /\ Outdated /\ Sought /\ PathInv /\ TextsPlain
    BY DEF BookInv, WayInv, OrderInv, PlainInv
  <1>2. ASSUME NEW z \in Server, NEW t \in ThreadId, Passes(z, t)
        PROVE  PathInv'
    BY <1>1, <1>2, PathPasses
  <1>3. ASSUME NEW z \in Server, NEW t \in ThreadId, PassesBack(z, t)
        PROVE  PathInv'
    BY <1>1, <1>3, PathPassesBack DEF PathInv
  <1>4. ASSUME NEW v \in Server, Sends(v)
        PROVE  PathInv'
    <2> SUFFICES ASSUME NEW s \in Server, NEW k \in Form, NEW a \in Spot, Front(s, k, a)',
                        What(s, k, a)'.type # "Query"
                 PROVE  \E C \in SUBSET Conn : Trail(C, s, Back(s, k, a), What(s, k, a))'
      BY DEF PathInv
    <2>1. s = v /\ What(s, k, a)' = Current /\ Current.type # "Query"
      BY <1>1, <1>4, SendsFront
    <2>2. s = view[1] /\ view # <<>> /\ UNCHANGED <<up, chain>>
      BY <1>4, <2>1 DEF Sends, SearchServer
    <2>3. ASSUME NEW u \in Server, up[u], Precedes(u, s)
          PROVE  FALSE
      <3>1. PICK i \in DOMAIN view : view[i] = u
        BY <2>3 DEF PlaceInv, ViewOrdered
      <3>2. i \in Nat /\ 1 \in DOMAIN view /\ (i = 1 \/ 1 < i)
        BY <1>1, <2>2, ClientTypes
      <3>3. u # s
        BY <1>1, <2>3, PrecedesOrder
      <3> QED BY <2>2, <2>3, <3>1, <3>2, <3>3 DEF PlaceInv, ViewOrdered
    <2>4. \A u \in Server : up'[u] => ~Precedes(u, s)'
      BY <2>2, <2>3 DEF Precedes
    <2>5. Trail({}, s, Back(s, k, a), What(s, k, a))'
      BY <2>4 DEF Trail, Backed
    <2> QED BY <2>5
  <1>5. ASSUME AllStay, \A z \in Server, t \in ThreadId : ~PassesBack(z, t)
        PROVE  PathInv'
    <2> SUFFICES ASSUME NEW s \in Server, NEW k \in Form, NEW a \in Spot, Front(s, k, a)',
                        What(s, k, a)'.type # "Query"
                 PROVE  \E C \in SUBSET Conn : Trail(C, s, Back(s, k, a), What(s, k, a))'
      BY DEF PathInv
    <2>1. PICK j \in Form, b \in Spot :
             /\ Front(s, j, b)
             /\ What(s, k, a)' = What(s, j, b) /\ Back(s, k, a)' = Back(s, j, b)
      BY <1>5 DEF AllStay, Stays
    <2>2. PICK c, r : c = Back(s, k, a)' /\ r = What(s, k, a)'
      OBVIOUS
    <2>3. PICK C \in SUBSET Conn : Trail(C, s, c, r)
      <3>1. \E C \in SUBSET Conn : Trail(C, s, Back(s, j, b), What(s, j, b))
        BY <1>1, <2>1 DEF PathInv
      <3> QED BY <2>1, <2>2, <3>1
    <2>4. up'[s]
      BY <1>1, PresentNext
    <2>5. \A u \in Server, l \in Form, e \in Spot : Front(u, l, e) => u = s
      BY <1>1, <2>1 DEF OneRequest
    <2>6. Trail(C, s, c, r)'
      BY <1>1, <1>5, <2>3, <2>4, <2>5, TrailKept
    <2> QED BY <2>2, <2>6, PathAt
  <1> QED BY <1>1, <1>2, <1>3, <1>4, <1>5, Moves

-----------------------------------------------------------------------------
(* What is forwarded, where replies go, and where queries are.             *)

\* An acknowledged thread has begun.
LEMMA BackBegun ==
  ASSUME WayInv, OrderInv', Sought, PathInv,
         NEW z \in Server, NEW t \in ThreadId, PassesBack(z, t),
         NEW s \in Server, NEW k \in Form, NEW a \in Spot, Front(s, k, a)'
  PROVE  Begun(s, k, a)'
  <1>1. ChainInv
    BY DEF WayInv, OrderInv
  <1>2. PICK c \in Conn :
           /\ thr'[c.srv][c.thr] = WithAck(thr[c.srv][c.thr], "acked")
           /\ k = "thr" /\ s = c.srv /\ a = c.thr
    BY BackWhom
  <1>3. a \in ThreadId /\ thr'[s][a].ack = "acked"
    BY <1>1, <1>2, BookTypes, WithAckFields DEF Conn
  <1>4. thr'[s][a].pc \in {"add", "wait"}
    BY <1>3 DEF OrderInv, Shape, Shaped
  <1> QED BY <1>2, <1>4 DEF Begun

LEMMA TextsPlainNext ==
  ASSUME Timing, Itemized, BookInv, BookInv', PlaceInv, PlainInv, [Next]_vars
  PROVE  TextsPlain'
  <1>1. /\ WayInv /\ OrderInv' /\ OrderInv /\ Sought /\ PathInv /\ TextsPlain
        /\ Current \in Request /\ Current.from \in Client
    BY CurrentType DEF BookInv, WayInv, OrderInv, PlainInv, ChainInv, BankInv, TypeOK
  <1> SUFFICES ASSUME NEW s \in Server, NEW k \in Form, NEW a \in Spot, Front(s, k, a)',
                      ~Begun(s, k, a)'
               PROVE  Plain(TextOf(s, k, a)')
    BY DEF TextsPlain, Plain
  <1>2. ASSUME NEW z \in Server, NEW t \in ThreadId, PassesBack(z, t)
        PROVE  FALSE
    BY <1>1, <1>2, BackBegun
  <1>3. ASSUME NEW z \in Server, NEW t \in ThreadId, Passes(z, t)
        PROVE  Plain(TextOf(s, k, a)')
    <2>1. PICK i : i = Len(tcp[next[z]]) + 1
      OBVIOUS
    <2>2. /\ thr[z][t].pc = "connect" /\ tcp'[next[z]][i].msg = buf[z]
          /\ s = next[z] /\ k = "tcp" /\ a = i
      BY <1>1, <1>3, <2>1, ConnectFronts DEF Passes
    <2>3. Front(z, "thr", t) /\ ~Begun(z, "thr", t) /\ "thr" \in Form /\ t \in Spot
      BY <2>2 DEF Front, Carries, Begun, Form, Spot
    <2>4. Plain(buf[z])
      BY <1>1, <2>3 DEF TextsPlain, TextOf
    <2> QED BY <2>2, <2>4 DEF TextOf
  <1>4. ASSUME NEW v \in Server, Sends(v)
        PROVE  Plain(TextOf(s, k, a)')
    BY <1>1, <1>4, SendsFront, RawFields DEF Plain
  <1>5. CASE AllStay
    BY <1>1, <1>5 DEF AllStay, Stays, TextsPlain
  <1> QED BY <1>1, <1>2, <1>3, <1>4, <1>5, Moves

LEMMA AddressedNext ==
  ASSUME PromptThreads, BookInv, BookInv', PlainInv, [Next]_vars
  PROVE  Addressed'
  <1>1. /\ WayInv /\ OrderInv' /\ OrderInv /\ ChainInv /\ Downward /\ TextsPlain /\ Addressed
    BY DEF BookInv, WayInv, OrderInv, PlainInv
  <1> SUFFICES ASSUME NEW s \in Server, NEW t \in ThreadId, thr'[s][t].role = "Reply",
                      thr'[s][t].pc \in {"check", "apply", "send"}
               PROVE  thr'[s][t].dest # NoClient
    BY DEF Addressed
  <1>2. up'[s]
    BY <1>1, PresentNext DEF Carries
  <1>3. thr[s][t] \in Thread /\ thr \in [Server -> [ThreadId -> Thread]] /\ buf[s] \in Text
    BY <1>1, BookTypes
  <1>4. CASE Works(s)
    BY <1>1, <1>4, WorksThreads
  <1>5. CASE Runs(s, t)
    <2>1. CASE ReplyStart(s, t)
      <3>1. thr'[s][t].dest = Address(buf[s]) /\ thr[s][t].pc = "start"
        BY <1>3, <2>1 DEF ReplyStart, At, Thread
      <3>2. Front(s, "thr", t) /\ ~Begun(s, "thr", t) /\ "thr" \in Form /\ t \in Spot
        BY <3>1 DEF Front, Carries, Begun, Form, Spot
      <3>3. Plain(buf[s])
        BY <1>1, <3>2 DEF TextsPlain, TextOf
      <3>4. buf[s] \in RequestText
        BY <1>3, <3>3 DEF Plain, Text, NotiText, NotiKind
      <3> QED BY <3>1, <3>3, <3>4, LedgerAssumption DEF Address, Plain
    <2>2. CASE ProcCheck(s, t)
      <3>1. thr'[s][t].dest = thr[s][t].dest /\ thr[s][t].pc = "check"
        BY <1>3, <2>2 DEF ProcCheck, At, Thread
      <3>2. thr'[s][t].role = thr[s][t].role
        BY <1>3, <2>2 DEF ProcCheck, At, Thread
      <3> QED BY <1>1, <3>1, <3>2 DEF Addressed
    <2>3. CASE ProcApply(s, t)
      <3>1. thr'[s][t].dest = thr[s][t].dest /\ thr[s][t].pc = "apply"
        BY <1>3, <2>3 DEF ProcApply, At, Thread
      <3>2. thr'[s][t].role = thr[s][t].role
        BY <1>3, <2>3 DEF ProcApply, At, Thread
      <3> QED BY <1>1, <3>1, <3>2 DEF Addressed
    <2>4. CASE ~ReplyStart(s, t) /\ ~ProcCheck(s, t) /\ ~ProcApply(s, t)
      <3>1. \/ thr'[s][t] = Idle
            \/ thr'[s][t].pc \in {"add", "wait", "hist", "ack"}
            \/ thr'[s][t].role = "Sync"
        BY <1>1, <1>5, <2>4, RunsThread DEF Runs, ThreadStep, Moved, SyncNullNext, ReplyNowhere
      <3> QED BY <3>1, IdleFields
    <2> QED BY <2>1, <2>2, <2>3, <2>4
  <1>6. CASE ~Works(s) /\ ~Runs(s, t)
    <2>1. \/ thr'[s][t] = thr[s][t]
          \/ Waiting(s, t) /\ \E a : thr'[s][t] = WithAck(thr[s][t], a)
      BY <1>1, <1>2, <1>6, Undisturbed
    <2>2. ASSUME NEW a, Waiting(s, t), thr'[s][t] = WithAck(thr[s][t], a)
          PROVE  FALSE
      BY <1>3, <2>2, WithAckFields DEF Waiting
    <2> QED BY <1>1, <2>1, <2>2 DEF Addressed
  <1> QED BY <1>4, <1>5, <1>6

\* The client knows who is last.
LEMMA LastViewed ==
  ASSUME ChainInv, PlaceInv, ViewFull, MembersTold, notices = {}, NEW v \in Server, up[v],
         udp[v] = <<>>, view # <<>>, v = view[Len(view)]
  PROVE  next[v] = NoServer
  <1>1. /\ chain \in Seq(Server) /\ Distinct(chain) /\ view \in Seq(Server \cup {NoServer})
    BY BookTypes, ClientTypes
  <1>2. PICK i \in DOMAIN chain : chain[i] = v
    BY DEF PlaceInv, NoJoins, InChain
  <1>3. ~(i < Len(chain))
    <2> SUFFICES ASSUME i < Len(chain)
                 PROVE  FALSE
      OBVIOUS
    <2>1. i + 1 \in DOMAIN chain /\ i < i + 1
      BY <1>1
    <2>2. PICK w \in Server : w = chain[i + 1]
      BY <1>1, <2>1
    <2>3. Precedes(v, w) /\ InChain(w) /\ v # w
      <3>1. Precedes(v, w)
        BY <1>2, <2>1, <2>2 DEF Precedes
      <3> QED BY <3>1, PrecedesOrder
    <2>4. PICK j \in DOMAIN view : view[j] = w
      BY <2>3 DEF ViewFull, Missing, Elements
    <2>5. j < Len(view) /\ Len(view) \in DOMAIN view
      BY <1>1, <2>3, <2>4
    <2> QED BY <2>3, <2>4, <2>5 DEF PlaceInv, ViewOrdered
  <1>4. Told(v, NoServer)
    BY <1>2, <1>3 DEF MembersTold, Coming, Following
  <1> QED BY <1>4 DEF Told, LastSays

LEMMA SoughtNext ==
  ASSUME Timing, Itemized, MaxKills = 0, BookInv, BookInv', PlaceInv, Steady, PlainInv,
         [Next]_vars
  PROVE  Sought'
  <1>1. /\ WayInv /\ OrderInv' /\ OrderInv /\ ChainInv /\ Downward /\ TextsPlain /\ Sought
        /\ PathInv /\ Outdated /\ ViewFull /\ MembersTold /\ PromptThreads
    BY DEF BookInv, WayInv, OrderInv, PlainInv, LinkInv
  <1> SUFFICES ASSUME NEW s \in Server, NEW k \in Form, NEW a \in Spot, Front(s, k, a)',
                      What(s, k, a)'.type = "Query"
               PROVE  /\ next'[s] = NoServer /\ Back(s, k, a)'.srv = NoServer
                      /\ What(s, k, a)' \in Scripted
    BY DEF Sought
  <1>2. ASSUME NEW z \in Server, NEW t \in ThreadId, PassesBack(z, t)
        PROVE  FALSE
    BY <1>1, <1>2, PathPassesBack
  <1>3. ASSUME NEW z \in Server, NEW t \in ThreadId, Passes(z, t)
        PROVE  FALSE
    <2>1. PICK i : i = Len(tcp[next[z]]) + 1
      OBVIOUS
    <2>2. /\ thr[z][t].pc = "connect" /\ tcp'[next[z]][i].msg = buf[z]
          /\ s = next[z] /\ k = "tcp" /\ a = i
      BY <1>1, <1>3, <2>1, ConnectFronts DEF Passes
    <2>3. Front(z, "thr", t) /\ "thr" \in Form /\ t \in Spot
      BY <2>2 DEF Front, Carries, Form, Spot
    <2>4. What(s, k, a)' = What(z, "thr", t)
      BY <2>2 DEF What, Steady
    <2>5. next[z] = NoServer
      BY <1>1, <2>3, <2>4 DEF Sought
    <2> QED BY <1>3, <2>5, WireAssumption DEF Passes, NextUp
  <1>4. ASSUME NEW v \in Server, Sends(v)
        PROVE  /\ next'[s] = NoServer /\ Back(s, k, a)'.srv = NoServer
               /\ What(s, k, a)' \in Scripted
    <2>1. s = v /\ What(s, k, a)' = Current /\ Back(s, k, a)' = NoConn
      BY <1>1, <1>4, SendsFront
    <2>2. v = view[Len(view)] /\ view # <<>> /\ up[v] /\ next' = next
      BY <1>4, <2>1 DEF Sends, SearchServer, serverVars
    <2>3. notices = {} /\ udp[v] = <<>>
      BY <1>1, <1>4, QuietWay DEF Sends, Quiet
    <2>4. next[v] = NoServer
      BY <1>1, <2>2, <2>3, LastViewed
    <2>5. Current \in Scripted
      BY <1>1, ClientTypes DEF Current, Scripted
    <2> QED BY <2>1, <2>2, <2>4, <2>5 DEF NoConn
  <1>5. CASE AllStay
    <2>1. PICK j \in Form, b \in Spot :
             /\ Front(s, j, b)
             /\ What(s, k, a)' = What(s, j, b) /\ Back(s, k, a)' = Back(s, j, b)
      BY <1>5 DEF AllStay, Stays
    <2>2. next[s] = NoServer /\ Back(s, j, b).srv = NoServer /\ What(s, j, b) \in Scripted
      BY <1>1, <2>1 DEF Sought
    <2>3. up'[s] /\ ~Dead(next[s])
      BY <1>1, <2>2, PresentNext, WireAssumption DEF Dead
    <2>4. next'[s] = next[s]
      BY <1>1, <2>3, NextKept
    <2> QED BY <2>1, <2>2, <2>4
  <1> QED BY <1>1, <1>2, <1>3, <1>4, <1>5, Moves

LEMMA PlainNext ==
  ASSUME Timing, Itemized, MaxKills = 0, BookInv, BookInv', PlaceInv, Steady, PlainInv,
         [Next]_vars
  PROVE  PlainInv'
  <1>1. /\ ChainInv /\ NoJoins /\ Silent' /\ LinkInv /\ Outdated /\ ViewFull /\ PromptThreads
    BY DEF BookInv, WayInv, OrderInv, PlainInv, PlaceInv, Timing
  <1>2. Shrinks
    BY <1>1, ShrinksNext
  <1>3. LinkInv' /\ Outdated' /\ ViewFull'
    BY <1>1, <1>2, LinkNext, OutdatedNext, ViewFullNext
  <1>4. TextsPlain' /\ Addressed' /\ Sought' /\ PathInv'
    BY <1>1, TextsPlainNext, AddressedNext, SoughtNext, PathNext
  <1> QED BY <1>3, <1>4 DEF PlainInv

-----------------------------------------------------------------------------
(* Who changes the books.                                                  *)

LEMMA AcctType == ChainInv => acct \in [Server -> [Account -> Nat]]
  BY BankInvNow, ServerInvNow DEF ChainInv

LEMMA LedgerMoves ==
  ASSUME PromptThreads, ChainInv, [Next]_vars, NEW u \in Server, up'[u]
  PROVE  \/ acct'[u] = acct[u] /\ proc'[u] = proc[u]
         \/ Works(u) /\ AcceptSyncProc(u)
         \/ \E t \in ThreadId :
               Runs(u, t) /\ (ProcApply(u, t) \/ ReplyHist(u, t) \/ SyncHist(u, t))
  <1> USE BookTypes, AcctType
  <1>1. ASSUME NEW s \in Server, Works(s),
               ~(s = u /\ AcceptSyncProc(u))
        PROVE  acct'[u] = acct[u] /\ proc'[u] = proc[u]
    <2>1. CASE AcceptSyncProc(s)
      <3>1. s # u
        BY <1>1, <2>1
      <3> QED BY <2>1, <3>1 DEF AcceptSyncProc, Credit
    <2>2. CASE ~AcceptSyncProc(s)
      BY <1>1, <2>2 DEF Works, MainLoop, Synchronize, RecvNotification, DropRequest,
         RecvRequest, ExpireOnRequest, AcceptRequest, ExpireOnAccept, AcceptSyncSent,
         AcceptSyncSentNoNext, SyncSentTrans, SyncSentEnd, SyncProcTrans, SyncDone, books
    <2> QED BY <2>1, <2>2
  <1>2. ASSUME NEW s \in Server, NEW t \in ThreadId, Runs(s, t),
               ~(s = u /\ (ProcApply(s, t) \/ ReplyHist(s, t) \/ SyncHist(s, t)))
        PROVE  acct'[u] = acct[u] /\ proc'[u] = proc[u]
    <2>1. CASE ProcApply(s, t) \/ ReplyHist(s, t) \/ SyncHist(s, t)
      <3>1. s # u
        BY <1>2, <2>1
      <3> QED BY <2>1, <3>1 DEF ProcApply, ReplyHist, SyncHist, Credit
    <2>2. CASE ~(ProcApply(s, t) \/ ReplyHist(s, t) \/ SyncHist(s, t))
      BY <1>2, <2>2 DEF Runs, ThreadStep, SyncConnect, SyncNullNext, SyncAdd, SyncEof,
         SyncAcked, ReplyStart, ProcCheck, ReplySend, ReplyNowhere, ReplyAck, books
    <2> QED BY <2>1, <2>2
  <1>3. ASSUME NEW s \in Server, Dies(s)
        PROVE  acct'[u] = acct[u] /\ proc'[u] = proc[u]
    BY <1>3 DEF Dies, Down
  <1>4. CASE \/ \E s \in Server : BankStart(s)
             \/ BankTimer \/ BankReceive \/ BankMaster \/ UNCHANGED vars
    <2>1. UNCHANGED serverVars
      BY <1>4, ClientsElsewhere, MasterElsewhere DEF BankStart, vars
    <2> QED BY <2>1 DEF serverVars, books
  <1> QED BY <1>1, <1>2, <1>3, <1>4, StepKinds

\* What a thread is about to write back is still the balance.
LEMMA LookedNext ==
  ASSUME PromptThreads, BookInv, BookInv', Looked, [Next]_vars
  PROVE  Looked'
  <1>1. WayInv /\ OrderInv' /\ OrderInv /\ ChainInv /\ Downward
    BY DEF BookInv, WayInv, OrderInv
  <1> SUFFICES ASSUME NEW s \in Server, NEW t \in ThreadId, thr'[s][t].pc = "apply"
               PROVE  thr'[s][t].bal = acct'[s][thr'[s][t].req.acct]
    BY DEF Looked
  <1>2. up'[s]
    BY <1>1, IdleFields DEF OrderInv, Silent, Blank
  <1>3. thr[s][t] \in Thread /\ thr \in [Server -> [ThreadId -> Thread]]
    BY <1>1, BookTypes
  <1>4. ~Works(s)
    BY <1>1, WorksThreads
  <1>5. CASE Runs(s, t)
    <2>1. ProcCheck(s, t)
      <3>1. \/ thr'[s][t] = Idle \/ ProcCheck(s, t)
            \/ thr'[s][t].pc \in {"add", "wait", "check", "send", "hist", "ack"}
        BY <1>1, <1>5, RunsThread DEF Runs, ThreadStep, Moved, SyncNullNext, ReplyNowhere
      <3> QED BY <3>1, IdleFields
    <2>2. thr'[s][t].bal = acct[s][thr[s][t].req.acct] /\ acct' = acct
      BY <1>3, <2>1 DEF ProcCheck, At, Thread, books
    <2>3. thr'[s][t].req = thr[s][t].req
      BY <1>1, <1>5, <2>1, RunsThread
    <2> QED BY <2>2, <2>3
  <1>6. CASE ~Runs(s, t)
    <2>1. thr'[s][t] = thr[s][t]
      <3>1. ASSUME NEW a, Waiting(s, t), thr'[s][t] = WithAck(thr[s][t], a)
            PROVE  FALSE
        BY <1>3, <3>1, WithAckFields DEF Waiting
      <3> QED BY <1>1, <1>2, <1>4, <1>6, <3>1, Undisturbed
    <2>2. ASSUME NEW w \in ThreadId, Runs(s, w),
                 ProcApply(s, w) \/ ReplyHist(s, w) \/ SyncHist(s, w)
          PROVE  FALSE
      <3>1. Processes(s, w) /\ Processes(s, t)
        BY <2>1, <2>2 DEF Processes, ProcApply, ReplyHist, SyncHist, At
      <3> QED BY <1>1, <1>6, <2>2, <3>1, AloneProcesses
    <2>3. acct'[s] = acct[s]
      BY <1>1, <1>2, <1>4, <2>2, LedgerMoves
    <2> QED BY <2>1, <2>3 DEF Looked
  <1> QED BY <1>5, <1>6

-----------------------------------------------------------------------------
(* Whose turn it is.                                                       *)

LEMMA AfterIds ==
  ASSUME NEW B, NEW r
  PROVE  After(B, r).ids = Noted(B.ids, r) /\ B.ids \subseteq After(B, r).ids
  BY DEF After, Noted

LEMMA AfterQuery ==
  ASSUME NEW B \in AllBooks, NEW r, r.type = "Query"
  PROVE  After(B, r) = B
  BY DEF After, Noted, Applies, AllBooks

LEMMA BooksType ==
  ASSUME ChainInv, NEW s \in Server
  PROVE  BooksAt(s) \in AllBooks
  <1>1. acct[s] \in [Account -> Nat] /\ proc[s] \in SUBSET Request
    BY AcctType, BookTypes
  <1>2. acct[s] \in [Account -> Int]
    BY <1>1
  <1>3. IdsOf(proc[s]) \in SUBSET Id
    BY <1>1 DEF IdsOf, Request
  <1> QED BY <1>2, <1>3 DEF BooksAt, AllBooks

LEMMA IdsGrow ==
  ASSUME NEW O, NEW B, LevelOf(O, B)
  PROVE  O.ids \subseteq B.ids
  BY AfterIds DEF LevelOf

LEMMA TurnFront ==
  ASSUME NEW s \in Server, NEW t \in ThreadId, Turn(s, t)
  PROVE  Front(s, "thr", t) /\ "thr" \in Form /\ t \in Spot
  BY DEF Turn, Front, Form, Spot

LEMMA TurnAlone ==
  ASSUME WayInv, NEW s \in Server, NEW t \in ThreadId, Turn(s, t),
         NEW k \in Form, NEW a \in Spot, NEW u \in Server, Front(u, k, a)
  PROVE  u = s /\ k = "thr" /\ a = t
  BY TurnFront DEF WayInv, OneRequest

\* Where a request is, no other thread processes one.
LEMMA AloneFront ==
  ASSUME WayInv, NEW s \in Server, NEW k \in Form, NEW a \in Spot, Front(s, k, a),
         NEW w \in ThreadId, Processes(s, w)
  PROVE  k = "thr" /\ a = w
  <1>1. ChainInv /\ OneRequest /\ Shaped(thr[s][w])
    BY DEF WayInv, OrderInv, Shape
  <1>2. thr[s][w].role \in {"Sync", "Reply"}
    BY <1>1, BookTypes DEF Thread, Shaped
  <1>3. CASE Carries(s, w)
    <2>1. Front(s, "thr", w) /\ "thr" \in Form /\ w \in Spot
      BY <1>3 DEF Front, Form, Spot
    <2> QED BY <1>1, <2>1 DEF OneRequest
  <1>4. CASE Finishes(s, w)
    <2>1. Precedes(s, s)
      BY <1>4 DEF WayInv, FinishBehind, Behind
    <2> QED BY <1>1, <2>1, PrecedesOrder
  <1> QED BY <1>1, <1>2, <1>3, <1>4 DEF Processes, Carries, Finishes, Shaped

\* While the request is on its way to the tail nobody processes one.
LEMMA QuietFront ==
  ASSUME WayInv, NEW s \in Server, NEW k \in Form, NEW a \in Spot, Front(s, k, a),
         ~Acknowledged(s, k, a), NEW u \in Server, NEW w \in ThreadId, Processes(u, w)
  PROVE  s = u /\ k = "thr" /\ a = w
  <1>1. ChainInv /\ OneRequest /\ Shaped(thr[u][w])
    BY DEF WayInv, OrderInv, Shape
  <1>2. thr[u][w].role \in {"Sync", "Reply"}
    BY <1>1, BookTypes DEF Thread, Shaped
  <1>3. CASE Carries(u, w)
    <2>1. Front(u, "thr", w) /\ "thr" \in Form /\ w \in Spot
      BY <1>3 DEF Front, Form, Spot
    <2> QED BY <1>1, <2>1 DEF OneRequest
  <1>4. CASE Finishes(u, w)
    BY <1>4 DEF WayInv, FinishBehind, Behind
  <1> QED BY <1>1, <1>2, <1>3, <1>4 DEF Processes, Carries, Finishes, Shaped

\* A thread's own steps, between ReplyStart and the ACK.
LEMMA RunsTurn ==
  ASSUME WayInv, NEW s \in Server, NEW t \in ThreadId, Runs(s, t), ~PassesBack(s, t),
         ~ReplyStart(s, t)
  PROVE  /\ Turn(s, t)' <=> Turn(s, t)
         /\ Turn(s, t) => /\ thr'[s][t].ack = thr[s][t].ack
                          /\ thr'[s][t].chan = thr[s][t].chan
  <1>1. ChainInv /\ Downward /\ Shaped(thr[s][t])
    BY DEF WayInv, OrderInv, Shape
  <1>2. CASE SyncConnect(s, t)
    <2>1. thr[s][t].pc = "connect" /\ thr[s][t].ack = "none"
      BY <1>1, <1>2 DEF SyncConnect, At, Shaped
    <2>2. thr'[s][t] = Idle \/ (thr'[s][t].pc = "add" /\ thr'[s][t].ack = thr[s][t].ack)
      BY <1>1, <1>2, RunsThread
    <2> QED BY <2>1, <2>2, IdleFields DEF Turn, Carries
  <1>3. CASE SyncAdd(s, t)
    <2>1. Moved(s, t, "add", "wait")
      BY <1>1, <1>3, RunsThread
    <2> QED BY <2>1 DEF Turn, Carries, Moved
  <1>4. CASE SyncEof(s, t)
    <2>1. thr[s][t].ack = "eof" /\ thr'[s][t] = Idle /\ thr[s][t].pc = "wait"
      BY <1>1, <1>4, RunsThread DEF SyncEof, At
    <2> QED BY <2>1, IdleFields DEF Turn, Carries
  <1>5. CASE SyncHist(s, t)
    <2>1. thr[s][t].pc = "hist" /\ thr[s][t].role = "Sync" /\ thr'[s][t] = Idle
      BY <1>1, <1>5, RunsThread
    <2> QED BY <1>1, <2>1, IdleFields DEF Turn, Carries, Shaped
  <1>6. CASE ProcCheck(s, t)
    <2>1. Moved(s, t, "check", "apply")
      BY <1>1, <1>6, RunsThread
    <2> QED BY <2>1 DEF Turn, Carries, Moved
  <1>7. CASE ProcApply(s, t)
    <2>1. Moved(s, t, "apply", IF thr[s][t].role = "Reply" THEN "send" ELSE "hist")
      BY <1>1, <1>7, RunsThread
    <2> QED BY <2>1 DEF Turn, Carries, Moved
  <1>8. CASE ReplySend(s, t)
    <2>1. Moved(s, t, "send", "hist") /\ thr[s][t].role = "Reply"
      BY <1>1, <1>8, RunsThread DEF Shaped, Moved
    <2> QED BY <2>1 DEF Turn, Carries, Moved
  <1>9. CASE ReplyHist(s, t)
    <2>1. Moved(s, t, "hist", "ack") /\ thr[s][t].role = "Reply"
      BY <1>1, <1>9, RunsThread
    <2> QED BY <2>1 DEF Turn, Carries, Moved
  <1> QED BY <1>2, <1>3, <1>4, <1>5, <1>6, <1>7, <1>8, <1>9
         DEF Runs, ThreadStep, PassesBack, SyncNullNext, ReplyNowhere

LEMMA SameTurns ==
  ASSUME Timing, MaxKills = 0, BookInv, BookInv', Addressed, [Next]_vars,
         \A z \in Server, w \in ThreadId :
            ~PassesBack(z, w) /\ ~(Runs(z, w) /\ ReplyStart(z, w)),
         NEW s \in Server, NEW t \in ThreadId
  PROVE  /\ Turn(s, t)' <=> Turn(s, t)
         /\ Turn(s, t) => /\ up[s] /\ up'[s] /\ thr'[s][t].ack = thr[s][t].ack
                          /\ Args(s, t)' = Args(s, t)
  <1>1. WayInv /\ OrderInv /\ OrderInv' /\ ChainInv /\ Downward /\ Shaped(thr[s][t])
        /\ PromptThreads
    BY DEF BookInv, WayInv, OrderInv, Shape, Timing
  <1>2. Turn(s, t)' => up'[s]
    BY <1>1, PresentNext DEF Turn
  <1>3. Turn(s, t) => up[s] /\ up'[s] /\ ~Works(s)
    BY <1>1, TurnLives
  <1>4. CASE Works(s)
    <2>1. ~Turn(s, t)'
      BY <1>1, <1>4, WorksThreads DEF Turn, Carries, Shaped
    <2>2. ~Turn(s, t)
      BY <1>3, <1>4
    <2> QED BY <2>1, <2>2 DEF Turn
  <1>5. CASE Runs(s, t)
    <2>1. args' = args
      BY <1>5, RunsUp
    <2>2. /\ Turn(s, t)' <=> Turn(s, t)
          /\ Turn(s, t) => /\ thr'[s][t].ack = thr[s][t].ack
                           /\ thr'[s][t].chan = thr[s][t].chan
      BY <1>1, <1>5, RunsTurn
    <2> QED BY <1>3, <2>1, <2>2 DEF Args
  <1>6. CASE ~Works(s) /\ ~Runs(s, t) /\ up'[s]
    <2>1. thr[s][t] \in Thread
      BY <1>1, BookTypes
    <2>2. args'[s] = args[s]
      BY <1>1, <1>6, Untouched DEF Rests
    <2>3. CASE thr'[s][t] = thr[s][t]
      BY <1>3, <2>2, <2>3 DEF Turn, Carries, Args
    <2>4. CASE Waiting(s, t) /\ thr'[s][t] = WithAck(thr[s][t], "eof")
      <3>1. thr'[s][t].ack = "eof" /\ thr'[s][t].pc = thr[s][t].pc
        BY <2>1, <2>4, WithAckFields
      <3> QED BY <2>4, <3>1 DEF Turn, Carries, Waiting
    <2> QED BY <1>1, <1>6, <2>3, <2>4, Undisturbed DEF PassesBack
  <1> QED BY <1>2, <1>3, <1>4, <1>5, <1>6

LEMMA SameOwing ==
  ASSUME Timing, MaxKills = 0, BookInv, BookInv', PlaceInv, Addressed, [Next]_vars,
         \A z \in Server, w \in ThreadId :
            ~PassesBack(z, w) /\ ~(Runs(z, w) /\ ReplyStart(z, w)),
         NEW u \in Server, up'[u]
  PROVE  Owing(u)' <=> Owing(u)
  <1>1. OrderKept /\ Shrinks
    BY NextOrder, ShrinksNext DEF BookInv, WayInv, OrderInv, PlaceInv
  <1>2. ASSUME NEW s \in Server, NEW t \in ThreadId, Turn(s, t)',
               Precedes(u, s)' \/ (u = s /\ thr'[s][t].ack = "acked")
        PROVE  Owing(u)
    <2>1. Turn(s, t) /\ thr'[s][t].ack = thr[s][t].ack
      BY <1>2, SameTurns
    <2> QED BY <1>1, <1>2, <2>1 DEF Owing, Shrinks
  <1>3. ASSUME NEW s \in Server, NEW t \in ThreadId, Turn(s, t),
               Precedes(u, s) \/ (u = s /\ thr[s][t].ack = "acked")
        PROVE  Owing(u)'
    <2>1. Turn(s, t)' /\ up'[s] /\ thr'[s][t].ack = thr[s][t].ack
      BY <1>3, SameTurns
    <2>2. Precedes(u, s) => Precedes(u, s)'
      BY <1>1, <2>1, StayBefore
    <2> QED BY <1>3, <2>1, <2>2 DEF Owing
  <1>4. Owing(u)' => Owing(u)
    BY <1>2 DEF Owing
  <1>5. Owing(u) => Owing(u)'
    BY <1>3 DEF Owing
  <1> QED BY <1>4, <1>5 DEF Owing

-----------------------------------------------------------------------------
(* What becomes of the books.                                              *)

LEMMA DoneSame ==
  ASSUME NEW u \in Server, NEW X, Done(u, X), acct'[u] = acct[u], proc'[u] = proc[u],
         \A w \in ThreadId :
            /\ thr'[u][w].pc \in {"check", "apply"} <=> thr[u][w].pc \in {"check", "apply"}
            /\ thr'[u][w].pc \in {"send", "hist"} <=> thr[u][w].pc \in {"send", "hist"}
            /\ Processes(u, w) => thr'[u][w].req = thr[u][w].req
  PROVE  Done(u, X)'
  <1>1. BooksAt(u)' = BooksAt(u)
    BY DEF BooksAt
  <1>2. ASSUME NEW w \in ThreadId, thr'[u][w].pc \in {"check", "apply"}
        PROVE  X = After(BooksAt(u)', thr'[u][w].req)
    <2>1. Processes(u, w) /\ X = After(BooksAt(u), thr[u][w].req)
      BY <1>2 DEF Done, Processes
    <2> QED BY <1>1, <2>1
  <1>3. ASSUME NEW w \in ThreadId, thr'[u][w].pc \in {"send", "hist"}
        PROVE  X = [acct |-> acct'[u], ids |-> Noted(IdsOf(proc'[u]), thr'[u][w].req)]
    <2>1. /\ Processes(u, w)
          /\ X = [acct |-> acct[u], ids |-> Noted(IdsOf(proc[u]), thr[u][w].req)]
      BY <1>3 DEF Done, Processes
    <2> QED BY <2>1
  <1>4. ASSUME \A w \in ThreadId : ~Processes(u, w)'
        PROVE  X = BooksAt(u)'
    <2>1. \A w \in ThreadId : ~Processes(u, w)
      BY <1>4 DEF Processes
    <2> QED BY <1>1, <2>1 DEF Done
  <1>5. \A w \in ThreadId : thr'[u][w].pc \in {"check", "apply"} =>
           X = After(BooksAt(u), thr[u][w].req)'
    BY <1>2 DEF After
  <1> QED BY <1>3, <1>4, <1>5 DEF Done

\* The books of a server where nothing happens.
LEMMA DoneBeside ==
  ASSUME OrderInv, [Next]_vars, NEW u \in Server, up'[u], ~Works(u),
         \A w \in ThreadId : ~Runs(u, w),
         NEW X, Done(u, X)
  PROVE  Done(u, X)'
  <1>1. PromptThreads /\ ChainInv
    BY DEF OrderInv
  <1>2. acct'[u] = acct[u] /\ proc'[u] = proc[u]
    BY <1>1, LedgerMoves
  <1>3. ASSUME NEW w \in ThreadId
        PROVE  /\ thr'[u][w].pc = thr[u][w].pc
               /\ thr'[u][w].req = thr[u][w].req
    <2>1. \E a : thr'[u][w] = thr[u][w] \/ thr'[u][w] = WithAck(thr[u][w], a)
      BY Undisturbed
    <2> QED BY <1>1, <2>1, BookTypes, WithAckFields
  <1> QED BY <1>2, <1>3, DoneSame

\* The balance changes as if the history had been looked up by identifier.
LEMMA AppliesById ==
  ASSUME NEW r, NEW P, NEW b
  PROVE  /\ Applies(r, CheckHist(r, P), b)
               <=> Applies(r, IF r.id \in IdsOf(P) THEN "Duplicate" ELSE "New", b)
         /\ r.id \in IdsOf(P) => ~Applies(r, CheckHist(r, P), b)
  BY DEF Applies, CheckHist, IdsOf, Same

LEMMA AckNotes ==
  ASSUME NEW r, NEW S, NEW P,
         r.type = "Query" \/ (\E q \in S : Same(q, r)) \/ r.id \in IdsOf(P)
  PROVE  /\ IdsOf(AckProc(r, S, P)) = Noted(IdsOf(P), r)
         /\ r.type = "Query" \/ r.id \in IdsOf(P) => AckProc(r, S, P) = P
  <1>1. CheckHist(r, P) = "New" <=> r.id \notin IdsOf(P)
    BY DEF CheckHist, IdsOf, Same
  <1>2. CASE r.type = "Query"
    BY <1>2 DEF AckProc, Noted
  <1>3. CASE r.type # "Query" /\ r.id \in IdsOf(P)
    BY <1>1, <1>3 DEF AckProc, Noted
  <1>4. CASE r.type # "Query" /\ r.id \notin IdsOf(P)
    <2>1. AckProc(r, S, P) = P \cup {r}
      BY <1>1, <1>4 DEF AckProc
    <2> QED BY <1>4, <2>1 DEF IdsOf, Noted
  <1> QED BY <1>2, <1>3, <1>4

LEMMA DoneApply ==
  ASSUME WayInv, Looked, NEW u \in Server, BooksOf(u), NEW t \in ThreadId, Runs(u, t),
         ProcApply(u, t), NEW X, Done(u, X)
  PROVE  Done(u, X)'
  <1>1. /\ ChainInv /\ Downward /\ acct \in [Server -> [Account -> Nat]]
        /\ thr \in [Server -> [ThreadId -> Thread]] /\ thr[u][t] \in Thread
    BY AcctType, BookTypes DEF WayInv, OrderInv
  <1>2. PICK r \in Request : r = thr[u][t].req
    BY <1>1 DEF Thread
  <1>3. /\ thr[u][t].pc = "apply" /\ Processes(u, t) /\ proc' = proc
        /\ thr[u][t].hist = CheckHist(r, proc[u]) /\ thr[u][t].bal = acct[u][r.acct]
    BY <1>2 DEF ProcApply, At, Processes, BooksOf, Prepared, Looked
  <1>4. PICK b \in Nat : b = acct[u][r.acct]
    BY <1>1 DEF Request
  <1>5. acct'[u] = IF Applies(r, CheckHist(r, proc[u]), b)
                   THEN [acct[u] EXCEPT ![r.acct] = NewBal(r, b)] ELSE acct[u]
    BY <1>1, <1>2, <1>3, <1>4 DEF ProcApply, Credit
  <1>6. X = [acct |-> acct'[u], ids |-> Noted(IdsOf(proc'[u]), r)]
    <2>1. X = After(BooksAt(u), r)
      BY <1>2, <1>3 DEF Done
    <2> QED BY <1>3, <1>4, <1>5, <2>1, AppliesById DEF After, BooksAt
  <1>7. /\ thr'[u][t].pc \in {"send", "hist"} /\ thr'[u][t].req = r
        /\ \A w \in ThreadId : w # t => thr'[u][w] = thr[u][w] /\ ~Processes(u, w)
    <2>1. /\ Moved(u, t, "apply", IF thr[u][t].role = "Reply" THEN "send" ELSE "hist")
          /\ thr'[u][t].req = thr[u][t].req
      BY <1>1, RunsThread
    <2> QED BY <1>1, <1>2, <1>3, <2>1, RunsSelf, AloneProcesses DEF Moved
  <1> QED BY <1>6, <1>7 DEF Done, Processes

LEMMA DoneHist ==
  ASSUME WayInv, NEW u \in Server, BooksOf(u), NEW t \in ThreadId, Runs(u, t),
         ReplyHist(u, t) \/ SyncHist(u, t), NEW X, Done(u, X)
  PROVE  Done(u, X)'
  <1>1. ChainInv /\ Downward /\ proc \in [Server -> SUBSET Request]
    BY BookTypes DEF WayInv, OrderInv
  <1>2. PICK r : r = thr[u][t].req
    OBVIOUS
  <1>3. thr[u][t].pc = "hist" /\ Processes(u, t) /\ Args(u, t).req = r
    BY <1>2 DEF ReplyHist, SyncHist, At, Processes, BooksOf, Prepared
  <1>4. PICK S : /\ proc'[u] = AckProc(r, S, proc[u])
                 /\ r.type = "Query" \/ (\E q \in S : Same(q, r)) \/ r.id \in IdsOf(proc[u])
    <2>1. CASE ReplyHist(u, t)
      <3>1. proc'[u] = AckProc(r, AddsentTrans(r, sent[u]), proc[u])
        BY <1>1, <1>3, <2>1 DEF ReplyHist
      <3>2. r.type = "Query" \/ \E q \in AddsentTrans(r, sent[u]) : Same(q, r)
        BY DEF AddsentTrans, Same
      <3> QED BY <3>1, <3>2
    <2>2. CASE SyncHist(u, t)
      <3>1. proc'[u] = AckProc(r, sent[u], proc[u])
        BY <1>1, <1>3, <2>2 DEF SyncHist
      <3>2. Stored(u, r)
        BY <1>2, <1>3, <2>2 DEF SyncHist, BooksOf, Grounded, Finishes
      <3> QED BY <3>1, <3>2 DEF Stored
    <2> QED BY <2>1, <2>2
  <1>5. acct' = acct
    BY DEF ReplyHist, SyncHist
  <1>6. X = BooksAt(u)'
    <2>1. X = [acct |-> acct[u], ids |-> Noted(IdsOf(proc[u]), r)]
      BY <1>2, <1>3 DEF Done
    <2> QED BY <1>4, <1>5, <2>1, AckNotes DEF BooksAt
  <1>7. \A w \in ThreadId : thr'[u][w].pc \notin {"check", "apply", "send", "hist"}
    <2>1. thr'[u][t].pc \in {"ack", "idle"}
      BY <1>1, RunsThread, IdleFields DEF Moved
    <2>2. \A w \in ThreadId : w # t => thr'[u][w] = thr[u][w] /\ ~Processes(u, w)
      BY <1>1, <1>3, RunsSelf, AloneProcesses
    <2> QED BY <2>1, <2>2 DEF Processes
  <1> QED BY <1>6, <1>7 DEF Done, Processes

LEMMA DoneRuns ==
  ASSUME WayInv, Looked, [Next]_vars, NEW u \in Server, BooksOf(u), up'[u],
         NEW t \in ThreadId, Runs(u, t), ~PassesBack(u, t), ~ReplyStart(u, t),
         NEW X, Done(u, X)
  PROVE  Done(u, X)'
  <1>1. ChainInv /\ Downward
    BY DEF WayInv, OrderInv
  <1>2. CASE ProcApply(u, t) \/ ReplyHist(u, t) \/ SyncHist(u, t)
    BY <1>2, DoneApply, DoneHist
  <1>3. CASE ~(ProcApply(u, t) \/ ReplyHist(u, t) \/ SyncHist(u, t))
    <2>1. acct'[u] = acct[u] /\ proc'[u] = proc[u]
      BY <1>3 DEF Runs, ThreadStep, SyncConnect, SyncNullNext, SyncAdd, SyncEof,
         SyncAcked, ReplyStart, ProcCheck, ReplySend, ReplyNowhere, ReplyAck, books
    <2>2. /\ thr'[u][t].pc \in {"check", "apply"} <=> thr[u][t].pc \in {"check", "apply"}
          /\ thr'[u][t].pc \in {"send", "hist"} <=> thr[u][t].pc \in {"send", "hist"}
          /\ Processes(u, t) => thr'[u][t].req = thr[u][t].req
      <3>1. CASE SyncConnect(u, t) \/ SyncEof(u, t)
        <4>1. thr[u][t].pc \in {"connect", "wait"} /\ thr'[u][t].pc \in {"idle", "add"}
          BY <1>1, <3>1, RunsThread, IdleFields DEF SyncConnect, SyncEof, At
        <4> QED BY <4>1 DEF Processes
      <3>2. CASE SyncAdd(u, t)
        <4>1. Moved(u, t, "add", "wait")
          BY <1>1, <3>2, RunsThread
        <4> QED BY <4>1 DEF Processes, Moved
      <3>3. CASE ProcCheck(u, t)
        <4>1. Moved(u, t, "check", "apply") /\ thr'[u][t].req = thr[u][t].req
          BY <1>1, <3>3, RunsThread
        <4> QED BY <4>1 DEF Processes, Moved
      <3>4. CASE ReplySend(u, t)
        <4>1. Moved(u, t, "send", "hist") /\ thr'[u][t].req = thr[u][t].req
          BY <1>1, <3>4, RunsThread
        <4> QED BY <4>1 DEF Processes, Moved
      <3> QED BY <1>3, <3>1, <3>2, <3>3, <3>4
              DEF Runs, ThreadStep, PassesBack, SyncNullNext, ReplyNowhere
    <2>3. \A w \in ThreadId : w # t => thr'[u][w] = thr[u][w]
      BY <1>1, RunsSelf
    <2> QED BY <2>1, <2>2, <2>3, DoneSame
  <1> QED BY <1>2, <1>3

\* What is synchronized changes nothing where it is known.
LEMMA DoneWorks ==
  ASSUME WayInv, PromptThreads, Itemized, TextsPlain, [Next]_vars,
         NEW u \in Server, up'[u], Works(u), NEW X, Done(u, X),
         \A p \in Elements(tcp[u]) : p.msg.kind = "SyncProc" => p.msg.req.id \in X.ids
  PROVE  Done(u, X)'
  <1>1. ChainInv
    BY DEF WayInv, OrderInv
  <1>2. \A w \in ThreadId : ~Processes(u, w) /\ ~Processes(u, w)'
    BY <1>1, WorksThreads DEF Processes
  <1>3. X = BooksAt(u)
    BY <1>2 DEF Done
  <1>4. acct'[u] = acct[u] /\ proc'[u] = proc[u]
    <2>1. CASE AcceptSyncProc(u)
      <3>1. tcp[u] # <<>> /\ "SyncProc" \in SyncTypes(Head(tcp[u]).msg)
        BY <2>1 DEF AcceptSyncProc, Accepts
      <3>2. /\ Head(tcp[u]) = tcp[u][1] /\ 1 \in DOMAIN tcp[u]
            /\ Head(tcp[u]) \in Elements(tcp[u])
        BY <1>1, <3>1, BookTypes, TailElements
      <3>3. PICK m \in Text : m = Head(tcp[u]).msg
        BY <1>1, <2>1, <3>1, HeadPacketType, BankInvNow
           DEF ChainInv, AcceptSyncProc, Accepts
      <3>4. PICK r \in Request : r = Parse(m)
        BY ParseType
      <3>5. r.type = "Query" \/ r.id \in IdsOf(proc[u])
        <4>1. CASE m.kind = "SyncProc"
          <5>1. m \in RequestText
            BY <4>1 DEF Text, NotiText, NotiKind
          <5>2. m.req.id \in X.ids
            BY <3>2, <3>3, <4>1
          <5> QED BY <1>3, <3>4, <5>1, <5>2 DEF Parse, BooksAt
        <4>2. CASE m.kind # "SyncProc"
          <5>1. m.kind # "SyncSent"
            BY <3>1, <3>3 DEF SyncTypes
          <5>2. Front(u, "tcp", 1) /\ "tcp" \in Form /\ 1 \in Spot /\ ~Begun(u, "tcp", 1)
            BY <3>2, <3>3, <4>2, <5>1 DEF Front, Form, Spot, Begun
          <5>3. Plain(m)
            BY <3>2, <3>3, <5>2 DEF TextsPlain, TextOf
          <5>4. m.req.type = "Query" /\ m \in RequestText
            BY <3>1, <3>3, <5>3 DEF SyncTypes, Plain, Text, NotiText, NotiKind
          <5> QED BY <3>4, <5>4 DEF Parse
        <4> QED BY <4>1, <4>2
      <3>6. ~Applies(r, CheckHist(r, proc[u]), acct[u][r.acct])
        BY <3>5, AppliesById DEF Applies
      <3>7. acct' = acct
        BY <2>1, <3>3, <3>4, <3>6 DEF AcceptSyncProc
      <3>8. proc'[u] = AckProc(r, AddsentTrans(r, sent[u]), proc[u])
        BY <1>1, <2>1, <3>3, <3>4, BookTypes DEF AcceptSyncProc
      <3> QED BY <3>5, <3>7, <3>8, AckNotes
    <2>2. CASE ~AcceptSyncProc(u)
      <3>1. ASSUME NEW t \in ThreadId, Runs(u, t),
                   ProcApply(u, t) \/ ReplyHist(u, t) \/ SyncHist(u, t)
            PROVE  FALSE
        BY <1>2, <3>1 DEF ProcApply, ReplyHist, SyncHist, At, Processes
      <3> QED BY <1>1, <2>2, <3>1, LedgerMoves
    <2> QED BY <2>1, <2>2
  <1>5. X = BooksAt(u)'
    BY <1>3, <1>4 DEF BooksAt
  <1> QED BY <1>2, <1>5 DEF Done, Processes

\* A server that neither begins nor hands over.
LEMMA DoneKept ==
  ASSUME WayInv, PromptThreads, Itemized, TextsPlain, Looked, [Next]_vars,
         NEW u \in Server, up'[u], BooksOf(u), NEW X, Done(u, X),
         \A w \in ThreadId : ~PassesBack(u, w) /\ ~(Runs(u, w) /\ ReplyStart(u, w)),
         \A p \in Elements(tcp[u]) : p.msg.kind = "SyncProc" => p.msg.req.id \in X.ids
  PROVE  Done(u, X)'
  <1>1. CASE Works(u)
    BY <1>1, DoneWorks
  <1>2. ASSUME NEW t \in ThreadId, Runs(u, t)
        PROVE  Done(u, X)'
    BY <1>2, DoneRuns
  <1>3. CASE ~Works(u) /\ \A w \in ThreadId : ~Runs(u, w)
    BY <1>3, DoneBeside DEF WayInv
  <1> QED BY <1>1, <1>2, <1>3

-----------------------------------------------------------------------------
(* The books agree up to the request that is on its way.                   *)

\* Where a history entry that arrives was pushed.
LEMMA PacketsFrom ==
  ASSUME OrderInv, TextsPlain, [Next]_vars, NEW u \in Server,
         NEW p \in Elements(tcp'[u]), p.msg.kind = "SyncProc"
  PROVE  \/ p \in Elements(tcp[u])
         \/ \E z \in Server : /\ Works(z) /\ up[z] /\ up[u] /\ u = next[z]
                              /\ p.msg.req.id \in IdsOf(proc[z])
  <1>1. ChainInv /\ tcp \in [Server -> Seq(Packet)] /\ NoConn \in Conn
    BY BookTypes, NoConnType DEF OrderInv
  <1>2. ASSUME NEW q \in Packet, tcp'[u] = Append(tcp[u], q), p \notin Elements(tcp[u])
        PROVE  p = q
    BY <1>1, <1>2, AppendElements
  <1>3. ASSUME tcp'[u] = Tail(tcp[u]), tcp[u] # <<>>
        PROVE  p \in Elements(tcp[u])
    BY <1>1, <1>3, TailElements
  <1>4. ASSUME NEW z \in Server, Works(z), p \notin Elements(tcp[u])
        PROVE  up[z] /\ up[u] /\ u = next[z] /\ p.msg.req.id \in IdsOf(proc[z])
    <2>1. up[z]
      BY <1>4, WorksUp
    <2>2. CASE SyncProcTrans(z)
      <3>1. PICK r \in proc[z] :
               /\ NextUp(z) /\ Connect(next[z], Push("SyncProc", r), NoConn)
        BY <2>2 DEF SyncProcTrans, Ahead
      <3>2. r \in Request
        BY <1>1, BookTypes
      <3>3. PICK m \in Text : m = Push("SyncProc", r)
        BY <3>2, PushType
      <3>4. PICK q \in Packet : q = [msg |-> m, conn |-> NoConn]
        BY <1>1, PacketType
      <3>5. u = next[z] /\ tcp'[u] = Append(tcp[u], q)
        <4>1. next[z] \in Server /\ tcp' = [tcp EXCEPT ![next[z]] = Append(@, q)]
          BY <3>1, <3>3, <3>4 DEF Connect, NextUp
        <4>2. u # next[z] => tcp'[u] = tcp[u]
          BY <1>1, <4>1
        <4> QED BY <1>1, <1>4, <4>1, <4>2
      <3>6. p = q
        BY <1>2, <1>4, <3>5
      <3>7. p.msg.req.id = r.id
        BY <3>2, <3>3, <3>4, <3>6 DEF Push, Request
      <3> QED BY <2>1, <3>1, <3>5, <3>7 DEF NextUp, IdsOf
    <2>3. CASE SyncSentTrans(z)
      <3>1. PICK r \in Unsent(z) :
               /\ NextUp(z) /\ Connect(next[z], Push("SyncSent", r), NoConn)
        BY <2>3 DEF SyncSentTrans
      <3>2. r \in Request
        BY <1>1, BookTypes DEF Unsent
      <3>3. PICK m \in Text : m = Push("SyncSent", r) /\ m.kind = "SyncSent"
        BY <3>2, PushType DEF Push
      <3>4. PICK q \in Packet : q = [msg |-> m, conn |-> NoConn]
        BY <1>1, PacketType
      <3>5. tcp'[u] = tcp[u] \/ tcp'[u] = Append(tcp[u], q)
        <4>1. next[z] \in Server /\ tcp' = [tcp EXCEPT ![next[z]] = Append(@, q)]
          BY <3>1, <3>3, <3>4 DEF Connect, NextUp
        <4> QED BY <1>1, <4>1
      <3>6. p = q
        BY <1>2, <1>4, <3>5
      <3> QED BY <3>3, <3>4, <3>6
    <2>4. CASE AcceptSyncSent(z)
      <3>1. tcp[z] # <<>> /\ "SyncSent" \in SyncTypes(Head(tcp[z]).msg)
        BY <2>4 DEF AcceptSyncSent, Accepts
      <3>2. PICK m \in Text : m = Head(tcp[z]).msg /\ m.kind # "SyncProc"
        BY <1>1, <2>4, <3>1, HeadPacketType, BankInvNow
           DEF ChainInv, SyncTypes, AcceptSyncSent, Accepts
      <3>3. PICK q \in Packet : q = [msg |-> m, conn |-> NoConn]
        BY <1>1, PacketType
      <3>4. \/ tcp'[u] = tcp[u] \/ (u = z /\ tcp'[u] = Tail(tcp[u]))
            \/ tcp'[u] = Append(tcp[u], q)
            \/ u = z /\ tcp'[u] = Append(Tail(tcp[u]), q)
        BY <1>1, <2>4, <3>2, <3>3 DEF AcceptSyncSent
      <3>5. Elements(Append(Tail(tcp[z]), q)) \subseteq Elements(tcp[z]) \cup {q}
        <4>1. PICK Q \in Seq(Packet) : Q = Tail(tcp[z])
          BY <1>1, <3>1, HeadPacketType, BankInvNow DEF ChainInv
        <4>2. Elements(Append(Q, q)) = Elements(Q) \cup {q}
          BY AppendElements
        <4>3. Elements(Tail(tcp[z])) \subseteq Elements(tcp[z])
          BY <1>1, <3>1, TailElements
        <4> QED BY <4>1, <4>2, <4>3
      <3>6. p = q
        <4>1. CASE tcp'[u] = tcp[u]
          BY <1>4, <4>1
        <4>2. CASE u = z /\ tcp'[u] = Tail(tcp[u])
          BY <1>3, <1>4, <3>1, <4>2
        <4>3. CASE tcp'[u] = Append(tcp[u], q)
          BY <1>2, <1>4, <4>3
        <4>4. CASE u = z /\ tcp'[u] = Append(Tail(tcp[u]), q)
          BY <1>4, <3>5, <4>4
        <4> QED BY <3>4, <4>1, <4>2, <4>3, <4>4
      <3> QED BY <3>2, <3>3, <3>6
    <2>5. CASE ~SyncProcTrans(z) /\ ~SyncSentTrans(z) /\ ~AcceptSyncSent(z)
      <3>1. \/ tcp'[u] = tcp[u]
            \/ tcp'[u] = Tail(tcp[u]) /\ tcp[u] # <<>>
        BY <1>1, <1>4, <2>5 DEF Works, MainLoop, Synchronize, RecvNotification, DropRequest,
           RecvRequest, ExpireOnRequest, AcceptRequest, ExpireOnAccept, AcceptSyncSentNoNext,
           AcceptSyncProc, SyncSentEnd, SyncDone, TakePacket, Accepts, wireVars
      <3> QED BY <1>3, <1>4, <3>1
    <2> QED BY <2>2, <2>3, <2>4, <2>5
  <1>5. ASSUME NEW z \in Server, NEW t \in ThreadId, Runs(z, t), p \notin Elements(tcp[u])
        PROVE  FALSE
    <2>1. CASE SyncConnect(z, t) /\ NextUp(z)
      <3>1. thr[z][t].pc = "connect"
        BY <2>1 DEF SyncConnect, At
      <3>2. Front(z, "thr", t) /\ ~Begun(z, "thr", t) /\ "thr" \in Form /\ t \in Spot
        BY <3>1 DEF Front, Carries, Begun, Form, Spot
      <3>3. PICK m \in Text : m = buf[z] /\ m.kind = "Raw"
        <4>1. Plain(TextOf(z, "thr", t)) /\ TextOf(z, "thr", t) = buf[z]
          BY <3>2 DEF TextsPlain, TextOf
        <4> QED BY <1>1, <4>1, BookTypes DEF Plain
      <3>4. PICK q \in Packet : q = [msg |-> m, conn |-> [srv |-> z, thr |-> t]]
        <4>1. [srv |-> z, thr |-> t] \in Conn
          BY DEF Conn
        <4> QED BY <4>1, PacketType
      <3>5. tcp'[u] = tcp[u] \/ tcp'[u] = Append(tcp[u], q)
        <4>1. next[z] \in Server /\ tcp' = [tcp EXCEPT ![next[z]] = Append(@, q)]
          BY <2>1, <3>3, <3>4 DEF SyncConnect, Connect, NextUp
        <4> QED BY <1>1, <4>1
      <3>6. p = q
        BY <1>2, <1>5, <3>5
      <3> QED BY <3>3, <3>4, <3>6
    <2>2. CASE ~(SyncConnect(z, t) /\ NextUp(z))
      <3>1. tcp' = tcp
        BY <1>5, <2>2 DEF Runs, ThreadStep, SyncConnect, SyncNullNext, SyncAdd, SyncEof,
           SyncAcked, SyncHist, ReplyStart, ProcCheck, ProcApply, ReplySend, ReplyNowhere,
           ReplyHist, ReplyAck, wireVars
      <3> QED BY <1>5, <3>1
    <2> QED BY <2>1, <2>2
  <1>6. ASSUME NEW z \in Server, Dies(z)
        PROVE  p \in Elements(tcp[u])
    <2>1. tcp'[u] = <<>> \/ tcp'[u] = tcp[u]
      BY <1>1, <1>6 DEF Dies, Down
    <2> QED BY <2>1 DEF Elements
  <1>7. CASE \/ \E z \in Server : BankStart(z)
             \/ BankTimer \/ BankReceive \/ BankMaster \/ UNCHANGED vars
    <2>1. tcp' = tcp
      BY <1>1, <1>7, ClientsElsewhere, MasterElsewhere DEF BankStart, vars, wireVars
    <2> QED BY <2>1
  <1> QED BY <1>4, <1>5, <1>6, <1>7, StepKinds DEF OrderInv

LEMMA LevelForm ==
  ASSUME NEW O \in AllBooks, NEW B \in AllBooks,
         \A u \in Server : up'[u] =>
            /\ Owing(u)' => Done(u, O)'
            /\ ~Owing(u)' => Done(u, B)'
            /\ \A p \in Elements(tcp'[u]) : p.msg.kind = "SyncProc" =>
                  /\ Owing(u)' => p.msg.req.id \in O.ids
                  /\ ~Owing(u)' => p.msg.req.id \in B.ids,
         \A s \in Server, t \in ThreadId : Turn(s, t)' => B = After(O, Args(s, t).req)',
         (\A s \in Server, t \in ThreadId : ~Turn(s, t)') => O = B,
         QueriesApart => \A i \in UpdateIds : Replied(i)' => i \in B.ids
  PROVE  Level'
  <1>1. \A u \in Server : up'[u] => Done(u, Share(O, B, u))'
    BY DEF Share, Done
  <1>2. \A u \in Server : up'[u] => \A p \in Elements(tcp'[u]) :
           p.msg.kind = "SyncProc" => p.msg.req.id \in Share(O, B, u)'.ids
    BY DEF Share
  <1>3. LevelOf(O, B)'
    BY <1>1, <1>2 DEF LevelOf
  <1> QED BY <1>3 DEF Level

\* Who was answered was so before, or by the thread whose turn it is.
LEMMA RepliedNext ==
  ASSUME BookInv, PlaceInv, PlainInv, QueriesApart, [Next]_vars,
         NEW O, NEW B, LevelOf(O, B), NEW i \in UpdateIds, Replied(i)'
  PROVE  i \in B.ids
  <1>1. /\ PromptThreads /\ WayInv /\ OrderInv /\ ChainInv
        /\ NoJoins /\ Sought /\ OneRequest
    BY DEF BookInv, WayInv, OrderInv, PlaceInv, PlainInv
  <1>2. CASE Replied(i)
    BY <1>2 DEF LevelOf
  <1>3. ASSUME NEW s \in Server, NEW t \in ThreadId, Runs(s, t), ReplySend(s, t),
               i = thr[s][t].req.id
        PROVE  i \in B.ids
    <2>1. thr[s][t].pc = "send" /\ thr[s][t].ack = "none" /\ up[s] /\ Processes(s, t)
      BY <1>1, <1>3 DEF ReplySend, At, OrderInv, Shape, Shaped, Processes
    <2>2. Turn(s, t)
      BY <2>1 DEF Turn, Carries
    <2>3. ~Owing(s)
      <3> SUFFICES ASSUME NEW z \in Server, NEW w \in ThreadId, Turn(z, w),
                          Precedes(s, z) \/ (s = z /\ thr[z][w].ack = "acked")
                   PROVE  FALSE
        BY DEF Owing
      <3>1. z = s /\ w = t
        BY <1>1, <2>2, TurnFront, TurnAlone
      <3> QED BY <1>1, <2>1, <3>1, PrecedesOrder
    <2>4. Done(s, B)
      BY <2>1, <2>3 DEF LevelOf, Share, Done
    <2>5. B.ids = Noted(IdsOf(proc[s]), thr[s][t].req)
      BY <2>1, <2>4 DEF Done
    <2>6. CASE thr[s][t].req.type = "Query"
      <3>1. thr[s][t].req = What(s, "thr", t)
        BY <2>1 DEF BookInv, BooksInv, BooksOf, Prepared, What
      <3>2. thr[s][t].req \in Scripted
        BY <1>1, <2>2, <2>6, <3>1, TurnFront DEF Sought
      <3> QED BY <1>3, <2>6, <3>2 DEF Scripted, QueriesApart
    <2>7. CASE thr[s][t].req.type # "Query"
      BY <1>3, <2>5, <2>7 DEF Noted
    <2> QED BY <2>6, <2>7
  <1>4. ASSUME NEW m \in Elements(inbox'), m.kind = "Reply", m.id = i
        PROVE  i \in B.ids
    <2>1. \/ m \in Elements(inbox)
          \/ \E s \in Server, t \in ThreadId :
                Runs(s, t) /\ ReplySend(s, t) /\ m.id = thr[s][t].req.id
      BY <1>1, <1>4, InboxFrom
    <2> QED BY <1>2, <1>3, <1>4, <2>1 DEF Replied
  <1>5. ASSUME NEW p \in DOMAIN Script, accepted'[p] # NoReply, accepted'[p].id = i
        PROVE  Replied(i)
    BY <1>1, <1>5, AcceptedFrom DEF Replied
  <1> QED BY <1>2, <1>4, <1>5 DEF Replied

\* A step that begins nothing and hands nothing over.
LEMMA LevelKept ==
  ASSUME Timing, Itemized, MaxKills = 0, BookInv, BookInv', PlaceInv, PlainInv, Looked,
         Level, [Next]_vars,
         \A z \in Server, w \in ThreadId :
            ~PassesBack(z, w) /\ ~(Runs(z, w) /\ ReplyStart(z, w))
  PROVE  Level'
  <1>1. /\ WayInv /\ OrderInv /\ OrderInv' /\ ChainInv /\ Downward /\ Addressed /\ TextsPlain
        /\ PromptThreads /\ Shrinks
    BY ShrinksNext DEF BookInv, WayInv, OrderInv, PlaceInv, PlainInv, Timing
  <1>2. PICK O \in AllBooks, B \in AllBooks : LevelOf(O, B)
    BY DEF Level
  <1>3. ASSUME NEW u \in Server, up'[u]
        PROVE  /\ Owing(u)' => Done(u, O)'
               /\ ~Owing(u)' => Done(u, B)'
               /\ \A p \in Elements(tcp'[u]) : p.msg.kind = "SyncProc" =>
                     /\ Owing(u)' => p.msg.req.id \in O.ids
                     /\ ~Owing(u)' => p.msg.req.id \in B.ids
    <2>1. PICK X \in AllBooks : X = Share(O, B, u)
      BY DEF Share
    <2>2. /\ up[u] /\ BooksOf(u) /\ Done(u, X)
          /\ \A p \in Elements(tcp[u]) : p.msg.kind = "SyncProc" => p.msg.req.id \in X.ids
      BY <1>1, <1>2, <1>3, <2>1 DEF Shrinks, LevelOf, BookInv, BooksInv, Done
    <2>3. Done(u, X)'
      BY <1>1, <1>3, <2>2, DoneKept
    <2>4. /\ Owing(u)' => X = O
          /\ ~Owing(u)' => X = B
      BY <1>1, <1>3, <2>1, SameOwing DEF Share
    <2>5. ASSUME NEW p \in Elements(tcp'[u]), p.msg.kind = "SyncProc"
          PROVE  p.msg.req.id \in X.ids
      <3>1. CASE p \in Elements(tcp[u])
        BY <2>2, <2>5, <3>1
      <3>2. ASSUME NEW z \in Server, Works(z), up[z], up[u], u = next[z],
                   p.msg.req.id \in IdsOf(proc[z])
            PROVE  p.msg.req.id \in X.ids
        <4>1. Precedes(z, u)
          BY <1>1, <3>2, NextOther DEF NextUp
        <4>2. \A w \in ThreadId : ~Processes(z, w)
          BY <1>1, <3>2, WorksThreads DEF Processes
        <4>3. BooksAt(z) = Share(O, B, z)
          BY <1>2, <3>2, <4>2 DEF LevelOf, Done
        <4>4. p.msg.req.id \in Share(O, B, z).ids
          BY <3>2, <4>3 DEF BooksAt
        <4>5. Owing(u) => Owing(z)
          BY <1>1, <4>1, PrecedesOrder DEF Owing
        <4> QED BY <1>2, <2>1, <4>4, <4>5, IdsGrow DEF Share
      <3> QED BY <1>1, <2>5, <3>1, <3>2, PacketsFrom
    <2> QED BY <2>3, <2>4, <2>5 DEF Done
  <1>4. ASSUME NEW s \in Server, NEW t \in ThreadId, Turn(s, t)'
        PROVE  B = After(O, Args(s, t).req)'
    <2>1. Turn(s, t) /\ Args(s, t)' = Args(s, t)
      BY <1>1, <1>4, SameTurns
    <2> QED BY <1>2, <2>1 DEF LevelOf, After
  <1>5. ASSUME \A s \in Server, t \in ThreadId : ~Turn(s, t)'
        PROVE  O = B
    <2>1. \A s \in Server, t \in ThreadId : ~Turn(s, t)
      BY <1>1, <1>5, SameTurns
    <2> QED BY <1>2, <2>1 DEF LevelOf
  <1>6. QueriesApart => \A i \in UpdateIds : Replied(i)' => i \in B.ids
    BY <1>2, RepliedNext
  <1> QED BY <1>3, <1>4, <1>5, <1>6, LevelForm

LEMMA AfterType ==
  ASSUME NEW B \in AllBooks, NEW r \in Request
  PROVE  After(B, r) \in AllBooks
  <1>1. r.amt \in Nat /\ r.acct \in Account /\ r.id \in Id /\ B.acct \in [Account -> Int]
        /\ B.ids \in SUBSET Id
    BY DEF Request, AllBooks
  <1>2. NewBal(r, B.acct[r.acct]) \in Int
    BY <1>1 DEF NewBal
  <1>3. [B.acct EXCEPT ![r.acct] = NewBal(r, B.acct[r.acct])] \in [Account -> Int]
    BY <1>1, <1>2
  <1>4. Noted(B.ids, r) \in SUBSET Id
    BY <1>1 DEF Noted
  <1> QED BY <1>1, <1>3, <1>4 DEF After, AllBooks

\* The tail begins to process: it is the first, and all the others owe it.
LEMMA LevelBegins ==
  ASSUME BookInv, PlaceInv, Steady, PlainInv, Level, [Next]_vars,
         NEW s \in Server, NEW t \in ThreadId, Runs(s, t), ReplyStart(s, t)
  PROVE  Level'
  <1>1. WayInv /\ OrderInv /\ ChainInv /\ Downward /\ OneRequest /\ Shaped(thr[s][t])
    BY DEF BookInv, WayInv, OrderInv, Shape
  <1>2. thr[s][t].pc = "start" /\ thr[s][t].role = "Reply" /\ thr[s][t].ack = "none" /\ up[s]
    BY <1>1 DEF ReplyStart, At, Shaped
  <1>3. /\ Front(s, "thr", t) /\ ~Acknowledged(s, "thr", t) /\ "thr" \in Form
        /\ \A w \in ThreadId : w \in Spot
    BY <1>2 DEF Front, Carries, Acknowledged, Form, Spot
  <1>4. PICK O \in AllBooks, B \in AllBooks : LevelOf(O, B)
    BY DEF Level
  <1>5. \A z \in Server, w \in ThreadId : ~Turn(z, w)
    <2> SUFFICES ASSUME NEW z \in Server, NEW w \in ThreadId, Turn(z, w)
                 PROVE  FALSE
      OBVIOUS
    <2>1. z = s /\ w = t
      BY <1>1, <1>3, TurnAlone
    <2> QED BY <1>2, <2>1 DEF Turn
  <1>6. O = B /\ \A u \in Server : ~Owing(u)
    BY <1>4, <1>5 DEF LevelOf, Owing
  <1>7. \A u \in Server, w \in ThreadId : ~Processes(u, w)
    <2> SUFFICES ASSUME NEW u \in Server, NEW w \in ThreadId, Processes(u, w)
                 PROVE  FALSE
      OBVIOUS
    <2>1. u = s /\ w = t
      BY <1>1, <1>3, QuietFront
    <2> QED BY <1>2, <2>1 DEF Processes
  <1>8. ASSUME NEW u \in Server, up[u]
        PROVE  Done(u, B) /\ B = BooksAt(u)
    BY <1>4, <1>6, <1>7, <1>8 DEF LevelOf, Share, Done
  <1>9. PICK r \in Request : r = Args(s, t).req
    BY <1>1, <1>2, BackOther
  <1>10. PICK E \in AllBooks : E = After(B, r)
    BY AfterType
  <1>11. /\ UNCHANGED <<up, tcp, inbox, acct, proc, args, chain, accepted>>
         /\ thr'[s][t].pc = "check" /\ thr'[s][t].role = "Reply" /\ thr'[s][t].ack = "none"
         /\ thr'[s][t].chan = thr[s][t].chan /\ thr'[s][t].req = r
    <2>1. Moved(s, t, "start", "check") /\ thr'[s][t].req = Args(s, t).req
      BY <1>1, RunsThread
    <2> QED BY <1>2, <1>9, <2>1
            DEF Moved, ReplyStart, Runs, wireVars, books, masterVars, clientVars
  <1>12. \A u \in Server, w \in ThreadId : u # s \/ w # t => thr'[u][w] = thr[u][w]
    <2>1. ~SyncAcked(s, t) /\ ~ReplyAck(s, t)
      BY <1>2 DEF SyncAcked, ReplyAck, At
    <2> QED BY <1>1, <2>1, RunsAlone
  <1>13. Turn(s, t)' /\ Args(s, t)' = Args(s, t)
    BY <1>11 DEF Turn, Carries, Args
  <1>14. ASSUME NEW z \in Server, NEW w \in ThreadId, Turn(z, w)'
         PROVE  z = s /\ w = t
    <2>1. CASE thr'[z][w] = thr[z][w]
      <3>1. Turn(z, w)
        BY <1>14, <2>1 DEF Turn, Carries
      <3> QED BY <1>5, <3>1
    <2> QED BY <1>12, <2>1
  <1>15. ASSUME NEW u \in Server, up[u]
         PROVE  Owing(u)' <=> u # s
    <2>1. Owing(u)' <=> Precedes(u, s)'
      BY <1>11, <1>13, <1>14 DEF Owing
    <2>2. Precedes(u, s)' <=> Precedes(u, s)
      BY <1>11 DEF Precedes
    <2>3. next[s] = NoServer
      BY <1>2 DEF Steady
    <2>4. ~Precedes(s, u)
      BY <1>2, <1>15, <2>3, WireAssumption DEF PlaceInv, NextNearest, Nearest
    <2>5. InChain(u) /\ InChain(s)
      BY <1>2, <1>15 DEF PlaceInv, NoJoins
    <2>6. u # s => Precedes(u, s)
      BY <1>1, <2>4, <2>5, ChainTotal
    <2>7. ~Precedes(s, s)
      BY <1>1, PrecedesOrder
    <2> QED BY <2>1, <2>2, <2>6, <2>7
  <1>16. ASSUME NEW u \in Server, up'[u]
         PROVE  /\ Owing(u)' => Done(u, B)'
                /\ ~Owing(u)' => Done(u, E)'
                /\ \A p \in Elements(tcp'[u]) : p.msg.kind = "SyncProc" =>
                      /\ Owing(u)' => p.msg.req.id \in B.ids
                      /\ ~Owing(u)' => p.msg.req.id \in E.ids
    <2>1. up[u] /\ acct'[u] = acct[u] /\ proc'[u] = proc[u] /\ tcp'[u] = tcp[u]
      BY <1>11, <1>16
    <2>2. Done(u, B) /\ B = BooksAt(u)
      BY <1>8, <2>1
    <2>3. CASE u # s
      <3>1. Done(u, B)'
        BY <1>12, <2>1, <2>2, <2>3, DoneSame
      <3> QED BY <1>15, <2>1, <2>3, <3>1, <1>4, <1>6, <1>10, AfterIds DEF LevelOf, Share
    <2>4. CASE u = s
      <3>1. BooksAt(u)' = B
        BY <2>1, <2>2 DEF BooksAt
      <3>2. \A w \in ThreadId : w # t => thr'[u][w].pc \notin {"check", "apply", "send", "hist"}
        BY <1>7, <1>12, <2>4 DEF Processes
      <3>3. \A w \in ThreadId : thr'[u][w].pc \in {"check", "apply"} =>
               E = After(BooksAt(u)', thr'[u][w].req)
        BY <1>10, <1>11, <2>4, <3>1, <3>2
      <3>4. \A w \in ThreadId : thr'[u][w].pc \in {"check", "apply"} =>
               E = After(BooksAt(u), thr[u][w].req)'
        BY <3>3 DEF After
      <3>5. Done(u, E)'
        BY <1>11, <2>4, <3>2, <3>4 DEF Done, Processes
      <3> QED BY <1>15, <2>1, <2>4, <3>5, <1>4, <1>6, <1>10, AfterIds DEF LevelOf, Share
    <2> QED BY <2>3, <2>4
  <1>17. ASSUME NEW z \in Server, NEW w \in ThreadId, Turn(z, w)'
         PROVE  E = After(B, Args(z, w).req)'
    <2>1. z = s /\ w = t
      BY <1>14, <1>17
    <2>2. Args(z, w).req' = r
      BY <1>9, <1>13, <2>1
    <2> QED BY <1>10, <2>2 DEF After
  <1>18. QueriesApart => \A i \in UpdateIds : Replied(i)' => i \in E.ids
    <2>1. \A i : Replied(i)' => Replied(i)
      BY <1>11 DEF Replied
    <2> QED BY <1>4, <1>10, <2>1, AfterIds DEF LevelOf
  <1> QED BY <1>13, <1>16, <1>17, <1>18, LevelForm

\* What a hand-over does to the books.
LEMMA BackDone ==
  ASSUME WayInv, [Next]_vars, NEW O, NEW B, LevelOf(O, B),
         NEW z \in Server, NEW t \in ThreadId, PassesBack(z, t), Turn(z, t)
  PROVE  /\ Done(z, B)'
         /\ \A u \in Server, X \in {O, B} : u # z /\ up[u] /\ Done(u, X) => Done(u, X)'
  <1>1. OrderInv /\ ChainInv /\ Downward /\ Shaped(thr[z][t])
        /\ thr \in [Server -> [ThreadId -> Thread]]
    BY BookTypes DEF WayInv, OrderInv, Shape
  <1>2. /\ Runs(z, t) /\ (SyncAcked(z, t) \/ ReplyAck(z, t)) /\ up[z]
        /\ UNCHANGED <<up, acct, proc>>
    BY RunsUp DEF PassesBack, SyncAcked, ReplyAck, books
  <1>3. PICK C \in SUBSET Conn : Await(C)
    BY DEF WayInv, Awaited
  <1>4. ASSUME NEW u \in Server, NEW w \in ThreadId, u # z \/ w # t
        PROVE  thr'[u][w].pc = thr[u][w].pc /\ thr'[u][w].req = thr[u][w].req
    BY <1>1, <1>2, <1>3, <1>4, AckReaches, WithAckFields
  <1>5. \A w \in ThreadId : w # t => ~Processes(z, w)
    BY TurnFront, AloneFront
  <1>6. BooksAt(z)' = BooksAt(z)
    BY <1>2 DEF BooksAt
  <1>7. ASSUME SyncAcked(z, t)
        PROVE  Done(z, B)'
    <2>1. /\ thr[z][t].pc = "wait" /\ thr[z][t].ack = "acked"
          /\ thr'[z][t].pc = "check" /\ thr'[z][t].req = Args(z, t).req
      BY <1>1, <1>2, <1>7, RunsThread
    <2>2. Owing(z)
      BY <2>1 DEF Owing
    <2>3. Done(z, O) /\ \A w \in ThreadId : ~Processes(z, w)
      <3>1. \A w \in ThreadId : ~Processes(z, w)
        BY <1>5, <2>1 DEF Processes
      <3>2. Share(O, B, z) = O
        BY <2>2 DEF Share
      <3>3. Done(z, Share(O, B, z))
        BY <1>2 DEF LevelOf
      <3> QED BY <3>1, <3>2, <3>3
    <2>4. O = BooksAt(z) /\ B = After(O, Args(z, t).req)
      BY <2>3 DEF Done, LevelOf
    <2>5. \A w \in ThreadId : w # t => thr'[z][w].pc \notin {"check", "apply", "send", "hist"}
      BY <1>4, <1>5 DEF Processes
    <2>6. \A w \in ThreadId : thr'[z][w].pc \in {"check", "apply"} =>
             B = After(BooksAt(z)', thr'[z][w].req)
      BY <1>6, <2>1, <2>4, <2>5
    <2>7. \A w \in ThreadId : thr'[z][w].pc \in {"check", "apply"} =>
             B = After(BooksAt(z), thr[z][w].req)'
      BY <2>6 DEF After
    <2> QED BY <2>1, <2>5, <2>7 DEF Done, Processes
  <1>8. ASSUME ReplyAck(z, t)
        PROVE  Done(z, B)'
    <2>1. thr[z][t].pc = "ack" /\ thr[z][t].ack = "none" /\ thr'[z][t].pc = "idle"
      BY <1>1, <1>2, <1>8, RunsThread, IdleFields DEF Shaped
    <2>2. ~Owing(z)
      <3> SUFFICES ASSUME NEW y \in Server, NEW w \in ThreadId, Turn(y, w),
                          Precedes(z, y) \/ (z = y /\ thr[y][w].ack = "acked")
                   PROVE  FALSE
        BY DEF Owing
      <3>1. y = z /\ w = t
        BY TurnFront, TurnAlone
      <3> QED BY <1>1, <2>1, <3>1, PrecedesOrder
    <2>3. Done(z, B) /\ \A w \in ThreadId : ~Processes(z, w)
      <3>1. \A w \in ThreadId : ~Processes(z, w)
        BY <1>5, <2>1 DEF Processes
      <3>2. Share(O, B, z) = B
        BY <2>2 DEF Share
      <3>3. Done(z, Share(O, B, z))
        BY <1>2 DEF LevelOf
      <3> QED BY <3>1, <3>2, <3>3
    <2>4. B = BooksAt(z)'
      BY <1>6, <2>3 DEF Done
    <2>5. \A w \in ThreadId : thr'[z][w].pc \notin {"check", "apply", "send", "hist"}
      BY <1>4, <1>5, <2>1 DEF Processes
    <2> QED BY <2>4, <2>5 DEF Done, Processes
  <1>9. ASSUME NEW u \in Server, NEW X, u # z, Done(u, X)
        PROVE  Done(u, X)'
    <2>1. \A w \in ThreadId : thr'[u][w].pc = thr[u][w].pc /\ thr'[u][w].req = thr[u][w].req
      BY <1>4, <1>9
    <2> QED BY <1>2, <1>9, <2>1, DoneSame
  <1>10. Done(z, B)'
    BY <1>2, <1>7, <1>8
  <1> QED BY <1>9, <1>10

\* The hand-over passes the turn to the server before, or there is no turn any more.
LEMMA LevelPassesBack ==
  ASSUME BookInv, PlaceInv, PlainInv, Level, [Next]_vars,
         NEW z \in Server, NEW t \in ThreadId, PassesBack(z, t)
  PROVE  Level'
  <1>1. WayInv /\ OrderInv /\ ChainInv /\ Downward /\ Sought /\ PathInv
    BY DEF BookInv, WayInv, OrderInv, PlainInv
  <1>2. PICK r \in Request, c \in Conn :
           /\ r = Args(z, t).req /\ c = Args(z, t).conn
           /\ Turn(z, t) /\ Front(z, "thr", t) /\ ~Carries(z, t)'
           /\ \/ /\ r.type = "Query" \/ \A u \in Server : up[u] => ~Precedes(u, z)
                 /\ \A u \in Server, j \in Form, a \in Spot : ~Front(u, j, a)'
              \/ /\ r.type # "Query" /\ c.srv # z /\ next[c.srv] = z
                 /\ \E C \in SUBSET Conn : Trail(C, z, c, r) /\ c \in C
                 /\ thr'[c.srv][c.thr] = WithAck(thr[c.srv][c.thr], "acked")
                 /\ \A u \in Server, j \in Form, a \in Spot :
                       Front(u, j, a)' => j = "thr" /\ u = c.srv /\ a = c.thr
    BY <1>1, BackWhom
  <1>3. PICK O \in AllBooks, B \in AllBooks : LevelOf(O, B)
    BY DEF Level
  <1>4. /\ up[z]
        /\ UNCHANGED <<up, tcp, next, inbox, acct, proc, args, chain, accepted>>
    BY RunsUp DEF PassesBack, Runs, SyncAcked, ReplyAck, wireVars, books, masterVars, clientVars
  <1>5. ASSUME NEW u \in Server, NEW w \in ThreadId, Turn(u, w)
        PROVE  u = z /\ w = t
    <2>1. Front(u, "thr", w) /\ "thr" \in Form /\ w \in Spot
      BY <1>5, TurnFront
    <2> QED BY <1>1, <1>2, <2>1, TurnAlone
  <1>6. B = After(O, r)
    BY <1>2, <1>3 DEF LevelOf
  <1>7. /\ Done(z, B)'
        /\ \A u \in Server, X \in {O, B} : u # z /\ up[u] /\ Done(u, X) => Done(u, X)'
    BY <1>1, <1>2, <1>3, BackDone
  <1>8. \A u \in Server : up[u] => Done(u, Share(O, B, u))
    BY <1>3 DEF LevelOf
  <1>9. ASSUME NEW u \in Server, up[u], NEW p \in Elements(tcp'[u]), p.msg.kind = "SyncProc"
        PROVE  /\ p.msg.req.id \in B.ids
               /\ Share(O, B, u) = O => p.msg.req.id \in O.ids
    <2>1. p.msg.req.id \in Share(O, B, u).ids
      BY <1>3, <1>4, <1>9 DEF LevelOf
    <2>2. O.ids \subseteq B.ids
      BY <1>3, IdsGrow
    <2>3. Share(O, B, u) \in {O, B}
      BY DEF Share
    <2> QED BY <2>1, <2>2, <2>3
  <1>10. QueriesApart => \A i \in UpdateIds : Replied(i)' => i \in B.ids
    <2>1. \A i : Replied(i)' => Replied(i)
      BY <1>4 DEF Replied
    <2> QED BY <1>3, <2>1 DEF LevelOf
  <1>11. ASSUME NEW u \in Server
         PROVE  Owing(u) => Precedes(u, z) \/ u = z
    BY <1>5 DEF Owing
  <1>12. CASE \A u \in Server, j \in Form, a \in Spot : ~Front(u, j, a)'
    <2>1. \A u \in Server, w \in ThreadId : ~Turn(u, w)'
      BY <1>12 DEF Turn, Front, Form, Spot
    <2>2. \A u \in Server : ~Owing(u)'
      BY <2>1 DEF Owing
    <2>3. ASSUME NEW u \in Server, up'[u]
          PROVE  Done(u, B)'
      <3>1. CASE u = z
        BY <1>7, <3>1
      <3>2. CASE u # z
        <4>1. Share(O, B, u) = B
          <5>1. CASE r.type = "Query"
            BY <1>6, <5>1, AfterQuery DEF Share
          <5>2. CASE r.type # "Query"
            <6>1. "thr" \in Form /\ c.thr \in Spot
              BY DEF Form, Spot, Conn
            <6>2. ~Precedes(u, z)
              <7> SUFFICES ASSUME Precedes(u, z)
                           PROVE  FALSE
                OBVIOUS
              <7>1. /\ next[c.srv] = z
                    /\ \E C \in SUBSET Conn : Trail(C, z, c, r) /\ c \in C
                    /\ thr'[c.srv][c.thr] = WithAck(thr[c.srv][c.thr], "acked")
                BY <1>2, <1>4, <2>3, <5>2
              <7>2. c.srv \in Server /\ c.thr \in ThreadId
                BY <7>1 DEF Trail, Waits, Conn
              <7>3. thr'[c.srv][c.thr].ack = "acked"
                BY <1>1, <7>1, <7>2, BookTypes, WithAckFields
              <7>4. Front(c.srv, "thr", c.thr)'
                BY <7>2, <7>3 DEF Front, Carries
              <7> QED BY <1>12, <6>1, <7>2, <7>4
            <6>3. ~Owing(u)
              BY <1>11, <3>2, <6>2
            <6> QED BY <6>3 DEF Share
          <5> QED BY <5>1, <5>2
        <4>2. Done(u, B)
          BY <1>4, <1>8, <2>3, <4>1
        <4> QED BY <1>4, <1>7, <2>3, <3>2, <4>2
      <3> QED BY <3>1, <3>2
    <2> QED BY <1>4, <1>9, <1>10, <2>1, <2>2, <2>3, LevelForm
  <1>13. CASE ~\A u \in Server, j \in Form, a \in Spot : ~Front(u, j, a)'
    <2>1. /\ next[c.srv] = z /\ c.srv # z
          /\ \E C \in SUBSET Conn : Trail(C, z, c, r) /\ c \in C
          /\ thr'[c.srv][c.thr] = WithAck(thr[c.srv][c.thr], "acked")
          /\ \A u \in Server, j \in Form, a \in Spot :
                Front(u, j, a)' => j = "thr" /\ u = c.srv /\ a = c.thr
      BY <1>2, <1>13
    <2>2. Waits(c, r) /\ Precedes(c.srv, z)
      BY <2>1 DEF Trail
    <2>3. PICK y \in Server, w \in ThreadId : y = c.srv /\ w = c.thr
      BY <2>2 DEF Waits, Conn
    <2>4. /\ up[y] /\ thr[y][w].pc \in {"add", "wait"} /\ next[y] = z
          /\ Args(y, w).req = r
      BY <2>1, <2>2, <2>3 DEF Waits, Waiting
    <2>5. /\ thr'[y][w].ack = "acked" /\ thr'[y][w].pc = thr[y][w].pc
          /\ thr'[y][w].chan = thr[y][w].chan
      BY <1>1, <2>1, <2>3, BookTypes, WithAckFields
    <2>6. Turn(y, w)' /\ Args(y, w)' = Args(y, w)
      BY <1>4, <2>4, <2>5 DEF Turn, Carries, Args
    <2>7. ASSUME NEW u \in Server, NEW v \in ThreadId, Turn(u, v)'
          PROVE  u = y /\ v = w
      <3>1. Front(u, "thr", v)' /\ "thr" \in Form /\ v \in Spot
        BY <2>7 DEF Turn, Front, Form, Spot
      <3> QED BY <2>1, <2>3, <3>1
    <2>8. ASSUME NEW u \in Server, up[u]
          PROVE  /\ Owing(u)' <=> (u = y \/ Precedes(u, y))
                 /\ u # z => (Precedes(u, z) <=> (u = y \/ Precedes(u, y)))
                 /\ u = z => ~(u = y \/ Precedes(u, y))
      <3>1. Owing(u)' <=> (u = y \/ Precedes(u, y)')
        BY <2>5, <2>6, <2>7 DEF Owing
      <3>2. Precedes(u, y)' <=> Precedes(u, y)
        BY <1>4 DEF Precedes
      <3>3. Precedes(y, z) /\ ~Precedes(y, y) /\ ~Precedes(z, z)
        BY <1>1, <2>2, <2>3, PrecedesOrder
      <3>4. Precedes(y, u) => ~Precedes(u, z)
        BY <2>4, <2>8 DEF PlaceInv, NextNearest, Nearest
      <3>5. u # y => Precedes(u, y) \/ Precedes(y, u)
        BY <1>1, <2>4, <2>8, ChainTotal DEF PlaceInv, NoJoins
      <3>6. Precedes(u, y) => Precedes(u, z)
        BY <1>1, <3>3, PrecedesOrder
      <3> QED BY <3>1, <3>2, <3>3, <3>4, <3>5, <3>6
    <2>9. ASSUME NEW u \in Server, up[u], u # z
          PROVE  Owing(u) <=> Precedes(u, z)
      BY <1>2, <1>5, <2>9 DEF Owing
    <2>10. ASSUME NEW u \in Server, up[u]
           PROVE  /\ Owing(u)' => Done(u, O)' /\ Share(O, B, u) = O
                  /\ ~Owing(u)' => Done(u, B)'
      <3>1. CASE u = z
        BY <1>7, <2>8, <2>10, <3>1
      <3>2. CASE u # z
        <4>1. Owing(u)' <=> Owing(u)
          BY <2>8, <2>9, <2>10, <3>2
        <4>2. Done(u, Share(O, B, u))
          BY <1>8, <2>10
        <4>3. Owing(u) => Share(O, B, u) = O
          BY DEF Share
        <4>4. ~Owing(u) => Share(O, B, u) = B
          BY DEF Share
        <4> QED BY <1>7, <2>10, <3>2, <4>1, <4>2, <4>3, <4>4
      <3> QED BY <3>1, <3>2
    <2>11. ASSUME NEW u \in Server, NEW v \in ThreadId, Turn(u, v)'
           PROVE  B = After(O, Args(u, v).req)'
      <3>1. Args(u, v).req' = r
        BY <2>4, <2>6, <2>7, <2>11
      <3> QED BY <1>6, <3>1 DEF After
    <2>12. ~\A u \in Server, v \in ThreadId : ~Turn(u, v)'
      BY <2>6
    <2> QED BY <1>4, <1>9, <1>10, <2>10, <2>11, <2>12, LevelForm
  <1> QED BY <1>12, <1>13

\* The books of the servers go from one state to the next together.
LEMMA LevelNext ==
  ASSUME Timing, Itemized, MaxKills = 0, BookInv, BookInv', PlaceInv, Steady, PlainInv,
         Looked, Level, [Next]_vars
  PROVE  Level'
  <1>1. ASSUME NEW z \in Server, NEW t \in ThreadId, PassesBack(z, t)
        PROVE  Level'
    BY <1>1, LevelPassesBack
  <1>2. ASSUME NEW z \in Server, NEW t \in ThreadId, Runs(z, t), ReplyStart(z, t)
        PROVE  Level'
    BY <1>2, LevelBegins
  <1>3. CASE \A z \in Server, t \in ThreadId :
                ~PassesBack(z, t) /\ ~(Runs(z, t) /\ ReplyStart(z, t))
    BY <1>3, LevelKept
  <1> QED BY <1>1, <1>2, <1>3

-----------------------------------------------------------------------------
(* The theorems.                                                           *)

AgreedInv == BookInv /\ PlaceInv /\ Steady /\ PlainInv /\ Looked /\ Level

\* Nothing is on its way at the beginning, and all books are empty.
LEMMA AgreedInit == AgreedTiming /\ Init => AgreedInv
  <1> SUFFICES ASSUME AgreedTiming, Init
               PROVE  AgreedInv
    OBVIOUS
  <1>1. BookInv /\ PlaceInv /\ LinkInv
    BY BookInit, PlaceInit, LinkInit DEF AgreedTiming, Timing
  <1>2. /\ \A s \in Server : udp[s] = <<>> /\ tcp[s] = <<>>
        /\ \A s \in Server : acct[s] = NoBooks /\ proc[s] = {}
        /\ \A s \in Server, t \in ThreadId : thr[s][t] = Idle
        /\ chain = Configured /\ view = Configured /\ inbox = <<>>
        /\ \A p \in DOMAIN Script : accepted[p] = NoReply
    BY DEF Init, ServerInit, MasterInit, ClientInit
  <1>3. DOMAIN <<>> = {} /\ Elements(<<>>) = {}
    BY DEF Elements
  <1>4. \A s \in Server, t \in ThreadId :
           /\ ~Carries(s, t) /\ ~Turn(s, t) /\ ~Processes(s, t)
           /\ thr[s][t].pc = "idle"
    BY <1>2, IdleFields DEF Carries, Turn, Processes
  <1>5. \A s \in Server, k \in Form, a \in Spot : ~Front(s, k, a)
    BY <1>2, <1>3, <1>4 DEF Front
  <1>6. Steady /\ Addressed /\ Looked
    BY <1>4 DEF Steady, Addressed, Looked
  <1>7. Outdated
    BY <1>2, <1>3 DEF Outdated
  <1>8. ViewFull
    BY <1>2, <1>3 DEF ViewFull, InChain, Elements
  <1>9. TextsPlain /\ Sought /\ PathInv
    BY <1>5 DEF TextsPlain, Sought, PathInv
  <1>10. Level
    <2>1. NoBooks \in [Account -> Int] /\ IdsOf({}) = {}
      BY DEF NoBooks, IdsOf
    <2>2. PICK B \in AllBooks : B = [acct |-> NoBooks, ids |-> {}]
      BY <2>1 DEF AllBooks
    <2>3. ASSUME NEW u \in Server
          PROVE  Done(u, Share(B, B, u))
      <3>1. BooksAt(u) = B
        BY <1>2, <2>1, <2>2 DEF BooksAt
      <3>2. Share(B, B, u) = B
        BY DEF Share
      <3>3. Done(u, B)
        BY <1>4, <3>1 DEF Done
      <3> QED BY <3>2, <3>3
    <2>4. \A i \in UpdateIds : ~Replied(i)
      BY <1>2, <1>3 DEF Replied
    <2> QED BY <1>2, <1>3, <1>4, <2>3, <2>4 DEF Level, LevelOf
  <1> QED BY <1>1, <1>6, <1>7, <1>8, <1>9, <1>10 DEF AgreedInv, PlainInv

LEMMA AgreedNext == AgreedTiming /\ AgreedInv /\ [Next]_vars => AgreedInv'
  <1> SUFFICES ASSUME AgreedTiming, AgreedInv, [Next]_vars
               PROVE  AgreedInv'
    OBVIOUS
  <1>1. Timing /\ Itemized /\ MaxKills = 0 /\ PromptThreads
    BY DEF AgreedTiming, Timing
  <1>2. BookInv /\ PlaceInv /\ Steady /\ PlainInv /\ Looked /\ Level
    BY DEF AgreedInv
  <1>3. BookInv'
    BY <1>1, <1>2, BookNext
  <1>4. PlaceInv' /\ Steady'
    BY <1>1, <1>2, <1>3, PlaceNext, SteadyNext
  <1>5. PlainInv' /\ Looked' /\ Level'
    BY <1>1, <1>2, <1>3, PlainNext, LookedNext, LevelNext
  <1> QED BY <1>3, <1>4, <1>5 DEF AgreedInv

\* In a settled chain everybody is through with everything, and has the same books.
LEMMA SettledLevel ==
  ASSUME AgreedInv, Settled
  PROVE  \E B \in AllBooks :
            /\ \A s \in Server : up[s] => B = BooksAt(s)
            /\ QueriesApart => \A i \in UpdateIds : Replied(i) => i \in B.ids
  <1>1. OrderInv /\ Quiet
    BY DEF AgreedInv, BookInv, WayInv, Settled
  <1>2. PICK O \in AllBooks, B \in AllBooks : LevelOf(O, B)
    BY DEF AgreedInv, Level
  <1>3. \A s \in Server, t \in ThreadId : ~Carries(s, t) /\ ~Finishes(s, t)
    BY <1>1, QuietWay
  <1>4. ASSUME NEW s \in Server, NEW t \in ThreadId
        PROVE  ~Turn(s, t) /\ ~Processes(s, t)
    <2>1. thr[s][t].role \in {"Sync", "Reply"}
      BY <1>1, BookTypes DEF OrderInv, Thread, Shape, Shaped
    <2> QED BY <1>3, <2>1 DEF Turn, Processes, Carries, Finishes
  <1>5. \A s \in Server : Share(O, B, s) = B
    BY <1>4 DEF Share, Owing
  <1>6. \A s \in Server : up[s] => Done(s, B)
    BY <1>2, <1>5 DEF LevelOf
  <1> QED BY <1>2, <1>4, <1>6 DEF LevelOf, Done

LEMMA AgreedImplies == AgreedInv => Agreed
  BY SettledLevel DEF Agreed, Member, BooksAt

LEMMA DurableImplies == QueriesApart /\ AgreedInv => Durable
  <1> SUFFICES ASSUME QueriesApart, AgreedInv, Settled, NEW s \in Server, Member(s),
                      NEW i \in AnsweredUpdates
               PROVE  i \in IdsOf(proc[s])
    BY DEF Durable
  <1>1. PICK q \in DOMAIN Script :
           Answered(q) /\ IsUpdate(Script[q]) /\ accepted[q].id = i /\ i = Script[q].id
    BY DEF AnsweredUpdates
  <1>2. i \in UpdateIds /\ Replied(i)
    BY <1>1 DEF UpdateIds, Replied, Answered
  <1> QED BY <1>2, SettledLevel DEF Member, BooksAt

\* All servers of a settled chain have the same balances, for any number of servers,
\* clients, threads and requests, whatever is lost, sent again, forwarded, or left
\* unanswered by a server that ends at its life time (Sync, Reply, ProcReq,
\* Sync_sentTrans). The hypotheses are needed: a server that joins replays the
\* history in the order of strings, a signal between two servers' processing of a
\* request leaves it to one of them, and in a file that is not itemized a forwarded
\* request is taken for a synchronization.
THEOREM ServersAgree ==
  ASSUME AgreedTiming
  PROVE  Spec => []Agreed
  <1>1. Init => AgreedInv
    BY AgreedInit
  <1>2. AgreedInv /\ [Next]_vars => AgreedInv'
    BY AgreedNext
  <1> QED BY <1>1, <1>2, AgreedImplies, PTL DEF Spec

\* An update the client has seen answered is in the history of every server left once
\* the chain has settled, under the same hypotheses, when no query has the identifier
\* of an update (AckHist, Sync_procTrans): the tail replies when it has processed the
\* request, and the servers before it have what it takes to follow.
THEOREM AnswersDurable ==
  ASSUME AgreedTiming, QueriesApart
  PROVE  Spec => []Durable
  <1>1. Init => AgreedInv
    BY AgreedInit
  <1>2. AgreedInv /\ [Next]_vars => AgreedInv'
    BY AgreedNext
  <1>3. AgreedInv => Durable
    BY DurableImplies
  <1> QED BY <1>1, <1>2, <1>3, PTL DEF Spec
=============================================================================
