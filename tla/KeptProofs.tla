----------------------------- MODULE KeptProofs ------------------------------
(***************************************************************************)
(* What a client has seen answered is kept by every server left, for any   *)
(* number of servers, clients, threads and requests, and whichever servers *)
(* are killed at any moment: a server that passes a request on has it in   *)
(* sentTrans, or is about to, and a server it was not passed to has failed.*)
(***************************************************************************)
EXTENDS BookProofs

\* No server has a startup delay: all of them are in the chain of the file.
NoneDelayed == \A s \in Server : \E i \in DOMAIN Configured : Configured[i] = s

UpdateIds == {Script[p].id : p \in {q \in DOMAIN Script : IsUpdate(Script[q])}}

\* A query has no identifier of an update. Its reply could be taken for the
\* update's.
QueriesApart ==
    \A p \in DOMAIN Script : Script[p].type = "Query" => Script[p].id \notin UpdateIds

KeptTiming == Timing /\ NoneDelayed /\ QueriesApart

-----------------------------------------------------------------------------
(* Who is there.                                                           *)

\* Nobody joins.
NoJoins ==
    /\ asleep = {}
    /\ \A s \in Server : up[s] => InChain(s)
    /\ \A n \in notices : n.kind = "Fail"

\* Between s and p there is nobody left, and after s neither if p is no server.
Nearest(s, p) ==
    \A u \in Server : up[u] /\ Precedes(s, u) => p \in Server /\ ~Precedes(u, p)

\* Whom a server forwards to, or will when it has read its notifications.
NextNearest ==
    \A s \in Server : up[s] =>
        /\ Nearest(s, next[s])
        /\ \A m \in Elements(udp[s]) : IsNoti(m) => Nearest(s, m.port)

\* The client's chain has every server left, in the order of the master's.
ViewOrdered ==
    /\ \A s \in Server : up[s] => \E i \in DOMAIN view : view[i] = s
    /\ \A i, j \in DOMAIN view : i < j => ~Precedes(view[j], view[i])

\* What the client is told of failures is so.
FailsTrue ==
    \A m \in Elements(inbox) : m.kind # "Reply" => m.kind = "Fail" /\ ~Alive(m.port)

PlaceInv == NoJoins /\ NextNearest /\ ViewOrdered /\ FailsTrue

-----------------------------------------------------------------------------
(* What is where.                                                          *)

\* A forwarded request is the one of ARGS, and a tail stays one until its thread
\* has replied.
Steady ==
    \A s \in Server, t \in ThreadId :
        /\ thr[s][t].pc = "connect" => Parse(buf[s]) = Args(s, t).req
        /\ /\ thr[s][t].pc \in {"start", "check", "apply", "send"}
           /\ thr[s][t].role = "Reply"
           => next[s] = NoServer

\* The thread has still to put its request into sentTrans.
Will(s, t) ==
    /\ thr[s][t].pc = "add" \/ (thr[s][t].pc = "hist" /\ thr[s][t].role = "Reply")
    /\ Args(s, t).req.type # "Query"

\* The server has a request of that identifier, or a thread of it will.
Holds(s, i) ==
    \/ i \in IdsOf(sent[s] \cup proc[s])
    \/ \E t \in ThreadId : Will(s, t) /\ Args(s, t).req.id = i

\* The request at a place.
What(s, k, a) ==
    IF k = "udp" THEN Parse(udp[s][a])
    ELSE IF k = "tcp" THEN Parse(tcp[s][a].msg)
    ELSE Args(s, a).req

\* All before s have the request, if it is one to have.
Passed(s, r) ==
    /\ r.type = "Query" => r.id \notin UpdateIds
    /\ r.type # "Query" =>
          \A u \in Server : up[u] /\ Precedes(u, s) => Holds(u, r.id)

\* A request on its way to the tail is at all servers it has passed.
Carried ==
    \A s \in Server, k \in Form, a \in Spot :
        Front(s, k, a) /\ ~Acknowledged(s, k, a) => Passed(s, What(s, k, a))

\* A reply with that identifier is on its way to the client or was received.
Replied(i) ==
    \/ \E m \in Elements(inbox) : m.kind = "Reply" /\ m.id = i
    \/ \E p \in DOMAIN Script : accepted[p] # NoReply /\ accepted[p].id = i

\* What is answered is everywhere.
Everywhere ==
    \A i \in UpdateIds : Replied(i) => \A u \in Server : up[u] => Holds(u, i)

KeptInv == BookInv /\ PlaceInv /\ Steady /\ Carried /\ Everywhere

-----------------------------------------------------------------------------
(* Nobody joins.                                                           *)

LEMMA ClientTypes ==
  ASSUME ChainInv
  PROVE  /\ inbox \in Seq(ReplyText \cup NotiText) /\ view \in Seq(Server \cup {NoServer})
         /\ pos \in DOMAIN Script /\ accepted \in [DOMAIN Script -> ReplyText \cup {NoReply}]
  BY DEF ChainInv, BankInv, TypeOK, WireTypeOK, ClientTypeOK

\* Servers only go.
Shrinks ==
    /\ \A s \in Server : up'[s] => up[s]
    /\ \A s \in Server : up'[s] /\ InChain(s) => InChain(s)'
    /\ \A a, b : Precedes(a, b)' => Precedes(a, b)

\* A server is taken out of the chain when it is gone.
LEMMA NotifyShrinks ==
  ASSUME ChainInv, BankMaster, NEW n \in notices, ServerNotify(n)
  PROVE  Shrinks
  <1>1. UNCHANGED <<up, asleep>> /\ chain \in Seq(Server) /\ n \in Notice
    BY BookTypes DEF BankMaster, ServerNotify
  <1>2. CASE chain' = chain
    BY <1>1, <1>2 DEF Shrinks, InChain, Precedes
  <1>3. CASE chain' # chain
    <2>1. PICK s \in Server : s = n.srv
      BY <1>1 DEF Notice
    <2>2. n.kind = "Fail" /\ InChain(s) /\ chain' = Removed(s)
      BY <1>3, <2>1 DEF ServerNotify
    <2>3. PICK k \in DOMAIN chain : k = IndexOf(s) /\ chain[k] = s
      BY <2>2, IndexFound DEF ChainInv, BankInv
    <2>4. chain' = Drop(chain, k)
      BY <2>2, <2>3 DEF Removed, Drop
    <2>5. ~up'[s]
      BY <1>1, <2>1, <2>2 DEF ChainInv, Known
    <2>6. /\ DOMAIN chain' = 1..(Len(chain) - 1) /\ DOMAIN chain = 1..Len(chain)
          /\ Len(chain) \in Nat
          /\ \A i \in 1..(Len(chain) - 1) :
                chain'[i] = IF i < k THEN chain[i] ELSE chain[i + 1]
      BY <1>1, <2>4, DropIndex
    <2> DEFINE Was(h) == IF h < k THEN h ELSE h + 1
               Now(h) == IF h < k THEN h ELSE h - 1
    <2>7. \A h \in DOMAIN chain' : Was(h) \in DOMAIN chain /\ chain'[h] = chain[Was(h)]
      BY <2>6
    <2>8. \A h, j \in DOMAIN chain' : h < j => Was(h) < Was(j)
      BY <2>6
    <2>9. \A h \in DOMAIN chain : h # k => Now(h) \in DOMAIN chain' /\ chain'[Now(h)] = chain[h]
      BY <2>6
    <2> HIDE DEF Was, Now
    <2>10. \A a, b : Precedes(a, b)' => Precedes(a, b)
      BY <2>7, <2>8 DEF Precedes
    <2>11. \A u \in Server : up'[u] /\ InChain(u) => InChain(u)'
      BY <2>3, <2>5, <2>9 DEF InChain
    <2> QED BY <1>1, <2>10, <2>11 DEF Shrinks
  <1> QED BY <1>2, <1>3

LEMMA ShrinksNext ==
  ASSUME ChainInv, NoJoins, [Next]_vars
  PROVE  Shrinks /\ NoJoins'
  <1>1. ASSUME NEW s \in Server, BankStart(s)
        PROVE  FALSE
    BY <1>1 DEF BankStart, NoJoins
  <1>2. CASE BankMaster
    <2>1. ASSUME NEW s \in Server, DetectFail(s)
          PROVE  Shrinks /\ NoJoins'
      BY <1>2, <2>1 DEF BankMaster, DetectFail, Shrinks, NoJoins, InChain, Precedes
    <2>2. ASSUME NEW s \in Server, DetectJoin(s)
          PROVE  FALSE
      BY <2>2 DEF DetectJoin, NoJoins
    <2>3. ASSUME NEW n \in notices, ServerNotify(n)
          PROVE  Shrinks /\ NoJoins'
      <3>1. Shrinks
        BY <1>2, <2>3, NotifyShrinks
      <3>2. notices' \subseteq notices /\ asleep' = asleep
        BY <1>2, <2>3 DEF BankMaster, ServerNotify
      <3> QED BY <3>1, <3>2 DEF Shrinks, NoJoins
    <2> QED BY <1>2, <2>1, <2>2, <2>3 DEF BankMaster
  <1>3. CASE EndsOnly
    <2>1. \A s \in Server : up'[s] => up[s]
      BY <1>3, BookTypes DEF EndsOnly
    <2> QED BY <1>3, <2>1 DEF EndsOnly, Shrinks, NoJoins, InChain, Precedes
  <1>4. \A m \in MasterThread : ~BankMasterOverlap(m)
    BY DEF BankMasterOverlap, ChainInv
  <1> QED BY <1>1, <1>2, <1>3, <1>4, OthersEnd DEF Next, Finished

\* Of two servers of the chain one is before the other.
LEMMA ChainTotal ==
  ASSUME ChainInv, NEW a \in Server, NEW b \in Server, InChain(a), InChain(b), a # b
  PROVE  Precedes(a, b) \/ Precedes(b, a)
  <1>1. PICK i \in DOMAIN chain, j \in DOMAIN chain : chain[i] = a /\ chain[j] = b
    BY DEF InChain
  <1>2. i # j /\ i \in Nat /\ j \in Nat
    BY <1>1, BookTypes
  <1> QED BY <1>1, <1>2 DEF Precedes

-----------------------------------------------------------------------------
(* Nobody is between a server and its next.                                *)

\* Nobody is between one of a chain and the one after it.
LEMMA NobodyBetween ==
  ASSUME NEW q \in Seq(Server), Distinct(q), NEW i \in DOMAIN q,
         NEW a \in DOMAIN q, NEW b \in DOMAIN q, a < b, q[a] = q[i]
  PROVE  /\ i + 1 \in DOMAIN q
         /\ \A c, d \in DOMAIN q : q[c] = q[b] /\ q[d] = q[i + 1] => ~(c < d)
  <1>1. a = i /\ DOMAIN q = 1..Len(q) /\ Len(q) \in Nat
    BY DEF Distinct
  <1>2. i + 1 \in DOMAIN q /\ ~(b < i + 1)
    BY <1>1
  <1> QED BY <1>2 DEF Distinct

LEMMA NearestFollowing ==
  ASSUME ChainInv, NEW i \in DOMAIN chain
  PROVE  Nearest(chain[i], Following(i))
  <1>1. chain \in Seq(Server) /\ Distinct(chain)
    BY BookTypes
  <1> SUFFICES ASSUME NEW u \in Server, Precedes(chain[i], u)
               PROVE  Following(i) \in Server /\ ~Precedes(u, Following(i))
    BY DEF Nearest
  <1>2. PICK a \in DOMAIN chain, b \in DOMAIN chain :
           a < b /\ chain[a] = chain[i] /\ chain[b] = u
    BY DEF Precedes
  <1>3. i + 1 \in DOMAIN chain
        /\ \A c, d \in DOMAIN chain : chain[c] = u /\ chain[d] = chain[i + 1] => ~(c < d)
    BY <1>1, <1>2, NobodyBetween
  <1>4. Following(i) = chain[i + 1] /\ chain[i + 1] \in Server
    BY <1>1, <1>3 DEF Following
  <1> QED BY <1>3, <1>4 DEF Precedes

\* What server_notify tells.
LEMMA NotifyNearest ==
  ASSUME ChainInv, ChainInv', BankMaster, NEW n \in notices, ServerNotify(n)
  PROVE  \/ udp' = udp
         \/ \E u \in Server, m \in NotiText :
               udp' = [udp EXCEPT ![u] = Append(@, m)] /\ Nearest(u, m.port)'
  <1>1. /\ chain \in Seq(Server) /\ n \in Notice /\ chain' \in Seq(Server)
        /\ Distinct(chain')
    BY BookTypes DEF ChainInv, NoServerTwice, BankInv, TypeOK, MasterTypeOK
  <1>2. CASE ~InChain(n.srv)
    BY <1>2 DEF ServerNotify
  <1>3. CASE InChain(n.srv)
    <2>1. PICK s \in Server : s = n.srv
      BY <1>1 DEF Notice
    <2>2. PICK k \in DOMAIN chain : k = IndexOf(n.srv) /\ chain[k] = s
      BY <1>3, <2>1, IndexFound DEF ChainInv, BankInv
    <2> DEFINE link == IF k \in DOMAIN chain' THEN chain'[k] ELSE NoServer
               kind == NotiOf(n.kind)
    <2>10. link \in Server \cup {NoServer} /\ kind \in NotiKind
      BY <1>1 DEF NotiKind, NotiOf
    <2>0. PICK p \in Server \cup {NoServer}, w \in NotiKind : p = link /\ w = kind
      BY <2>10
    <2>3. /\ chain' = IF n.kind = "Fail" THEN Drop(chain, k) ELSE chain
          /\ k = 1 => udp' = udp
          /\ k # 1 => ToServer(chain[k - 1], Noti(w, p))
      BY <1>3, <2>0, <2>2 DEF ServerNotify, Removed, Drop
    <2>4. CASE k = 1
      BY <2>3, <2>4
    <2>5. CASE k # 1
      <3>1. k - 1 \in DOMAIN chain /\ k - 1 \in DOMAIN chain' /\ (k - 1) + 1 = k
            /\ chain'[k - 1] = chain[k - 1]
        <4>1. k \in 1..Len(chain) /\ DOMAIN chain = 1..Len(chain) /\ Len(chain) \in Nat
          BY <1>1
        <4>2. CASE n.kind = "Fail"
          <5>0. chain' = Drop(chain, k)
            BY <2>3, <4>2
          <5>1. /\ Drop(chain, k) \in Seq(Server) /\ Len(Drop(chain, k)) = Len(chain) - 1
                /\ \A i \in 1..(Len(chain) - 1) :
                      Drop(chain, k)[i] = IF i < k THEN chain[i] ELSE chain[i + 1]
            BY ONLY k \in DOMAIN chain, <1>1, DropIndex
          <5>2. DOMAIN chain' = 1..Len(chain')
            BY <1>1
          <5>3. /\ DOMAIN chain' = 1..(Len(chain) - 1)
                /\ \A i \in 1..(Len(chain) - 1) :
                      chain'[i] = IF i < k THEN chain[i] ELSE chain[i + 1]
            BY ONLY <5>0, <5>1, <5>2
          <5> QED BY <2>5, <4>1, <5>3
        <4>3. CASE n.kind # "Fail"
          BY <2>3, <2>5, <4>1, <4>3
        <4> QED BY <4>2, <4>3
      <3>2. PICK u \in Server : u = chain[k - 1]
        BY <1>1, <3>1
      <3>3. Nearest(u, p)'
        <4> SUFFICES ASSUME NEW v \in Server, Precedes(u, v)'
                     PROVE  p \in Server /\ ~Precedes(v, p)'
          BY DEF Nearest
        <4>1. PICK a \in DOMAIN chain', b \in DOMAIN chain' :
                 a < b /\ chain'[a] = chain'[k - 1] /\ chain'[b] = v
          BY <3>1, <3>2 DEF Precedes
        <4>2. /\ k \in DOMAIN chain'
              /\ \A c, d \in DOMAIN chain' : chain'[c] = v /\ chain'[d] = chain'[k] => ~(c < d)
          BY <1>1, <3>1, <4>1, NobodyBetween
        <4>3. p = chain'[k] /\ p \in Server
          BY <1>1, <2>0, <4>2
        <4> QED BY <4>2, <4>3 DEF Precedes
      <3>4. PICK m \in NotiText : m = Noti(w, p) /\ m.port = p
        BY NotiType DEF Noti
      <3>5. udp' = udp \/ udp' = [udp EXCEPT ![u] = Append(@, m)]
        BY <2>3, <2>5, <3>2, <3>4 DEF ToServer
      <3> QED BY <3>3, <3>4, <3>5
    <2> QED BY <2>4, <2>5
  <1> QED BY <1>2, <1>3

\* Otherwise a notification that waits to be read has waited before, and the
\* next of a server is as it was or what it was told.
LEMMA NotisKept ==
  ASSUME PromptThreads, ChainInv, Downward, [Next]_vars, NEW u \in Server, up'[u]
  PROVE  /\ \/ next'[u] = next[u]
            \/ \E m \in Elements(udp[u]) : IsNoti(m) /\ next'[u] = m.port
         /\ ~BankMaster => \A m \in Elements(udp'[u]) : IsNoti(m) => m \in Elements(udp[u])
  <1> DEFINE Goal ==
                /\ \/ next'[u] = next[u]
                   \/ \E m \in Elements(udp[u]) : IsNoti(m) /\ next'[u] = m.port
                /\ \A m \in Elements(udp'[u]) : IsNoti(m) => m \in Elements(udp[u])
  <1>1. udp \in [Server -> Seq(Text)]
    BY BookTypes
  <1>2. ASSUME NEW s \in Server, BankStart(s)
        PROVE  Goal
    BY <1>2 DEF BankStart, serverVars
  <1>3. ASSUME NEW s \in Server, Dies(s)
        PROVE  Goal
    BY <1>3, BookTypes DEF Dies, Down
  <1>4. ASSUME NEW s \in Server, Works(s)
        PROVE  Goal
    <2>1. CASE u # s
      BY <1>4, <2>1, WorksElsewhere
    <2>2. CASE u = s
      <3>1. Derived(s)
        BY <1>4, WorksDerived
      <3>2. udp'[s] = udp[s] \/ (udp[s] # <<>> /\ udp'[s] = Tail(udp[s]))
        BY <1>1, <1>4 DEF Works, MainLoop, Synchronize, RecvNotification, DropRequest,
              RecvRequest, ExpireOnRequest, AcceptRequest, ExpireOnAccept, AcceptSyncSent,
              AcceptSyncProc, AcceptSyncSentNoNext, SyncSentTrans, SyncSentEnd, SyncProcTrans,
              SyncDone, wireVars, RequestWaiting, Datagram, TakeDatagram
      <3>3. Elements(udp'[s]) \subseteq Elements(udp[s])
        BY <1>1, <3>2, TailElements
      <3> QED BY <2>2, <3>1, <3>3 DEF Derived
    <2> QED BY <2>1, <2>2
  <1>5. ASSUME NEW s \in Server, NEW t \in ThreadId, Runs(s, t)
        PROVE  Goal
    BY <1>5, RunsUp
  <1>6. CASE BankTimer \/ BankReceive
    <2>1. Raw(Current) \in Text /\ ~IsNoti(Raw(Current))
      BY CurrentType, RawType DEF IsNoti, Raw, NotiKind, ChainInv, BankInv, TypeOK
    <2>2. next' = next /\ (udp'[u] = udp[u] \/ udp'[u] = Append(udp[u], Raw(Current)))
      BY <1>1, <1>6, ClientsElsewhere DEF serverVars
    <2>3. PICK r \in Text : r = Raw(Current)
      BY <2>1
    <2>4. Elements(Append(udp[u], r)) = Elements(udp[u]) \cup {r}
      BY <1>1, AppendElements
    <2>5. udp'[u] = udp[u] \/ udp'[u] = Append(udp[u], r)
      BY <2>2, <2>3
    <2>6. Elements(udp'[u]) \subseteq Elements(udp[u]) \cup {r}
      BY <2>4, <2>5
    <2> QED BY <2>1, <2>2, <2>3, <2>6
  <1>7. BankMaster => next' = next
    BY MasterElsewhere DEF serverVars
  <1>8. CASE UNCHANGED vars
    BY <1>8 DEF vars, wireVars, serverVars
  <1> QED BY <1>2, <1>3, <1>4, <1>5, <1>6, <1>7, <1>8, StepKinds

LEMMA NearestNext ==
  ASSUME PromptThreads, ChainInv, ChainInv', Downward, NextNearest, Shrinks, [Next]_vars
  PROVE  NextNearest'
  <1>1. ASSUME NEW s \in Server, NEW p, Nearest(s, p)
        PROVE  Nearest(s, p)'
    BY <1>1 DEF Nearest, Shrinks
  <1> SUFFICES ASSUME NEW u \in Server, up'[u]
               PROVE  /\ Nearest(u, next[u])'
                      /\ \A m \in Elements(udp'[u]) : IsNoti(m) => Nearest(u, m.port)'
    BY DEF NextNearest
  <1>2. up[u] /\ udp \in [Server -> Seq(Text)]
    BY BookTypes DEF Shrinks
  <1>3. PICK p : p = next'[u]
    OBVIOUS
  <1>4. Nearest(u, p)
    BY <1>2, <1>3, NotisKept DEF NextNearest
  <1>5. Nearest(u, p)'
    BY <1>1, <1>4
  <1>6. ASSUME NEW m \in Elements(udp'[u]), IsNoti(m)
        PROVE  Nearest(u, m.port)'
    <2>1. CASE m \in Elements(udp[u])
      <3>1. Nearest(u, m.port)
        BY <1>2, <1>6, <2>1 DEF NextNearest
      <3> QED BY <1>1, <3>1
    <2>2. CASE m \notin Elements(udp[u])
      <3>1. BankMaster
        BY <1>6, <2>2, NotisKept
      <3>2. PICK v \in Server, q \in NotiText :
               udp' = [udp EXCEPT ![v] = Append(@, q)] /\ Nearest(v, q.port)'
        BY <2>2, <3>1, MasterElsewhere, NotifyNearest
      <3>3. q \in Text
        BY DEF Text
      <3>4. Elements(Append(udp[v], q)) = Elements(udp[v]) \cup {q}
        BY <1>2, <3>3, AppendElements
      <3>5. u = v /\ m = q
        BY <1>2, <1>6, <2>2, <3>2, <3>4
      <3> QED BY <3>2, <3>5
    <2> QED BY <2>1, <2>2
  <1>7. Nearest(u, next[u])'
    BY <1>3, <1>5 DEF Nearest
  <1> QED BY <1>6, <1>7

-----------------------------------------------------------------------------
(* What the client knows.                                                  *)

LEMMA FirstViewed ==
  ASSUME ChainInv, NEW p, NEW j \in DOMAIN view, view[j] = p
  PROVE  \E k \in DOMAIN view : view[k] = p /\ RemoveServer(p) = Drop(view, k)
  <1> DEFINE R(k) == k \in DOMAIN view /\ view[k] = p /\ \A i \in 1..(k - 1) : view[i] # p
             k0 == CHOOSE k \in DOMAIN view :
                      view[k] = p /\ \A i \in 1..(k - 1) : view[i] # p
  <1>1. \E k \in DOMAIN view : view[k] = p /\ \A i \in 1..(k - 1) : view[i] # p
    BY ClientTypes, FirstIndex
  <1>2. k0 \in DOMAIN view /\ view[k0] = p
    BY <1>1
  <1>3. RemoveServer(p) = Drop(view, k0)
    BY DEF RemoveServer, Drop
  <1> HIDE DEF k0
  <1> QED BY <1>2, <1>3

\* remove_server takes one that is gone.
LEMMA ViewNext ==
  ASSUME PromptThreads, ChainInv, PlaceInv, Shrinks, [Next]_vars
  PROVE  ViewOrdered'
  <1>1. view' = view \/ \E p : ~Alive(p) /\ view' = RemoveServer(p)
    <2>1. CASE \E s \in Server : BankStart(s) \/ Dies(s) \/ Works(s)
      BY <2>1 DEF BankStart, Dies, Works, clientVars
    <2>2. CASE \E s \in Server, t \in ThreadId : Runs(s, t)
      BY <2>2 DEF Runs, clientVars
    <2>3. CASE BankTimer
      BY <2>3 DEF BankTimer, OpenSocket, SendRequest, Resend, GiveUp
    <2>4. CASE BankReceive
      <3>1. CASE RecvReply
        BY <3>1 DEF RecvReply
      <3>2. CASE RecvFail \/ RecvExtension
        <4>1. inbox # <<>> /\ Head(inbox).kind # "Reply"
          BY <3>2 DEF RecvFail, RecvExtension, Arrived
        <4>2. Head(inbox) \in Elements(inbox)
          BY <4>1, ClientTypes, TailElements
        <4>3. Head(inbox).kind = "Fail" /\ ~Alive(Head(inbox).port)
          BY <4>1, <4>2 DEF PlaceInv, FailsTrue
        <4> QED BY <3>2, <4>3 DEF RecvFail, RecvExtension, Arrived
      <3> QED BY <2>4, <3>1, <3>2 DEF BankReceive
    <2>5. CASE BankMaster \/ UNCHANGED vars
      BY <2>5 DEF BankMaster, vars, clientVars
    <2> QED BY <2>1, <2>2, <2>3, <2>4, <2>5, StepKinds
  <1>2. CASE view' = view
    BY <1>2 DEF PlaceInv, ViewOrdered, Shrinks
  <1>3. ASSUME NEW p, ~Alive(p), NEW j \in DOMAIN view, view[j] = p, view' = RemoveServer(p)
        PROVE  ViewOrdered'
    <2>1. PICK k \in DOMAIN view : view[k] = p /\ view' = Drop(view, k)
      BY <1>3, FirstViewed
    <2>2. view \in Seq(Server \cup {NoServer})
      BY ClientTypes
    <2>3. /\ Drop(view, k) \in Seq(Server \cup {NoServer})
          /\ Len(Drop(view, k)) = Len(view) - 1
          /\ \A i \in 1..(Len(view) - 1) :
                Drop(view, k)[i] = IF i < k THEN view[i] ELSE view[i + 1]
      BY ONLY k \in DOMAIN view, <2>2, DropIndex
    <2>4. /\ DOMAIN view' = 1..(Len(view) - 1) /\ DOMAIN view = 1..Len(view)
          /\ Len(view) \in Nat
          /\ \A i \in 1..(Len(view) - 1) :
                view'[i] = IF i < k THEN view[i] ELSE view[i + 1]
      BY <2>1, <2>2, <2>3
    <2> DEFINE Was(h) == IF h < k THEN h ELSE h + 1
               Now(h) == IF h < k THEN h ELSE h - 1
    <2>5. \A h \in DOMAIN view' : Was(h) \in DOMAIN view /\ view'[h] = view[Was(h)]
      BY <2>4
    <2>6. \A h, i \in DOMAIN view' : h < i => Was(h) < Was(i)
      BY <2>4
    <2>7. \A h \in DOMAIN view : h # k => Now(h) \in DOMAIN view' /\ view'[Now(h)] = view[h]
      BY <2>4
    <2> HIDE DEF Was, Now
    <2>8. ASSUME NEW s \in Server, up'[s]
          PROVE  \E i \in DOMAIN view' : view'[i] = s
      <3>1. up[s] /\ s # p
        BY <1>3, <2>8 DEF Shrinks, Alive
      <3>2. PICK h \in DOMAIN view : view[h] = s
        BY <3>1 DEF PlaceInv, ViewOrdered
      <3> QED BY <2>1, <2>7, <3>1, <3>2
    <2>9. ASSUME NEW h \in DOMAIN view', NEW i \in DOMAIN view', h < i
          PROVE  ~Precedes(view[i], view[h])'
      <3>1. ~Precedes(view[Was(i)], view[Was(h)])
        BY <2>5, <2>6, <2>9 DEF PlaceInv, ViewOrdered
      <3>2. PICK a, b : a = view'[i] /\ b = view'[h]
        OBVIOUS
      <3>3. ~Precedes(a, b)
        BY <2>5, <3>1, <3>2
      <3>4. ~Precedes(a, b)'
        BY <3>3 DEF Shrinks
      <3> QED BY <3>2, <3>4 DEF Precedes
    <2> QED BY <2>8, <2>9 DEF ViewOrdered
  <1>4. ASSUME NEW p, ~(\E j \in DOMAIN view : view[j] = p), view' = RemoveServer(p)
        PROVE  view' = view
    BY <1>4 DEF RemoveServer
  <1> QED BY <1>1, <1>2, <1>3, <1>4

LEMMA ReplyFields ==
  ASSUME NEW i \in Id, NEW o \in Outcome, NEW b \in Balance
  PROVE  /\ Reply(i, o, b) \in ReplyText
         /\ Reply(i, o, b).kind = "Reply" /\ Reply(i, o, b).id = i
  BY DEF Reply, ReplyText

LEMMA NotiFields ==
  ASSUME NEW s \in Server
  PROVE  /\ Noti("Fail", s) \in NotiText
         /\ Noti("Fail", s).kind = "Fail" /\ Noti("Fail", s).port = s
  BY DEF Noti, NotiText, NotiKind

\* A reply comes from a Reply thread, a notification from the master.
LEMMA InboxFrom ==
  ASSUME PromptThreads, ChainInv, NoJoins, [Next]_vars, NEW m \in Elements(inbox')
  PROVE  \/ m \in Elements(inbox)
         \/ BankMaster /\ m.kind = "Fail" /\ ~Alive(m.port)
         \/ \E s \in Server, t \in ThreadId :
               Runs(s, t) /\ ReplySend(s, t) /\ m.kind = "Reply" /\ m.id = thr[s][t].req.id
  <1>1. inbox \in Seq(ReplyText \cup NotiText) /\ Elements(<<>>) = {}
    BY ClientTypes DEF Elements
  <1>2. ASSUME inbox' = inbox \/ inbox' = <<>> \/ (inbox # <<>> /\ inbox' = Tail(inbox))
        PROVE  m \in Elements(inbox)
    BY <1>1, <1>2, TailElements
  <1>3. CASE \E s \in Server : BankStart(s) \/ Dies(s)
    BY <1>2, <1>3 DEF BankStart, Dies, Down
  <1>4. ASSUME NEW s \in Server, Works(s)
        PROVE  inbox' = inbox
    BY <1>4 DEF Works, MainLoop, Synchronize, RecvNotification, DropRequest, RecvRequest,
         ExpireOnRequest, AcceptRequest, ExpireOnAccept, AcceptSyncSent,
         AcceptSyncProc, AcceptSyncSentNoNext, SyncSentTrans, SyncSentEnd, SyncProcTrans,
         SyncDone, wireVars
  <1>5. ASSUME NEW s \in Server, NEW t \in ThreadId, Runs(s, t), ~ReplySend(s, t)
        PROVE  inbox' = inbox
    BY <1>5 DEF Runs, ThreadStep, SyncConnect, SyncNullNext, SyncAdd, SyncEof, SyncAcked,
         SyncHist, ReplyStart, ProcCheck, ProcApply, ReplyHist, ReplyNowhere, ReplyAck,
         wireVars
  <1>6. ASSUME NEW s \in Server, NEW t \in ThreadId, Runs(s, t), ReplySend(s, t),
               m \notin Elements(inbox)
        PROVE  m.kind = "Reply" /\ m.id = thr[s][t].req.id
    <2>1. /\ thr[s][t].req.id \in Id /\ thr[s][t].outcome \in Outcome
          /\ thr[s][t].bal \in Balance
      BY BookTypes DEF Thread, Request
    <2>2. PICK q \in ReplyText :
             /\ q = Reply(thr[s][t].req.id, thr[s][t].outcome, thr[s][t].bal)
             /\ q.kind = "Reply" /\ q.id = thr[s][t].req.id
      BY ONLY <2>1, ReplyFields
    <2>3. inbox' = inbox \/ inbox' = Append(inbox, q)
      BY <1>6, <2>2 DEF ReplySend, ToClient
    <2>4. Elements(Append(inbox, q)) = Elements(inbox) \cup {q}
      BY <1>1, AppendElements
    <2> QED BY <1>6, <2>2, <2>3, <2>4
  <1>7. CASE BankTimer
    BY <1>2, <1>7 DEF BankTimer, OpenSocket, SendRequest, Resend, GiveUp, Advance
  <1>8. CASE BankReceive
    BY <1>2, <1>8 DEF BankReceive, RecvReply, RecvFail, RecvExtension, Arrived, Advance
  <1>9. CASE BankMaster
    <2>1. ASSUME NEW s \in Server, DetectFail(s), m \notin Elements(inbox)
          PROVE  m.kind = "Fail" /\ ~Alive(m.port)
      <3>1. PICK q \in NotiText : q = Noti("Fail", s) /\ q.kind = "Fail" /\ q.port = s
        BY NotiFields
      <3>2. inbox' = inbox \/ inbox' = Append(inbox, q)
        BY <2>1, <3>1 DEF DetectFail, ToClients
      <3>3. Elements(Append(inbox, q)) = Elements(inbox) \cup {q}
        BY <1>1, AppendElements
      <3>4. ~up[s] /\ s \notin asleep
        BY <2>1 DEF DetectFail, NoJoins
      <3> QED BY <2>1, <3>1, <3>2, <3>3, <3>4 DEF Alive
    <2>2. ASSUME NEW s \in Server, DetectJoin(s)
          PROVE  FALSE
      BY <2>2 DEF DetectJoin, NoJoins
    <2>3. ASSUME NEW n \in notices, ServerNotify(n)
          PROVE  inbox' = inbox
      BY <2>3 DEF ServerNotify
    <2> QED BY <1>2, <1>9, <2>1, <2>2, <2>3 DEF BankMaster
  <1>10. CASE UNCHANGED vars
    BY <1>2, <1>10 DEF vars, wireVars
  <1> QED BY <1>2, <1>3, <1>4, <1>5, <1>6, <1>7, <1>8, <1>9, <1>10, StepKinds

LEMMA FailsNext ==
  ASSUME PromptThreads, ChainInv, NoJoins, FailsTrue, [Next]_vars
  PROVE  FailsTrue'
  <1>1. OrderKept
    BY NextOrder
  <1>2. \A p : ~Alive(p) => ~Alive(p)'
    BY <1>1 DEF OrderKept
  <1>3. ASSUME NEW m \in Elements(inbox'), m.kind # "Reply"
        PROVE  m.kind = "Fail" /\ ~Alive(m.port)
    BY <1>3, InboxFrom DEF FailsTrue
  <1>4. ASSUME NEW m \in Elements(inbox'), m.kind # "Reply"
        PROVE  m.kind = "Fail" /\ ~Alive(m.port)'
    <2>1. PICK p : p = m.port
      OBVIOUS
    <2> QED BY <1>2, <1>3, <1>4, <2>1 DEF Alive
  <1> QED BY <1>4 DEF FailsTrue

\* Who is there, after every step.
LEMMA PlaceNext == BookInv /\ BookInv' /\ PlaceInv /\ [Next]_vars => PlaceInv'
  <1> SUFFICES ASSUME BookInv, BookInv', PlaceInv, [Next]_vars
               PROVE  PlaceInv'
    OBVIOUS
  <1>1. PromptThreads /\ ChainInv /\ ChainInv' /\ Downward
    BY DEF BookInv, WayInv, OrderInv
  <1>2. Shrinks /\ NoJoins'
    BY <1>1, ShrinksNext DEF PlaceInv
  <1>3. NextNearest'
    BY <1>1, <1>2, NearestNext DEF PlaceInv
  <1>4. ViewOrdered' /\ FailsTrue'
    BY <1>1, <1>2, ViewNext, FailsNext DEF PlaceInv
  <1> QED BY <1>2, <1>3, <1>4 DEF PlaceInv

-----------------------------------------------------------------------------
(* What a step leaves to a thread.                                         *)

\* Threads do not write the buffer of main, nor does main that of another server.
LEMMA BufferKept ==
  ASSUME ChainInv
  PROVE  /\ \A s \in Server, t \in ThreadId : Runs(s, t) => buf' = buf
         /\ \A s, u \in Server : Works(s) /\ u # s => buf'[u] = buf[u]
  <1>1. ASSUME NEW s \in Server, NEW t \in ThreadId, Runs(s, t)
        PROVE  buf' = buf
    BY <1>1 DEF Runs, ThreadStep, SyncConnect, SyncNullNext, SyncAdd, SyncEof, SyncAcked,
         SyncHist, ReplyStart, ProcCheck, ProcApply, ReplySend, ReplyHist, ReplyNowhere,
         ReplyAck
  <1>2. ASSUME NEW s \in Server, NEW u \in Server, Works(s), u # s
        PROVE  buf'[u] = buf[u]
    BY <1>2, BookTypes DEF Works, MainLoop, Synchronize, RecvNotification, DropRequest,
         RecvRequest, ExpireOnRequest, AcceptRequest, ExpireOnAccept, AcceptSyncSent,
         AcceptSyncProc, AcceptSyncSentNoNext, SyncSentTrans, SyncSentEnd, SyncProcTrans,
         SyncDone, TakeDatagram, TakePacket
  <1> QED BY <1>1, <1>2

\* When main does something the threads of the server are idle or wait. It
\* starts one at most, for the request it has in its buffer.
LEMMA WorksThreads ==
  ASSUME ChainInv, PromptThreads, NEW s \in Server, Works(s), NEW w \in ThreadId
  PROVE  /\ thr[s][w].pc \in {"idle", "wait"}
         /\ thr[s][w].pc = "wait" => thr[s][w].ack = "none"
         /\ \/ thr'[s][w] = thr[s][w]
            \/ /\ thr'[s][w].pc = IF isTail(s) THEN "start" ELSE "connect"
               /\ thr'[s][w].ack = "none"
               /\ next'[s] = next[s]
               /\ Parse(buf'[s]) = Args(s, w).req'
  <1>1. /\ thr[s][w].pc \in {"idle", "wait"}
        /\ thr[s][w].pc = "wait" => thr[s][w].ack = "none"
    BY WorksUp DEF Works, Busy, Runnable
  <1>2. ASSUME NEW c \in {"udp", "tcp"},
               IF c = "udp" THEN RecvRequest(s) ELSE AcceptRequest(s)
        PROVE  /\ next'[s] = next[s] /\ Spawn(s, c) /\ c \in Chan
               /\ Parse(buf'[s]) = args'[s][c].req
    <2>1. CASE c = "udp"
      BY <1>2, <2>1, BookTypes DEF RecvRequest, TakeDatagram, Chan
    <2>2. CASE c = "tcp"
      BY <1>2, <2>2, BookTypes DEF AcceptRequest, TakePacket, Chan
    <2> QED BY <2>1, <2>2
  <1>3. CASE RecvRequest(s) \/ AcceptRequest(s)
    <2>1. PICK c \in {"udp", "tcp"} : IF c = "udp" THEN RecvRequest(s) ELSE AcceptRequest(s)
      BY <1>3
    <2>2. PICK t \in ThreadId :
             /\ thr'[s][t].pc = IF isTail(s) THEN "start" ELSE "connect"
             /\ thr'[s][t].chan = c /\ thr'[s][t].ack = "none"
             /\ w # t => thr'[s][w] = thr[s][w]
      BY <1>2, <2>1, SpawnThread
    <2>3. Parse(buf'[s]) = Args(s, t).req' /\ next'[s] = next[s]
      BY <1>2, <2>1, <2>2 DEF Args
    <2> QED BY <1>1, <2>2, <2>3
  <1>4. CASE ~RecvRequest(s) /\ ~AcceptRequest(s)
    BY <1>1, <1>4 DEF Works, MainLoop, Synchronize, RecvNotification, DropRequest,
            ExpireOnRequest, ExpireOnAccept, AcceptSyncSent, AcceptSyncProc,
            AcceptSyncSentNoNext, SyncSentTrans, SyncSentEnd, SyncProcTrans, SyncDone
  <1> QED BY <1>3, <1>4

\* The thread is where it was and sees what it saw.
Rests(u, w) ==
    /\ args'[u] = args[u] /\ next'[u] = next[u] /\ buf'[u] = buf[u]
    /\ thr'[u][w].pc = thr[u][w].pc /\ thr'[u][w].role = thr[u][w].role
    /\ thr'[u][w].chan = thr[u][w].chan

LEMMA Untouched ==
  ASSUME PromptThreads, ChainInv, Downward, [Next]_vars, NEW u \in Server, NEW w \in ThreadId,
         up'[u], ~Works(u), ~Runs(u, w)
  PROVE  Rests(u, w)
  <1> USE BookTypes
  <1>1. ASSUME NEW a, thr'[u][w] = WithAck(thr[u][w], a)
        PROVE  /\ thr'[u][w].pc = thr[u][w].pc /\ thr'[u][w].role = thr[u][w].role
               /\ thr'[u][w].chan = thr[u][w].chan
    BY <1>1, WithAckFields
  <1>2. CASE \/ \E s \in Server : BankStart(s)
             \/ BankTimer \/ BankReceive \/ BankMaster \/ UNCHANGED vars
    <2>1. UNCHANGED serverVars
      BY <1>2, ClientsElsewhere, MasterElsewhere DEF BankStart, vars
    <2> QED BY <2>1 DEF serverVars, Rests
  <1>3. ASSUME NEW s \in Server, Dies(s)
        PROVE  Rests(u, w)
    <2>1. Down(s) /\ u # s
      BY <1>3 DEF Dies, Down
    <2>2. args'[u] = args[u] /\ next'[u] = next[u] /\ buf'[u] = buf[u]
      BY <2>1 DEF Down
    <2>3. thr'[u][w] = thr[u][w] \/ thr'[u][w] = WithAck(thr[u][w], "eof")
      BY <2>1, DownThread
    <2> QED BY <1>1, <2>2, <2>3 DEF Rests
  <1>4. ASSUME NEW s \in Server, Works(s)
        PROVE  Rests(u, w)
    BY <1>4, WorksElsewhere, BufferKept DEF Rests
  <1>5. ASSUME NEW s \in Server, NEW t \in ThreadId, Runs(s, t)
        PROVE  Rests(u, w)
    <2>1. args' = args /\ next' = next /\ buf' = buf
      BY <1>5, RunsUp, BufferKept
    <2>2. CASE u = s
      <3>1. w # t
        BY <1>5, <2>2
      <3>2. thr'[u][w] = thr[u][w]
        BY <1>5, <2>2, <3>1, RunsSelf
      <3> QED BY <2>1, <3>2 DEF Rests
    <2>3. CASE u # s
      <3>1. thr'[u][w] = thr[u][w] \/ thr'[u][w] = WithAck(thr[u][w], "acked")
        BY <1>5, <2>3, RunsOthers
      <3> QED BY <1>1, <2>1, <3>1 DEF Rests
    <2> QED BY <2>2, <2>3
  <1> QED BY <1>2, <1>3, <1>4, <1>5, StepKinds

LEMMA SteadyNext == PromptThreads /\ BookInv /\ BookInv' /\ Steady /\ [Next]_vars => Steady'
  <1> SUFFICES ASSUME PromptThreads, ChainInv, Downward, Silent', Shape, Steady, [Next]_vars,
                      NEW s \in Server, NEW t \in ThreadId
               PROVE  /\ thr'[s][t].pc = "connect" => Parse(buf'[s]) = Args(s, t).req'
                      /\ /\ thr'[s][t].pc \in {"start", "check", "apply", "send"}
                         /\ thr'[s][t].role = "Reply"
                         => next'[s] = NoServer
    BY DEF Steady, BookInv, WayInv, OrderInv
  <1>1. CASE ~up'[s]
    <2>1. thr'[s][t] = Idle
      BY <1>1 DEF Silent, Blank
    <2> QED BY <2>1, IdleFields
  <1>2. CASE Works(s)
    <2>1. /\ thr[s][t].pc \in {"idle", "wait"}
          /\ \/ thr'[s][t] = thr[s][t]
             \/ /\ thr'[s][t].pc = IF isTail(s) THEN "start" ELSE "connect"
                /\ next'[s] = next[s]
                /\ Parse(buf'[s]) = Args(s, t).req'
      BY <1>2, WorksThreads
    <2> QED BY <2>1 DEF isTail
  <1>3. CASE Runs(s, t)
    <2>1. next' = next
      BY <1>3, RunsUp
    <2>2. thr'[s][t].pc # "connect"
          /\ (thr'[s][t].pc \in {"start", "check", "apply", "send"} /\ thr'[s][t].role = "Reply"
              => thr[s][t].pc \in {"start", "check", "apply"} /\ thr[s][t].role = "Reply")
      <3>1. CASE SyncConnect(s, t) \/ SyncEof(s, t) \/ SyncHist(s, t) \/ ReplyAck(s, t)
        BY <1>3, <3>1, RunsThread, IdleFields
      <3>2. CASE SyncAdd(s, t) \/ ReplyStart(s, t) \/ ProcCheck(s, t) \/ ReplySend(s, t)
                 \/ ReplyHist(s, t)
        <4>1. \/ Moved(s, t, "add", "wait") \/ Moved(s, t, "start", "check")
              \/ Moved(s, t, "check", "apply") \/ Moved(s, t, "send", "hist")
              \/ Moved(s, t, "hist", "ack")
          BY <1>3, <3>2, RunsThread
        <4> QED BY <4>1 DEF Moved
      <3>3. CASE ProcApply(s, t)
        <4>1. Moved(s, t, "apply", IF thr[s][t].role = "Reply" THEN "send" ELSE "hist")
          BY <1>3, <3>3, RunsThread
        <4> QED BY <4>1 DEF Moved
      <3>4. CASE SyncAcked(s, t)
        BY <1>3, <3>4, RunsThread
      <3> QED BY <1>3, <3>1, <3>2, <3>3, <3>4 DEF Runs, ThreadStep, SyncNullNext, ReplyNowhere
    <2> QED BY <2>1, <2>2 DEF Steady
  <1>4. CASE up'[s] /\ ~Works(s) /\ ~Runs(s, t)
    <2>1. Rests(s, t)
      BY <1>4, Untouched
    <2>2. buf'[s] = buf[s] /\ Args(s, t)' = Args(s, t)
      BY <2>1 DEF Rests, Args
    <2> QED BY <2>1, <2>2 DEF Rests, Steady
  <1> QED BY <1>1, <1>2, <1>3, <1>4

-----------------------------------------------------------------------------
(* Who has a request keeps it.                                             *)

LEMMA IdsKept ==
  ASSUME PromptThreads, ChainInv, [Next]_vars, NEW u \in Server, up'[u],
         NEW i, i \in IdsOf(sent[u] \cup proc[u])
  PROVE  i \in IdsOf(sent'[u] \cup proc'[u])
  <1>1. PICK q \in sent[u] \cup proc[u] : q.id = i
    BY DEF IdsOf
  <1>2. CASE sent'[u] = sent[u] /\ proc'[u] = proc[u]
    BY <1>2
  <1>3. CASE \E r \in Request : sent'[u] = AddsentTrans(r, sent[u]) /\ proc'[u] = proc[u]
    BY <1>1, <1>3 DEF AddsentTrans, IdsOf
  <1>4. ASSUME NEW r \in Request, NEW S \in SUBSET Request, sent[u] \subseteq S,
               sent'[u] = AckSent(r, S), proc'[u] = AckProc(r, S, proc[u])
        PROVE  i \in IdsOf(sent'[u] \cup proc'[u])
    <2>1. CASE q \in proc'[u] \/ q \in sent'[u]
      BY <1>1, <2>1 DEF IdsOf
    <2>2. CASE q \notin proc'[u] /\ q \notin sent'[u]
      <3>1. proc[u] \subseteq proc'[u]
        BY <1>4 DEF AckProc
      <3>2. q \in S /\ r.type # "Query" /\ Same(q, r)
        BY <1>1, <1>4, <2>2, <3>1 DEF AckSent
      <3>3. r.id \in IdsOf(proc'[u])
        BY <1>4, <3>2 DEF AckProc, CheckHist, IdsOf, Same
      <3> QED BY <1>1, <3>2, <3>3 DEF Same, IdsOf
    <2> QED BY <2>1, <2>2
  <1> QED BY <1>2, <1>3, <1>4, BooksMove

\* AddsentTrans of a Sync thread, AddsentTrans and AckHist of a Reply thread.
LEMMA WillDone ==
  ASSUME ChainInv, Downward, NEW u \in Server, NEW t \in ThreadId, Will(u, t), Runs(u, t)
  PROVE  Args(u, t).req.id \in IdsOf(sent'[u] \cup proc'[u])
  <1>1. PICK r \in Request : r = Args(u, t).req /\ r.type # "Query"
    BY RunsUp, BackOther DEF Will
  <1>2. PICK S \in SUBSET Request : S = AddsentTrans(r, sent[u])
    BY BookTypes, AddType
  <1>3. r \in S
    BY <1>1, <1>2 DEF AddsentTrans
  <1>4. CASE thr[u][t].pc = "add"
    <2>1. SyncAdd(u, t)
      BY <1>4 DEF Runs, ThreadStep, SyncConnect, SyncNullNext, SyncEof, SyncAcked,
           SyncHist, ReplyStart, ProcCheck, ProcApply, ReplySend, ReplyHist, ReplyNowhere,
           ReplyAck, At
    <2>2. sent'[u] = S
      BY <1>1, <1>2, <2>1, BookTypes DEF SyncAdd
    <2> QED BY <1>1, <1>3, <2>2 DEF IdsOf
  <1>5. CASE thr[u][t].pc = "hist" /\ thr[u][t].role = "Reply"
    <2>1. ReplyHist(u, t)
      BY <1>5 DEF Runs, ThreadStep, SyncConnect, SyncNullNext, SyncAdd, SyncEof, SyncAcked,
           SyncHist, ReplyStart, ProcCheck, ProcApply, ReplySend, ReplyNowhere,
           ReplyAck, At
    <2>2. proc'[u] = AckProc(r, S, proc[u])
      BY <1>1, <1>2, <2>1, BookTypes DEF ReplyHist
    <2>3. r.id \in IdsOf(proc'[u])
      BY <1>1, <1>3, <2>2 DEF AckProc, CheckHist, IdsOf, Same
    <2> QED BY <1>1, <2>3 DEF IdsOf
  <1> QED BY <1>4, <1>5 DEF Will

LEMMA HoldsKept ==
  ASSUME PromptThreads, BookInv, [Next]_vars, NEW u \in Server, up'[u], NEW i, Holds(u, i)
  PROVE  Holds(u, i)'
  <1>1. ChainInv /\ Downward
    BY DEF BookInv, WayInv, OrderInv
  <1>2. CASE i \in IdsOf(sent[u] \cup proc[u])
    BY <1>1, <1>2, IdsKept DEF Holds
  <1>3. ASSUME NEW t \in ThreadId, Will(u, t), Args(u, t).req.id = i
        PROVE  Holds(u, i)'
    <2>1. ~Works(u)
      <3>1. ASSUME Works(u)
            PROVE  thr[u][t].pc \in {"idle", "wait"}
        BY <1>1, <3>1, WorksThreads
      <3> QED BY <1>3, <3>1 DEF Will
    <2>2. CASE Runs(u, t)
      BY <1>1, <1>3, <2>2, WillDone DEF Holds
    <2>3. CASE ~Runs(u, t)
      <3>1. Rests(u, t)
        BY <1>1, <2>1, <2>3, Untouched
      <3>2. Args(u, t)' = Args(u, t)
        BY <3>1 DEF Rests, Args
      <3>3. Will(u, t)' /\ Args(u, t).req.id' = i
        BY <1>3, <3>1, <3>2 DEF Rests, Will
      <3> QED BY <3>3 DEF Holds
    <2> QED BY <2>2, <2>3
  <1> QED BY <1>2, <1>3 DEF Holds

\* Who has passed a request on has it, when it has gone.
LEMMA PassedKept ==
  ASSUME PromptThreads, BookInv, Shrinks, [Next]_vars, NEW s, NEW r, Passed(s, r)
  PROVE  Passed(s, r)'
  <1> SUFFICES ASSUME NEW u \in Server, up'[u], Precedes(u, s)', r.type # "Query"
               PROVE  Holds(u, r.id)'
    BY DEF Passed
  <1>1. up[u] /\ Precedes(u, s)
    BY DEF Shrinks
  <1>2. Holds(u, r.id)
    BY <1>1 DEF Passed
  <1> QED BY <1>2, HoldsKept

-----------------------------------------------------------------------------
(* Where a request comes from.                                             *)

\* The server s gets r from itself, from the server before it, which keeps it, or
\* from the client.
Follows(s, r) ==
    \/ \E j \in Form, b \in Spot :
          Front(s, j, b) /\ ~Acknowledged(s, j, b) /\ r = What(s, j, b)
    \/ \E u \in Server, j \in Form, b \in Spot :
          /\ Front(u, j, b) /\ ~Acknowledged(u, j, b) /\ r = What(u, j, b)
          /\ up[u] /\ s = next[u]
          /\ r.type # "Query" => Holds(u, r.id)'
    \/ r = Current /\ view # <<>> /\ s = SearchServer(Current)

\* Each request that is on its way to the tail after the step.
Sound ==
    \A s \in Server, k \in Form, a \in Spot :
        Front(s, k, a)' /\ ~Acknowledged(s, k, a)' =>
            \E r : r = What(s, k, a)' /\ Follows(s, r)

\* All before s have what it gets.
LEMMA FollowsPassed ==
  ASSUME KeptTiming, BookInv, PlaceInv, Carried, Shrinks, [Next]_vars,
         NEW s \in Server, NEW r, Follows(s, r)
  PROVE  Passed(s, r)'
  <1>1. PromptThreads /\ QueriesApart /\ ChainInv
    BY DEF KeptTiming, Timing, BookInv, WayInv, OrderInv
  <1>2. ASSUME NEW j \in Form, NEW b \in Spot, Front(s, j, b), ~Acknowledged(s, j, b),
               r = What(s, j, b)
        PROVE  Passed(s, r)'
    <2>1. Passed(s, r)
      BY <1>2 DEF Carried
    <2> QED BY <1>1, <2>1, PassedKept
  <1>3. ASSUME NEW u \in Server, NEW j \in Form, NEW b \in Spot, Front(u, j, b),
               ~Acknowledged(u, j, b), r = What(u, j, b), up[u], s = next[u],
               r.type # "Query" => Holds(u, r.id)'
        PROVE  Passed(s, r)'
    <2>1. Passed(u, r)
      BY <1>3 DEF Carried
    <2>2. ASSUME NEW v \in Server, up'[v], Precedes(v, s)', r.type # "Query"
          PROVE  Holds(v, r.id)'
      <3>1. up[v] /\ Precedes(v, s)
        BY <2>2 DEF Shrinks
      <3>2. CASE v = u
        BY <1>3, <2>2, <3>2
      <3>3. CASE v # u
        <4>1. Nearest(u, s)
          BY <1>3 DEF PlaceInv, NextNearest
        <4>2. ~Precedes(u, v)
          BY <3>1, <4>1 DEF Nearest
        <4>3. InChain(u) /\ InChain(v)
          BY <1>3, <3>1 DEF PlaceInv, NoJoins
        <4>4. Precedes(v, u)
          BY <1>1, <3>3, <4>2, <4>3, ChainTotal
        <4>5. Holds(v, r.id)
          BY <2>1, <2>2, <3>1, <4>4 DEF Passed
        <4> QED BY <1>1, <2>2, <4>5, HoldsKept
      <3> QED BY <3>2, <3>3
    <2> QED BY <2>1, <2>2 DEF Passed
  <1>4. ASSUME r = Current, view # <<>>, s = SearchServer(Current)
        PROVE  Passed(s, r)'
    <2>1. pos \in DOMAIN Script /\ view \in Seq(Server \cup {NoServer})
      BY <1>1, ClientTypes
    <2>2. r.type = "Query" => r.id \notin UpdateIds
      BY <1>1, <1>4, <2>1 DEF QueriesApart, Current
    <2>3. ASSUME NEW v \in Server, up'[v], Precedes(v, s)', r.type # "Query"
          PROVE  FALSE
      <3>1. up[v] /\ Precedes(v, s)
        BY <2>3 DEF Shrinks
      <3>2. s = view[1] /\ 1 \in DOMAIN view
        BY <1>4, <2>1, <2>3 DEF SearchServer
      <3>3. PICK i \in DOMAIN view : view[i] = v
        BY <3>1 DEF PlaceInv, ViewOrdered
      <3>4. i # 1
        BY <1>1, <3>1, <3>2, <3>3, PrecedesOrder
      <3>5. 1 < i
        BY <2>1, <3>4
      <3> QED BY <3>1, <3>2, <3>3, <3>5 DEF PlaceInv, ViewOrdered
    <2> QED BY <2>2, <2>3 DEF Passed
  <1> QED BY <1>2, <1>3, <1>4 DEF Follows

\* A step that leaves each request where it is, but for a queue of which the head
\* is taken.
LEMMA ReadsFollow ==
  ASSUME ChainInv, NEW l, NEW k, Reads(l, k),
         \A u \in Server, w \in ThreadId : Keeps(u, w)
  PROVE  Sound
  <1> SUFFICES ASSUME NEW s \in Server, NEW j \in Form, NEW a \in Spot,
                      Front(s, j, a)', ~Acknowledged(s, j, a)'
               PROVE  \E b \in Spot : /\ Front(s, j, b) /\ ~Acknowledged(s, j, b)
                                      /\ What(s, j, a)' = What(s, j, b)
    BY DEF Sound, Follows
  <1>1. CASE j = "thr"
    <2>1. a \in ThreadId /\ Carries(s, a)'
      BY <1>1 DEF Front
    <2> QED BY <1>1, <2>1 DEF Front, Acknowledged, Keeps, What
  <1>2. CASE j \in {"udp", "tcp"}
    <2>1. PICK b \in Spot : Front(s, j, b) /\ Item(s, j, a)' = Item(s, j, b)
      <3>1. CASE s = l /\ j = k
        BY <1>2, <3>1, QueueFronts
      <3>2. CASE ~(s = l /\ j = k)
        BY <1>2, <3>2, QueueFronts
      <3> QED BY <3>1, <3>2
    <2>2. What(s, j, a)' = What(s, j, b)
      BY <1>2, <2>1 DEF What, Item
    <2> QED BY <1>2, <2>1, <2>2 DEF Acknowledged
  <1> QED BY <1>1, <1>2 DEF Form

\* The request is at one place after the step.
LEMMA OnePlace ==
  ASSUME NEW v \in Server, NEW l \in Form, NEW b \in Spot, NEW r, r = What(v, l, b)',
         Follows(v, r), OneRequest' /\ Front(v, l, b)'
  PROVE  Sound
  BY DEF Sound, OneRequest

\* Nobody takes a request or sends one.
LEMMA QuietFollow ==
  ASSUME ChainInv, UNCHANGED <<tcp, args, thr>>,
         \A u \in Server : \/ udp'[u] = udp[u]
                           \/ \E m : NoRequest(m) /\ udp'[u] = Append(udp[u], m)
  PROVE  Sound
  <1>1. \A u \in Server, w \in ThreadId : Keeps(u, w)
    BY DEF Keeps, Carries, Args
  <1>2. PICK k : k = "thr"
    OBVIOUS
  <1>3. Reads(k, k)
    BY <1>2 DEF Reads
  <1> QED BY <1>1, <1>3, ReadsFollow

LEMMA RawFields ==
  ASSUME NEW r \in Request
  PROVE  Raw(r) \in RequestText /\ Raw(r).kind = "Raw" /\ Raw(r).req = r
  BY DEF Raw, RequestText

\* A client sends when there is no other request.
LEMMA ClientsFollow ==
  ASSUME Timing, BookInv, PlaceInv, BankTimer \/ BankReceive, OneRequest'
  PROVE  Sound
  <1>1. ChainInv /\ OrderInv
    BY DEF BookInv, WayInv, OrderInv
  <1>2. UNCHANGED <<tcp, args, thr>>
    BY <1>1, ClientsElsewhere DEF serverVars
  <1>3. CASE udp' = udp
    BY <1>1, <1>2, <1>3, QuietFollow
  <1>4. CASE udp' # udp
    <2>1. PICK v \in Server :
             /\ v = SearchServer(Current) /\ up[v]
             /\ udp' = [udp EXCEPT ![v] = Append(@, Raw(Current))]
      BY <1>4 DEF BankTimer, BankReceive, OpenSocket, SendRequest, Resend, GiveUp,
                  RecvReply, RecvFail, RecvExtension, ToServer
    <2>2. Quiet
      BY <1>4 DEF BankTimer, BankReceive, OpenSocket, GiveUp, RecvReply, RecvFail,
                  RecvExtension, Timing
    <2>3. PICK r \in Request : r = Current
      BY <1>1, ClientTypes, ClientAssumption DEF Current
    <2>4. PICK m \in RequestText : m = Raw(r) /\ m.kind = "Raw" /\ m.req = r
      BY RawFields
    <2>5. udp'[v] = Append(<<>>, m)
      <3>1. udp[v] = <<>>
        BY <1>1, <2>2, QuietWay
      <3> QED BY <1>1, <2>1, <2>3, <2>4, <3>1, BookTypes
    <2>6. 1 \in DOMAIN udp'[v] /\ udp'[v][1] = m
      BY <2>5
    <2>7. "udp" \in Form /\ 1 \in Spot /\ Front(v, "udp", 1)'
      BY <2>4, <2>6 DEF Form, Spot, Front
    <2>8. r = What(v, "udp", 1)'
      BY <2>4, <2>6 DEF What, Parse
    <2>9. view # <<>>
      <3>1. PICK i \in DOMAIN view : view[i] = v
        BY <2>1 DEF PlaceInv, ViewOrdered
      <3>2. DOMAIN <<>> = {}
        OBVIOUS
      <3> QED BY <3>1, <3>2
    <2>10. Follows(v, r)
      BY <2>1, <2>3, <2>9 DEF Follows
    <2> QED BY <2>7, <2>8, <2>10, OnePlace
  <1> QED BY <1>3, <1>4

\* Main starts a thread for it.
LEMMA TakesFollow ==
  ASSUME ChainInv, NEW s \in Server, RecvRequest(s) \/ AcceptRequest(s), OneRequest'
  PROVE  Sound
  <1>1. PICK c \in {"udp", "tcp"} : IF c = "udp" THEN RecvRequest(s) ELSE AcceptRequest(s)
    OBVIOUS
  <1>2. Front(s, c, 1) /\ 1 \in Spot /\ c \in Form /\ "thr" \in Form /\ ThreadId \subseteq Spot
    BY <1>1, TakesFront DEF RecvRequest
  <1>3. Spawn(s, c) /\ c \in Chan
    BY <1>1 DEF RecvRequest, AcceptRequest, Chan
  <1>4. args'[s][c].req = What(s, c, 1)
    <2>1. CASE c = "udp"
      <3>1. Head(udp[s]) = udp[s][1]
        BY <1>1, <2>1, BookTypes, TailElements DEF RecvRequest, RequestWaiting, Datagram
      <3> QED BY <1>1, <2>1, <3>1, BookTypes DEF RecvRequest, What, Chan
    <2>2. CASE c = "tcp"
      <3>1. Head(tcp[s]) = tcp[s][1]
        BY <1>1, <2>2, BookTypes, TailElements DEF AcceptRequest, Accepts
      <3> QED BY <1>1, <2>2, <3>1, BookTypes DEF AcceptRequest, What, Chan
    <2> QED BY <2>1, <2>2
  <1>5. PICK t \in ThreadId :
           /\ thr'[s][t].pc = IF isTail(s) THEN "start" ELSE "connect"
           /\ thr'[s][t].chan = c
    BY <1>3, SpawnThread
  <1>6. PICK r : r = What(s, c, 1)
    OBVIOUS
  <1>7. Front(s, "thr", t)'
    BY <1>5 DEF Front, Carries
  <1>8. r = What(s, "thr", t)'
    BY <1>4, <1>5, <1>6 DEF What, Args
  <1>9. Follows(s, r)
    BY <1>2, <1>6 DEF Follows, Acknowledged
  <1> QED BY <1>2, <1>7, <1>8, <1>9, OnePlace

\* Main passes on what it takes for a request to keep as sent, and keeps it.
LEMMA ForwardsFollow ==
  ASSUME ChainInv, Downward, NEW s \in Server, AcceptSyncSent(s), ~isTail(s),
         Head(tcp[s]).msg.kind \notin {"SyncSent", "SyncProc"}, OneRequest'
  PROVE  Sound
  <1>1. tcp \in [Server -> Seq(Packet)] /\ tcp[s] # <<>> /\ up[s]
    BY BookTypes DEF AcceptSyncSent, Accepts, Listening
  <1>2. PICK n \in Server : n = next[s] /\ n # s
    BY <1>1, NextOther DEF AcceptSyncSent
  <1>3. PICK i \in Nat : i = Len(tcp[n]) + 1
    BY <1>1
  <1>4. PICK m \in Text : m = Head(tcp[s]).msg
    BY <1>1, HeadPacketType, BankInvNow DEF ChainInv, AcceptSyncSent, Accepts
  <1>5. PICK r \in Request : r = Parse(m)
    BY ParseType
  <1>6. i \in DOMAIN tcp'[n] /\ tcp'[n][i].msg = m
    <2>1. PICK p : p = [msg |-> m, conn |-> NoConn]
      OBVIOUS
    <2>2. tcp'[n] = Append(tcp[n], p)
      BY <1>1, <1>2, <1>4, <2>1 DEF AcceptSyncSent
    <2>3. i \in DOMAIN tcp'[n] /\ tcp'[n][i] = p
      BY <1>1, <1>3, <2>2
    <2> QED BY <2>1, <2>3
  <1>7. "tcp" \in Form /\ i \in Spot /\ 1 \in Spot
    BY DEF Form, Spot
  <1>8. Front(n, "tcp", i)' /\ r = What(n, "tcp", i)'
    BY <1>4, <1>5, <1>6 DEF Front, What
  <1>9. Front(s, "tcp", 1) /\ ~Acknowledged(s, "tcp", 1) /\ r = What(s, "tcp", 1)
    <2>1. Head(tcp[s]) = tcp[s][1] /\ 1 \in DOMAIN tcp[s]
      BY <1>1, TailElements
    <2> QED BY <1>4, <1>5, <2>1 DEF Front, Acknowledged, What
  <1>10. ASSUME r.type # "Query"
         PROVE  Holds(s, r.id)'
    <2>1. sent'[s] = AddsentTrans(r, sent[s])
      BY <1>4, <1>5, BookTypes DEF AcceptSyncSent
    <2>2. r \in sent'[s]
      BY <1>10, <2>1 DEF AddsentTrans
    <2> QED BY <2>2 DEF Holds, IdsOf
  <1>11. Follows(n, r)
    BY <1>1, <1>2, <1>7, <1>9, <1>10 DEF Follows
  <1> QED BY <1>7, <1>8, <1>11, OnePlace

\* A Sync thread connects to the next server with it, and will keep it.
LEMMA ConnectFollow ==
  ASSUME WayInv, Steady, NEW s \in Server, NEW t \in ThreadId, Runs(s, t),
         SyncConnect(s, t), NextUp(s)
  PROVE  Sound
  <1>1. ChainInv /\ Downward
    BY DEF WayInv, OrderInv
  <1>2. PICK n \in Server : n = next[s]
    BY DEF NextUp
  <1>3. PICK i \in Nat : i = Len(tcp[n]) + 1
    BY <1>1, BookTypes
  <1>4. /\ thr[s][t].pc = "connect" /\ thr[s][t].ack = "none"
        /\ thr'[s][t].pc = "add" /\ thr'[s][t].chan = thr[s][t].chan
        /\ tcp'[n][i].msg = buf[s]
        /\ \A u \in Server, j \in Form, a \in Spot :
              Front(u, j, a)' => u = n /\ j = "tcp" /\ a = i
    BY <1>2, <1>3, ConnectFronts
  <1>5. up[s] /\ args' = args
    BY RunsUp
  <1>6. PICK r \in Request : r = Args(s, t).req
    BY <1>1, <1>5, BackOther
  <1>7. r = What(n, "tcp", i)'
    BY <1>4, <1>6 DEF Steady, What
  <1>8. Front(s, "thr", t) /\ ~Acknowledged(s, "thr", t) /\ r = What(s, "thr", t)
    BY <1>4, <1>6 DEF Front, Carries, Acknowledged, What
  <1>9. ASSUME r.type # "Query"
        PROVE  Holds(s, r.id)'
    <2>1. r = Args(s, t).req'
      BY <1>4, <1>5, <1>6 DEF Args
    <2>2. Will(s, t)' /\ Args(s, t).req.id' = r.id
      BY <1>4, <1>9, <2>1 DEF Will
    <2> QED BY <2>2 DEF Holds
  <1>10. Follows(n, r)
    <2>1. "thr" \in Form /\ t \in Spot
      BY DEF Form, Spot
    <2> QED BY <1>2, <1>5, <1>8, <1>9, <2>1 DEF Follows
  <1> QED BY <1>4, <1>7, <1>10 DEF Sound

\* What is acknowledged is not on its way to the tail.
LEMMA AckFollow ==
  ASSUME WayInv, NEW s \in Server, NEW t \in ThreadId, Runs(s, t),
         SyncAcked(s, t) \/ ReplyAck(s, t)
  PROVE  Sound
  <1>1. ChainInv /\ Downward /\ up[s]
    BY RunsUp DEF WayInv, OrderInv
  <1>2. PICK C \in SUBSET Conn : Await(C)
    BY DEF WayInv, Awaited
  <1>3. PICK c \in Conn : c = Args(s, t).conn
    BY <1>1, BackOther
  <1>4. \A u \in Server, j \in Form, a \in Spot :
           Front(u, j, a)' => j = "thr" /\ thr'[u][a].ack = "acked"
    BY <1>2, <1>3, AckFronts
  <1> QED BY <1>4 DEF Sound, Acknowledged

\* Every step.
LEMMA FollowsNext ==
  ASSUME Timing, BookInv, BookInv', PlaceInv, Steady, [Next]_vars
  PROVE  Sound
  <1>1. /\ PromptThreads /\ WayInv /\ OrderInv /\ ChainInv /\ ChainInv'
        /\ Downward /\ OneRequest'
    BY DEF BookInv, WayInv, OrderInv
  <1>2. ASSUME NEW s \in Server, BankStart(s)
        PROVE  Sound
    BY <1>2 DEF BankStart, PlaceInv, NoJoins
  <1>3. ASSUME NEW s \in Server, Dies(s)
        PROVE  Sound
    BY <1>1, <1>3, DiesKeeps, ReadsFollow
  <1>4. ASSUME NEW s \in Server, Works(s)
        PROVE  Sound
    <2>1. CASE RecvRequest(s) \/ AcceptRequest(s)
      BY <1>1, <2>1, TakesFollow
    <2>2. CASE /\ AcceptSyncSent(s) /\ ~isTail(s)
               /\ Head(tcp[s]).msg.kind \notin {"SyncSent", "SyncProc"}
      BY <1>1, <2>2, ForwardsFollow
    <2>3. ASSUME ~RecvRequest(s), ~AcceptRequest(s),
                 AcceptSyncSent(s) =>
                    isTail(s) \/ Head(tcp[s]).msg.kind \in {"SyncSent", "SyncProc"}
          PROVE  Sound
      <3>1. thr' = thr /\ args' = args
        BY <1>1, <1>4, <2>3, WorksReads
      <3>2. PICK k : Reads(s, k)
        BY <1>1, <1>4, <2>3, WorksReads
      <3>3. \A u \in Server, w \in ThreadId : Keeps(u, w)
        BY <3>1 DEF Keeps, Carries, Args
      <3> QED BY <1>1, <3>2, <3>3, ReadsFollow
    <2> QED BY <2>1, <2>2, <2>3
  <1>5. ASSUME NEW s \in Server, NEW t \in ThreadId, Runs(s, t)
        PROVE  Sound
    <2>1. CASE SyncAcked(s, t) \/ ReplyAck(s, t)
      BY <1>1, <1>5, <2>1, AckFollow
    <2>2. CASE SyncConnect(s, t) /\ NextUp(s)
      BY <1>1, <1>5, <2>2, ConnectFollow
    <2>3. CASE ~SyncAcked(s, t) /\ ~ReplyAck(s, t) /\ (SyncConnect(s, t) => ~NextUp(s))
      BY <1>1, <1>5, <2>3, RunsKeeps, ReadsFollow
    <2> QED BY <2>1, <2>2, <2>3
  <1>6. CASE BankTimer \/ BankReceive
    BY <1>1, <1>6, ClientsFollow
  <1>7. CASE BankMaster
    <2>1. UNCHANGED <<tcp, args, thr>>
      BY <1>1, <1>7, MasterElsewhere DEF serverVars
    <2>2. \A u \in Server : \/ udp'[u] = udp[u]
                            \/ \E m : NoRequest(m) /\ udp'[u] = Append(udp[u], m)
      BY <1>1, <1>7, MasterWrites
    <2> QED BY <1>1, <2>1, <2>2, QuietFollow
  <1>8. CASE UNCHANGED vars
    BY <1>1, <1>8, QuietFollow DEF vars, wireVars, serverVars
  <1> QED BY <1>1, <1>2, <1>3, <1>4, <1>5, <1>6, <1>7, <1>8, StepKinds

LEMMA CarriedNext ==
  ASSUME KeptTiming, BookInv, BookInv', PlaceInv, Steady, Carried, [Next]_vars
  PROVE  Carried'
  <1>1. Timing /\ ChainInv
    BY DEF KeptTiming, BookInv, WayInv, OrderInv
  <1>2. Sound
    BY <1>1, FollowsNext
  <1>3. Shrinks
    BY <1>1, ShrinksNext DEF PlaceInv
  <1> SUFFICES ASSUME NEW s \in Server, NEW k \in Form, NEW a \in Spot,
                      Front(s, k, a)', ~Acknowledged(s, k, a)'
               PROVE  Passed(s, What(s, k, a))'
    BY DEF Carried
  <1>4. PICK r : r = What(s, k, a)' /\ Follows(s, r)
    BY <1>2 DEF Sound
  <1>5. Passed(s, r)'
    BY <1>3, <1>4, FollowsPassed
  <1> QED BY <1>4, <1>5 DEF Passed, Holds

-----------------------------------------------------------------------------
(* What is answered.                                                       *)

\* A reply is on its way when all servers have the request of it.
LEMMA RepliesPassed ==
  ASSUME BookInv, PlaceInv, Steady, Carried, NEW s \in Server, NEW t \in ThreadId,
         Runs(s, t), ReplySend(s, t), [Next]_vars, PromptThreads,
         NEW i \in UpdateIds, i = thr[s][t].req.id, NEW u \in Server, up[u], up'[u]
  PROVE  Holds(u, i)'
  <1>1. ChainInv /\ Downward /\ Shaped(thr[s][t])
    BY DEF BookInv, WayInv, OrderInv, Shape
  <1>2. up[s] /\ args' = args
    BY RunsUp
  <1>3. /\ thr[s][t].pc = "send" /\ thr[s][t].role = "Reply" /\ thr[s][t].ack = "none"
        /\ Moved(s, t, "send", "hist")
    <2>1. thr[s][t].pc = "send"
      BY DEF ReplySend, At
    <2> QED BY <1>1, <2>1, RunsThread DEF Shaped
  <1>4. PICK r \in Request : r = Args(s, t).req /\ r = thr[s][t].req
    <2>1. Prepared(s, t)
      BY DEF BookInv, BooksInv, BooksOf
    <2> QED BY <1>1, <1>2, <1>3, <2>1, BackOther DEF Prepared, Processes
  <1>5. Passed(s, r)
    <2>1. Front(s, "thr", t) /\ ~Acknowledged(s, "thr", t) /\ r = What(s, "thr", t)
      BY <1>3, <1>4 DEF Front, Carries, Acknowledged, What
    <2>2. "thr" \in Form /\ t \in Spot
      BY DEF Form, Spot
    <2> QED BY <2>1, <2>2 DEF Carried
  <1>6. r.type # "Query"
    BY <1>4, <1>5 DEF Passed
  <1>7. CASE u = s
    <2>1. r = Args(s, t).req'
      BY <1>2, <1>3, <1>4 DEF Args, Moved
    <2>2. Will(s, t)' /\ Args(s, t).req.id' = i
      BY <1>3, <1>4, <1>6, <2>1 DEF Will, Moved
    <2> QED BY <1>7, <2>2 DEF Holds
  <1>8. CASE u # s
    <2>1. next[s] \notin Server
      BY <1>3, WireAssumption DEF Steady
    <2>2. ~Precedes(s, u)
      BY <1>2, <2>1 DEF PlaceInv, NextNearest, Nearest
    <2>3. Precedes(u, s)
      BY <1>1, <1>2, <1>8, <2>2, ChainTotal DEF PlaceInv, NoJoins
    <2>4. Holds(u, i)
      BY <1>4, <1>5, <1>6, <2>3 DEF Passed
    <2> QED BY <2>4, HoldsKept
  <1> QED BY <1>7, <1>8

\* What a client takes for an answer was in its inbox.
LEMMA AcceptedFrom ==
  ASSUME PromptThreads, ChainInv, [Next]_vars, NEW p \in DOMAIN Script, accepted'[p] # NoReply
  PROVE  \/ accepted'[p] = accepted[p]
         \/ \E m \in Elements(inbox) : m.kind = "Reply" /\ accepted'[p] = m
  <1>1. CASE accepted' = accepted
    BY <1>1
  <1>2. CASE RecvReply
    <2>1. inbox # <<>> /\ Head(inbox).kind = "Reply"
          /\ accepted' = [accepted EXCEPT ![pos] = Head(inbox)]
      BY <1>2 DEF RecvReply, Arrived
    <2>2. Head(inbox) \in Elements(inbox)
      BY <2>1, ClientTypes, TailElements
    <2> QED BY <2>1, <2>2, ClientTypes
  <1>3. accepted' = accepted \/ RecvReply
    <2>1. CASE \E s \in Server : BankStart(s) \/ Dies(s) \/ Works(s)
      BY <2>1 DEF BankStart, Dies, Works, clientVars
    <2>2. CASE \E s \in Server, t \in ThreadId : Runs(s, t)
      BY <2>2 DEF Runs, clientVars
    <2>3. CASE BankTimer \/ BankReceive
      BY <2>3 DEF BankTimer, OpenSocket, SendRequest, Resend, GiveUp, BankReceive, RecvFail,
           RecvExtension
    <2>4. CASE BankMaster \/ UNCHANGED vars
      BY <2>4 DEF BankMaster, vars, clientVars
    <2> QED BY <2>1, <2>2, <2>3, <2>4, StepKinds
  <1> QED BY <1>1, <1>2, <1>3

LEMMA EverywhereNext ==
  ASSUME KeptTiming, BookInv, PlaceInv, Steady, Carried, Everywhere, [Next]_vars
  PROVE  Everywhere'
  <1>1. PromptThreads /\ ChainInv
    BY DEF KeptTiming, Timing, BookInv, WayInv, OrderInv
  <1>2. Shrinks
    BY <1>1, ShrinksNext DEF PlaceInv
  <1> SUFFICES ASSUME NEW i \in UpdateIds, Replied(i)', NEW u \in Server, up'[u]
               PROVE  Holds(u, i)'
    BY DEF Everywhere
  <1>3. up[u]
    BY <1>2 DEF Shrinks
  <1>4. CASE Replied(i)
    BY <1>1, <1>3, <1>4, HoldsKept DEF Everywhere
  <1>5. ASSUME NEW m \in Elements(inbox'), m.kind = "Reply", m.id = i, ~Replied(i)
        PROVE  Holds(u, i)'
    <2>1. m \notin Elements(inbox)
      BY <1>5 DEF Replied
    <2>2. PICK s \in Server, t \in ThreadId :
                  Runs(s, t) /\ ReplySend(s, t) /\ m.id = thr[s][t].req.id
      BY <1>1, <1>5, <2>1, InboxFrom DEF PlaceInv
    <2> QED BY <1>1, <1>3, <1>5, <2>2, RepliesPassed
  <1>6. ASSUME NEW p \in DOMAIN Script, accepted'[p] # NoReply, accepted'[p].id = i
        PROVE  Replied(i)
    BY <1>1, <1>6, AcceptedFrom DEF Replied
  <1> QED BY <1>4, <1>5, <1>6 DEF Replied

-----------------------------------------------------------------------------
(* The theorem.                                                            *)

\* At the beginning the chain is the one of the file, and has all servers.
LEMMA PlaceInit == Timing /\ NoneDelayed /\ Init => PlaceInv
  <1> SUFFICES ASSUME Timing, NoneDelayed, Init
               PROVE  PlaceInv
    OBVIOUS
  <1>1. DelayedLast /\ PromptMaster /\ NoneDelayed
    BY DEF Timing
  <1>2. ChainInv /\ chain \in Seq(Server) /\ Distinct(chain)
    BY <1>1, LinkInit, BookTypes DEF LinkInv
  <1>3. /\ chain = Configured /\ view = Configured /\ notices = {} /\ asleep = Spare
        /\ inbox = <<>> /\ udp = [s \in Server |-> <<>>]
    BY DEF Init, MasterInit, ClientInit
  <1>4. Elements(<<>>) = {}
    BY DEF Elements
  <1>5. Spare = {}
    BY <1>1, BankAssumption DEF NoneDelayed
  <1>6. \A s \in Server : InChain(s)
    BY <1>1, <1>3 DEF NoneDelayed, InChain
  <1>7. NoJoins
    BY <1>3, <1>5, <1>6 DEF NoJoins
  <1>8. ASSUME NEW s \in Server, up[s]
        PROVE  Nearest(s, next[s])
    <2>1. PICK i \in DOMAIN chain : chain[i] = s
      BY <1>6 DEF InChain
    <2>2. next[s] = Following(i)
      BY <1>1, <1>8, <2>1, StartsLinked
    <2> QED BY <1>2, <2>1, <2>2, NearestFollowing
  <1>9. NextNearest
    BY <1>3, <1>4, <1>8 DEF NextNearest
  <1>10. ASSUME NEW i \in DOMAIN chain, NEW j \in DOMAIN chain, i < j
         PROVE  ~Precedes(chain[j], chain[i])
    <2>1. ASSUME NEW a \in DOMAIN chain, NEW b \in DOMAIN chain, a < b,
                 chain[a] = chain[j], chain[b] = chain[i]
          PROVE  FALSE
      <3>1. a = j /\ b = i
        BY <1>2, <2>1 DEF Distinct
      <3>2. i \in Nat /\ j \in Nat
        BY <1>2
      <3> QED BY <1>10, <2>1, <3>1, <3>2
    <2> QED BY <2>1 DEF Precedes
  <1>11. ViewOrdered
    BY <1>3, <1>6, <1>10 DEF ViewOrdered, InChain
  <1>12. FailsTrue
    BY <1>3, <1>4 DEF FailsTrue
  <1> QED BY <1>7, <1>9, <1>11, <1>12 DEF PlaceInv

LEMMA KeptInit == KeptTiming /\ Init => KeptInv
  <1> SUFFICES ASSUME KeptTiming, Init
               PROVE  KeptInv
    OBVIOUS
  <1>1. BookInv /\ PlaceInv
    BY BookInit, PlaceInit DEF KeptTiming
  <1>2. /\ \A s \in Server : udp[s] = <<>> /\ tcp[s] = <<>>
        /\ \A s \in Server, t \in ThreadId : thr[s][t] = Idle
    BY DEF Init, ServerInit
  <1>3. Steady
    BY <1>2, IdleFields DEF Steady
  <1>4. DOMAIN <<>> = {} /\ Elements(<<>>) = {}
    BY DEF Elements
  <1>5. \A s \in Server, t \in ThreadId : ~Carries(s, t)
    BY <1>2, IdleFields DEF Carries
  <1>6. Carried
    BY <1>2, <1>4, <1>5 DEF Carried, Front
  <1>7. inbox = <<>> /\ \A p \in DOMAIN Script : accepted[p] = NoReply
    BY DEF Init, ClientInit
  <1>8. Everywhere
    BY <1>4, <1>7 DEF Everywhere, Replied
  <1> QED BY <1>1, <1>3, <1>6, <1>8 DEF KeptInv

LEMMA KeptNext == KeptTiming /\ KeptInv /\ [Next]_vars => KeptInv'
  <1> SUFFICES ASSUME KeptTiming, KeptInv, [Next]_vars
               PROVE  KeptInv'
    OBVIOUS
  <1>1. BookInv /\ PlaceInv /\ Steady /\ Carried /\ Everywhere
    BY DEF KeptInv
  <1>2. BookInv'
    BY <1>1, BookNext DEF KeptTiming
  <1>3. PlaceInv' /\ Steady'
    BY <1>1, <1>2, PlaceNext, SteadyNext DEF KeptTiming, Timing
  <1>4. Carried' /\ Everywhere'
    BY <1>1, <1>2, CarriedNext, EverywhereNext
  <1> QED BY <1>2, <1>3, <1>4 DEF KeptInv

\* In a settled chain no thread has anything left to do.
LEMMA KeptImplies == KeptInv => Kept
  <1> SUFFICES ASSUME KeptInv, Settled, NEW s \in Server, Member(s),
                      NEW i \in AnsweredUpdates
               PROVE  i \in IdsOf(sent[s] \cup proc[s])
    BY DEF Kept
  <1>1. PICK q \in DOMAIN Script :
           Answered(q) /\ IsUpdate(Script[q]) /\ accepted[q].id = i /\ i = Script[q].id
    BY DEF AnsweredUpdates
  <1>2. i \in UpdateIds /\ Replied(i)
    BY <1>1 DEF UpdateIds, Replied, Answered
  <1>3. up[s] /\ Holds(s, i)
    BY <1>2 DEF KeptInv, Everywhere, Member
  <1>4. ~Busy(s)
    BY <1>3 DEF Settled, Quiet
  <1>5. \A t \in ThreadId : ~Will(s, t)
    BY <1>3, <1>4 DEF Busy, Runnable, Will
  <1> QED BY <1>3, <1>5 DEF Holds

\* An update the client has seen answered is among the sent or the processed
\* transactions of every server left once the chain has settled, for any number of
\* servers, clients, threads and requests, whichever servers are killed at any
\* moment, and whatever is lost or sent again (Sync, AddsentTrans, Reply, AckHist).
\* The timing keeps it to one request at a time, which is what the proof rests on.
\* The other hypotheses are needed, TLC finds counterexamples without them: a server
\* that joins while another fails can miss what is only in sentTrans, as the
\* synchronization of an Extension passes on procTrans alone; and as clients do not
\* compare identifiers with the request they wait for, the late reply to a query
\* that has the identifier of an update counts as the answer to the update.
THEOREM AnsweredKept ==
  ASSUME KeptTiming
  PROVE  Spec => []Kept
  <1>1. Init => KeptInv
    BY KeptInit
  <1>2. KeptInv /\ [Next]_vars => KeptInv'
    BY KeptNext
  <1> QED BY <1>1, <1>2, KeptImplies, PTL DEF Spec
=============================================================================
