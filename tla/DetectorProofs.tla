--------------------------- MODULE DetectorProofs ---------------------------
(***************************************************************************)
(* Pings, time sheet and probing implement the membership of the chain,    *)
(* for any number of servers and any configuration, as long as the timing  *)
(* is what the program counts on: pings at most five seconds apart, and a  *)
(* handle_ping thread that is through before the next ping is received.    *)
(* The last part bounds how long it takes to find a failed server.         *)
(***************************************************************************)
EXTENDS Detector, SequenceFacts, TLAPS

Timely == PromptMaster /\ Delays \subseteq 1..Period

(***************************************************************************)
(* What the thread of a ping and the probing thread hold is a server.      *)
(***************************************************************************)
Held ==
    /\ \A t \in ThreadId : thr[t].pc = "read" => buf \in Server
    /\ \A t \in ThreadId :
          thr[t].pc \in {"update", "exists", "add"} => thr[t].srv \in Server
    /\ probe.pc # "sleep" => probe.it \in Server

\* A ping of s that has not reached the time sheet.
Unread(s) ==
    \/ \E i \in DOMAIN queue : queue[i] = s
    \/ \E t \in ThreadId : \/ thr[t].pc = "read" /\ buf = s
                           \/ thr[t].pc = "update" /\ thr[t].srv = s

\* The master has heard of servers that have started only.
Born ==
    \A s \in Server : status[s] = "asleep" =>
        since[s] = 0 /\ sheet[s] = NoEntry /\ ~Pending(s) /\ ~Server_exists(s)

\* A server that has not failed is on time, and so is its entry, which is no
\* older than the last ping unless that has not been read.
OnTime ==
    \A s \in Server : status[s] # "dead" =>
        /\ since[s] <= Period /\ sheet[s] <= Period
        /\ ~Unread(s) => sheet[s] <= since[s]

\* The entry of a server with a ping on its way is young, for its last ping was
\* on time and no second passes meanwhile.
Young == \A s \in Server : Pending(s) => sheet[s] <= Period

\* The server that probing declares failed is dead, and its entry old.
Overdue ==
    probe.pc \in {"notify", "erase"} =>
        status[probe.it] = "dead" /\ sheet[probe.it] > Period

\* There is one thread at a time, and the server it adds is not in the chain.
OneThread ==
    /\ \A t, u \in ThreadId : thr[t].pc # "idle" /\ thr[u].pc # "idle" => t = u
    /\ \A t \in ThreadId : thr[t].pc = "add" => ~Server_exists(thr[t].srv)

TypeInv == TypeOK /\ Held

DetectorInv ==
    TypeInv /\ Born /\ OnTime /\ Young /\ Overdue /\ OneThread /\ JoinsOnce

-----------------------------------------------------------------------------
(* The operators of Detector.                                              *)

\* The iterator of probing goes to an entry or to the end (probing).
LEMMA AfterType ==
  ASSUME NEW s
  PROVE  After(s) \in Server \cup {End}
  <1> DEFINE later == {u \in Entries : u > s}
  <1>1. CASE later = {}
    BY <1>1 DEF After
  <1>2. CASE later # {}
    <2>1. later \in SUBSET Nat
      BY DetectorAssumption DEF Entries
    <2>2. PICK u \in later : \A v \in later : u <= v
      BY <1>2, <2>1, LeastNumber
    <2>3. After(s) \in later
      BY <1>2, <2>2 DEF After
    <2> QED BY <2>3 DEF Entries
  <1> QED BY <1>1, <1>2

\* Where the loop of probing goes on.
LEMMA GotoType ==
  ASSUME NEW s \in Server \cup {End}
  PROVE  /\ Goto(s) \in [pc : {"sleep", "check", "notify", "erase"},
                         it : Server \cup {End}, wake : 0..Period]
         /\ Goto(s).pc \in {"sleep", "check"}
         /\ Goto(s).pc # "sleep" => Goto(s).it \in Server
  BY DEF Goto, Asleep, Period, End

\* The chain without a server that is in it (Search_Prev_Server).
LEMMA RemovedDrop ==
  ASSUME NEW s, chain \in Seq(Server), Server_exists(s)
  PROVE  \E i \in DOMAIN chain : chain[i] = s /\ Removed(s) = Drop(chain, i)
  <1>1. \E k \in DOMAIN chain : chain[k] = s /\ \A j \in 1..(k - 1) : chain[j] # s
    BY FirstIndex DEF Server_exists
  <1> DEFINE i == CHOOSE j \in DOMAIN chain :
                     chain[j] = s /\ \A k \in 1..(j - 1) : chain[k] # s
  <1>2. i \in DOMAIN chain /\ chain[i] = s
    BY <1>1
  <1>3. Removed(s) = Drop(chain, i)
    BY DEF Removed, Drop
  <1> QED BY <1>2, <1>3

\* Removing a server of a chain without repetitions removes it.
LEMMA RemovedGone ==
  ASSUME NEW s, chain \in Seq(Server), Server_exists(s), JoinsOnce
  PROVE  /\ Removed(s) \in Seq(Server) /\ Distinct(Removed(s))
         /\ Elements(Removed(s)) = Elements(chain) \ {s}
  <1>1. PICK i \in DOMAIN chain : chain[i] = s /\ Removed(s) = Drop(chain, i)
    BY RemovedDrop
  <1>2. Distinct(chain)
    BY DEF JoinsOnce, Distinct
  <1> QED BY <1>1, <1>2, DropIndex, DropDistinct

-----------------------------------------------------------------------------
(* Type correctness, whatever the timing.                                  *)

LEMMA TypeInit == Init => TypeInv
  BY DetectorAssumption
  DEF Init, TypeInv, TypeOK, Held, Idle, Asleep, Period, NoEntry, End

\* A server starts, fails or sends a ping (main of the server, Ping).
LEMMA ServerType ==
  ASSUME TypeInv, NEW s \in Server, Start(s) \/ Crash(s) \/ Ping(s)
  PROVE  TypeInv'
  <1>1. CASE Start(s)
    BY <1>1 DEF TypeInv, TypeOK, Held, Start
  <1>2. CASE Crash(s)
    BY <1>2 DEF TypeInv, TypeOK, Held, Crash
  <1>3. CASE Ping(s)
    <2>1. queue' \in Seq(Server) /\ since' \in [Server -> Nat]
      BY <1>3 DEF TypeInv, TypeOK, Ping
    <2> QED BY <1>3, <2>1 DEF TypeInv, TypeOK, Held, Ping
  <1> QED BY <1>1, <1>2, <1>3

\* A ping is received and handled (main of the master, handle_ping).
LEMMA HandlePingType ==
  ASSUME TypeInv, NEW t \in ThreadId, HandlePing(t)
  PROVE  TypeInv'
  <1>1. CASE Receive(t)
    <2>1. Head(queue) \in Server /\ Tail(queue) \in Seq(Server)
      BY <1>1, HeadTailProperties DEF Receive, TypeInv, TypeOK
    <2> QED BY <1>1, <2>1 DEF Receive, TypeInv, TypeOK, Held
  <1>2. CASE ReadBuffer(t)
    BY <1>2 DEF ReadBuffer, TypeInv, TypeOK, Held
  <1>3. CASE UpdateTimeSheet(t)
    <2>1. sheet' \in [Server -> {NoEntry} \cup 0..MaxAge]
      <3>1. 0 \in 0..MaxAge
        BY DetectorAssumption
      <3>2. sheet' = [sheet EXCEPT ![thr[t].srv] = 0]
        BY <1>3 DEF UpdateTimeSheet
      <3> QED BY <3>1, <3>2 DEF TypeInv, TypeOK
    <2>2. /\ thr' \in [ThreadId -> [pc : {"idle", "read", "update", "exists", "add"},
                                    srv : Server \cup {End}]]
          /\ Held'
      BY <1>3 DEF UpdateTimeSheet, TypeInv, TypeOK, Held
    <2> QED BY <1>3, <2>1, <2>2 DEF UpdateTimeSheet, TypeInv, TypeOK
  <1>4. CASE CheckExists(t)
    BY <1>4 DEF CheckExists, TypeInv, TypeOK, Held, Idle
  <1>5. CASE AddServer(t)
    BY <1>5 DEF AddServer, TypeInv, TypeOK, Held, Idle
  <1> QED BY <1>1, <1>2, <1>3, <1>4, <1>5 DEF HandlePing

\* probing wakes up, looks at an entry, and takes a server out of the chain and
\* of time_sheet (probing, server_notify).
LEMMA ProbingType ==
  ASSUME TypeInv, Probing
  PROVE  TypeInv'
  <1>1. End \in Server \cup {End}
    OBVIOUS
  <1>2. CASE ProbeBegin
    <2>1. After(End) \in Server \cup {End}
      BY AfterType
    <2> QED BY <1>2, <2>1, GotoType DEF ProbeBegin, TypeInv, TypeOK, Held
  <1>3. CASE ProbeCheck
    <2>1. After(probe.it) \in Server \cup {End}
      BY AfterType
    <2> QED BY <1>3, <2>1, GotoType DEF ProbeCheck, TypeInv, TypeOK, Held
  <1>4. CASE ProbeNotify
    <2>1. chain' \in Seq(Server)
      <3>1. CASE Server_exists(probe.it)
        BY <1>4, <3>1, RemovedDrop, DropIndex DEF ProbeNotify, TypeInv, TypeOK
      <3> QED BY <1>4, <3>1 DEF ProbeNotify, TypeInv, TypeOK
    <2> QED BY <1>4, <2>1 DEF ProbeNotify, TypeInv, TypeOK, Held
  <1>5. CASE ProbeErase
    <2> DEFINE it == After(probe.it)
    <2>1. it \in Server \cup {End} /\ After(it) \in Server \cup {End}
      BY AfterType
    <2>2. probe' = IF it = End THEN Asleep ELSE Goto(After(it))
      BY <1>5 DEF ProbeErase
    <2>3. /\ probe' \in [pc : {"sleep", "check", "notify", "erase"},
                         it : Server \cup {End}, wake : 0..Period]
          /\ probe'.pc # "sleep" => probe'.it \in Server
      BY <2>1, <2>2, GotoType DEF Asleep, Period
    <2> QED BY <1>5, <2>3 DEF ProbeErase, TypeInv, TypeOK, Held
  <1> QED BY <1>2, <1>3, <1>4, <1>5 DEF Probing

\* A second passes.
LEMMA TickType ==
  ASSUME TypeInv, Tick
  PROVE  TypeInv'
  <1>1. sheet' \in [Server -> {NoEntry} \cup 0..MaxAge]
    <2>1. ASSUME NEW s \in Server
          PROVE  sheet'[s] \in {NoEntry} \cup 0..MaxAge
      <3>1. sheet'[s] = IF sheet[s] \in {NoEntry, MaxAge} THEN sheet[s] ELSE sheet[s] + 1
        BY DEF Tick
      <3>2. sheet[s] \in {NoEntry} \cup 0..MaxAge /\ MaxAge \in Nat
        BY DetectorAssumption DEF TypeInv, TypeOK
      <3>3. CASE sheet[s] \in {NoEntry, MaxAge}
        BY <3>1, <3>2, <3>3
      <3>4. CASE sheet[s] \notin {NoEntry, MaxAge}
        <4>1. sheet[s] \in 0..MaxAge /\ sheet[s] # MaxAge
          BY <3>2, <3>4
        <4>2. sheet[s] + 1 \in 0..MaxAge
          BY <3>2, <4>1
        <4> QED BY <3>1, <3>4, <4>2
      <3> QED BY <3>3, <3>4
    <2>2. sheet' = [s \in Server |-> sheet'[s]]
      BY DEF Tick
    <2> QED BY <2>1, <2>2
  <1>2. since' \in [Server -> Nat]
    BY DEF TypeInv, TypeOK, Tick
  <1>3. /\ probe' \in [pc : {"sleep", "check", "notify", "erase"},
                       it : Server \cup {End}, wake : 0..Period]
        /\ probe'.pc = "sleep"
    <2>1. probe.wake - 1 \in 0..Period
      BY DEF Tick, TypeInv, TypeOK, Period
    <2> QED BY <2>1 DEF Tick, TypeInv, TypeOK
  <1> QED BY <1>1, <1>2, <1>3 DEF Tick, TypeInv, TypeOK, Held

LEMMA TypeNext ==
  ASSUME TypeInv, [Next]_vars
  PROVE  TypeInv'
  <1>1. CASE UNCHANGED vars
    BY <1>1 DEF vars, TypeInv, TypeOK, Held
  <1> QED BY <1>1, ServerType, HandlePingType, ProbingType, TickType
          DEF Next, Progress

\* Every variable of the detector keeps its type.
THEOREM TypeCorrect == Spec => []TypeOK
  <1>1. TypeInv => TypeOK
    BY DEF TypeInv
  <1>2. TypeInv /\ [Next]_vars => TypeInv'
    BY TypeNext
  <1> QED BY <1>1, <1>2, TypeInit, PTL DEF Spec

-----------------------------------------------------------------------------
(* Which pings are on their way, from step to step.                        *)

\* A ping sent is one more on its way (Ping).
LEMMA PingPending ==
  ASSUME TypeInv, NEW s \in Server, Ping(s), NEW u
  PROVE  /\ Pending(u)' <=> Pending(u) \/ u = s
         /\ Unread(u)' <=> Unread(u) \/ u = s
  <1>1. /\ queue' = Append(queue, s) /\ queue \in Seq(Server)
        /\ UNCHANGED <<buf, thr>>
    BY DEF Ping, TypeInv, TypeOK
  <1>2. (\E i \in DOMAIN queue' : queue'[i] = u)
           <=> (\E i \in DOMAIN queue : queue[i] = u) \/ u = s
    <2>1. /\ DOMAIN queue = 1..Len(queue) /\ Len(queue) \in Nat
          /\ DOMAIN queue' = 1..(Len(queue) + 1)
          /\ \A i \in 1..Len(queue) : queue'[i] = queue[i]
          /\ queue'[Len(queue) + 1] = s
      BY <1>1, AppendProperties
    <2> QED BY <2>1
  <1> QED BY <1>1, <1>2 DEF Pending, Unread

\* A ping received is on its way still: no thread is about to read the one
\* before it (main of the master).
LEMMA ReceivePending ==
  ASSUME TypeInv, PromptMaster, NEW t \in ThreadId, Receive(t), NEW u
  PROVE  (Pending(u)' <=> Pending(u)) /\ (Unread(u)' <=> Unread(u))
  <1>1. /\ queue' = Tail(queue) /\ queue \in Seq(Server) /\ queue # <<>>
        /\ buf' = Head(queue) /\ \A v \in ThreadId : thr[v].pc = "idle"
        /\ thr' = [thr EXCEPT ![t] = [pc |-> "read", srv |-> End]]
    BY DEF Receive, TypeInv, TypeOK
  <1>2. (\E i \in DOMAIN queue : queue[i] = u)
           <=> (\E i \in DOMAIN queue' : queue'[i] = u) \/ buf' = u
    <2>1. /\ DOMAIN queue = 1..Len(queue) /\ Len(queue) \in Nat \ {0}
          /\ DOMAIN queue' = 1..(Len(queue) - 1)
          /\ \A i \in 1..(Len(queue) - 1) : queue'[i] = queue[i + 1]
          /\ queue[1] = buf'
      BY <1>1, HeadTailProperties
    <2>2. ASSUME NEW i \in DOMAIN queue, queue[i] = u, i # 1
          PROVE  i - 1 \in DOMAIN queue' /\ queue'[i - 1] = u
      BY <2>1, <2>2
    <2>3. ASSUME NEW i \in DOMAIN queue', queue'[i] = u
          PROVE  i + 1 \in DOMAIN queue /\ queue[i + 1] = u
      BY <2>1, <2>3
    <2>4. 1 \in DOMAIN queue
      BY <2>1
    <2> QED BY <2>1, <2>2, <2>3, <2>4
  <1>3. /\ \A v \in ThreadId \ {t} : thr'[v].pc = "idle"
        /\ thr'[t].pc = "read"
    BY <1>1 DEF TypeInv, TypeOK
  <1> QED BY <1>1, <1>2, <1>3 DEF Pending, Unread

\* A thread that has read the buffer holds the ping (handle_ping).
LEMMA ReadPending ==
  ASSUME TypeInv, NEW t \in ThreadId, ReadBuffer(t), NEW u
  PROVE  (Pending(u)' <=> Pending(u)) /\ (Unread(u)' <=> Unread(u))
  <1>1. /\ UNCHANGED <<queue, buf>> /\ thr[t].pc = "read"
        /\ thr'[t].pc = "update" /\ thr'[t].srv = buf
        /\ \A v \in ThreadId \ {t} : thr'[v] = thr[v]
    BY DEF ReadBuffer, TypeInv, TypeOK
  <1> QED BY <1>1 DEF Pending, Unread

\* The time sheet is updated: the ping has been read (update_time_sheet).
LEMMA UpdatePending ==
  ASSUME TypeInv, NEW t \in ThreadId, UpdateTimeSheet(t), NEW u
  PROVE  /\ Pending(u)' <=> Pending(u)
         /\ Unread(u) => Unread(u)' \/ u = thr[t].srv
         /\ Pending(thr[t].srv)
  <1>1. /\ UNCHANGED <<queue, buf>> /\ thr[t].pc = "update"
        /\ thr'[t].pc = "exists" /\ thr'[t].srv = thr[t].srv
        /\ \A v \in ThreadId \ {t} : thr'[v] = thr[v]
    BY DEF UpdateTimeSheet, TypeInv, TypeOK
  <1> QED BY <1>1 DEF Pending, Unread

\* A thread ends, or goes on to add its server (handle_ping).
LEMMA CheckPending ==
  ASSUME TypeInv, NEW t \in ThreadId, CheckExists(t), NEW u
  PROVE  /\ Pending(u)' => Pending(u)
         /\ Pending(u) => Pending(u)' \/ Server_exists(u)
         /\ Unread(u)' <=> Unread(u)
         /\ Pending(thr[t].srv)
  <1>1. /\ UNCHANGED <<queue, buf>> /\ thr[t].pc = "exists"
        /\ \A v \in ThreadId \ {t} : thr'[v] = thr[v]
        /\ IF Server_exists(thr[t].srv) THEN thr'[t].pc = "idle"
           ELSE thr'[t].pc = "add" /\ thr'[t].srv = thr[t].srv
    BY DEF CheckExists, TypeInv, TypeOK, Idle
  <1> QED BY <1>1 DEF Pending, Unread

\* A thread that has added its server ends (handle_ping).
LEMMA AddPending ==
  ASSUME TypeInv, NEW t \in ThreadId, AddServer(t), NEW u
  PROVE  /\ Pending(u)' => Pending(u)
         /\ Pending(u) => Pending(u)' \/ u = thr[t].srv
         /\ Unread(u)' <=> Unread(u)
         /\ Pending(thr[t].srv)
  <1>1. /\ UNCHANGED <<queue, buf>> /\ thr[t].pc = "add"
        /\ thr'[t].pc = "idle"
        /\ \A v \in ThreadId \ {t} : thr'[v] = thr[v]
    BY DEF AddServer, TypeInv, TypeOK, Idle
  <1> QED BY <1>1 DEF Pending, Unread

\* Nothing else changes which pings are on their way.
LEMMA SamePending ==
  ASSUME UNCHANGED <<queue, buf, thr>>, NEW u
  PROVE  (Pending(u)' <=> Pending(u)) /\ (Unread(u)' <=> Unread(u))
  BY DEF Pending, Unread

\* What has reached the time sheet, or not yet, is on its way.
LEMMA UnreadPending ==
  ASSUME NEW u, Unread(u)
  PROVE  Pending(u)
  BY DEF Unread, Pending

\* Server_exists searches the elements of the chain.
LEMMA ExistsElements ==
  ASSUME NEW s
  PROVE  Server_exists(s) <=> s \in Elements(chain)
  BY DEF Server_exists, Elements

-----------------------------------------------------------------------------
(* The invariant, step by step. The types after the step are known.        *)

LEMMA DetectorInit == Init => DetectorInv
  <1> SUFFICES ASSUME Init
               PROVE  DetectorInv
    OBVIOUS
  <1>1. TypeInv
    BY TypeInit
  <1>2. /\ queue = <<>> /\ chain = Configured /\ probe.pc = "sleep"
        /\ \A t \in ThreadId : thr[t].pc = "idle"
        /\ \A s \in Server : since[s] = 0 /\ sheet[s] = NoEntry
        /\ \A s \in Server : status[s] = "asleep" <=>
              ~\E i \in DOMAIN Configured : Configured[i] = s
    BY DEF Init, Idle, Asleep
  <1>3. \A s \in Server : ~Pending(s)
    BY <1>2 DEF Pending
  <1>4. Born /\ Young
    BY <1>2, <1>3 DEF Born, Young, Server_exists
  <1>5. OnTime
    BY <1>2 DEF OnTime, Period, NoEntry
  <1>6. JoinsOnce
    BY <1>2, DetectorAssumption DEF JoinsOnce
  <1> QED BY <1>1, <1>2, <1>4, <1>5, <1>6 DEF DetectorInv, Overdue, OneThread

\* A server starts (main of the server).
LEMMA StartInv ==
  ASSUME DetectorInv, TypeInv', NEW s \in Server, Start(s)
  PROVE  DetectorInv'
  <1>1. /\ status[s] = "asleep" /\ status'[s] = "alive"
        /\ \A u \in Server \ {s} : status'[u] = status[u]
        /\ UNCHANGED <<since, queue, buf, thr, sheet, chain, probe>>
    BY DEF Start, DetectorInv, TypeInv, TypeOK
  <1>2. \A u : (Pending(u)' <=> Pending(u)) /\ (Unread(u)' <=> Unread(u))
    BY <1>1, SamePending
  <1>3. Born' /\ Young'
    BY <1>1, <1>2 DEF DetectorInv, Born, Young, Server_exists
  <1>4. OnTime'
    BY <1>1, <1>2 DEF DetectorInv, OnTime
  <1>5. Overdue' /\ OneThread' /\ JoinsOnce'
    BY <1>1 DEF DetectorInv, TypeInv, Held, Overdue, OneThread, JoinsOnce, Server_exists
  <1> QED BY <1>3, <1>4, <1>5 DEF DetectorInv

\* A server fails (main of the server).
LEMMA CrashInv ==
  ASSUME DetectorInv, TypeInv', NEW s \in Server, Crash(s)
  PROVE  DetectorInv'
  <1>1. /\ status'[s] = "dead"
        /\ \A u \in Server \ {s} : status'[u] = status[u] /\ since'[u] = since[u]
        /\ UNCHANGED <<queue, buf, thr, sheet, chain, probe>>
    BY DEF Crash, DetectorInv, TypeInv, TypeOK
  <1>2. \A u : (Pending(u)' <=> Pending(u)) /\ (Unread(u)' <=> Unread(u))
    BY <1>1, SamePending
  <1>3. Born' /\ Young'
    BY <1>1, <1>2 DEF DetectorInv, Born, Young, Server_exists
  <1>4. OnTime'
    BY <1>1, <1>2 DEF DetectorInv, OnTime
  <1>5. Overdue' /\ OneThread' /\ JoinsOnce'
    BY <1>1 DEF DetectorInv, TypeInv, Held, Overdue, OneThread, JoinsOnce, Server_exists
  <1> QED BY <1>3, <1>4, <1>5 DEF DetectorInv

\* A server sends a ping (Ping).
LEMMA PingInv ==
  ASSUME DetectorInv, TypeInv', NEW s \in Server, Ping(s)
  PROVE  DetectorInv'
  <1>1. /\ status[s] = "alive" /\ since'[s] = 0
        /\ \A u \in Server \ {s} : since'[u] = since[u]
        /\ UNCHANGED <<status, buf, thr, sheet, chain, probe>>
    BY DEF Ping, DetectorInv, TypeInv, TypeOK
  <1>2. \A u : /\ Pending(u)' <=> Pending(u) \/ u = s
               /\ Unread(u)' <=> Unread(u) \/ u = s
    BY PingPending DEF DetectorInv
  <1>3. Born' /\ Young'
    BY <1>1, <1>2 DEF DetectorInv, Born, Young, OnTime, Server_exists
  <1>4. OnTime'
    BY <1>1, <1>2 DEF DetectorInv, OnTime, Period
  <1>5. Overdue' /\ OneThread' /\ JoinsOnce'
    BY <1>1 DEF DetectorInv, Overdue, OneThread, JoinsOnce, Server_exists
  <1> QED BY <1>3, <1>4, <1>5 DEF DetectorInv

\* A ping is received (main of the master).
LEMMA ReceiveInv ==
  ASSUME DetectorInv, TypeInv', PromptMaster, NEW t \in ThreadId, Receive(t)
  PROVE  DetectorInv'
  <1>1. /\ \A u \in ThreadId : thr[u].pc = "idle"
        /\ \A u \in ThreadId \ {t} : thr'[u] = thr[u]
        /\ thr'[t].pc = "read"
        /\ UNCHANGED <<status, since, sheet, chain, probe>>
    BY DEF Receive, DetectorInv, TypeInv, TypeOK
  <1>2. \A u : (Pending(u)' <=> Pending(u)) /\ (Unread(u)' <=> Unread(u))
    BY ReceivePending DEF DetectorInv
  <1>3. Born' /\ Young'
    BY <1>1, <1>2 DEF DetectorInv, Born, Young, Server_exists
  <1>4. OnTime'
    BY <1>1, <1>2 DEF DetectorInv, OnTime
  <1>5. OneThread'
    BY <1>1 DEF OneThread
  <1>6. Overdue' /\ JoinsOnce'
    BY <1>1 DEF DetectorInv, Overdue, JoinsOnce
  <1> QED BY <1>3, <1>4, <1>5, <1>6 DEF DetectorInv

\* A thread reads the buffer (depacketize).
LEMMA ReadInv ==
  ASSUME DetectorInv, TypeInv', NEW t \in ThreadId, ReadBuffer(t)
  PROVE  DetectorInv'
  <1>1. /\ thr[t].pc = "read" /\ thr'[t].pc = "update"
        /\ \A u \in ThreadId \ {t} : thr'[u] = thr[u]
        /\ UNCHANGED <<status, since, sheet, chain, probe>>
    BY DEF ReadBuffer, DetectorInv, TypeInv, TypeOK
  <1>2. \A u : (Pending(u)' <=> Pending(u)) /\ (Unread(u)' <=> Unread(u))
    BY ReadPending DEF DetectorInv
  <1>3. Born' /\ Young'
    BY <1>1, <1>2 DEF DetectorInv, Born, Young, Server_exists
  <1>4. OnTime'
    BY <1>1, <1>2 DEF DetectorInv, OnTime
  <1>5. OneThread'
    BY <1>1 DEF DetectorInv, OneThread, Server_exists
  <1>6. Overdue' /\ JoinsOnce'
    BY <1>1 DEF DetectorInv, Overdue, JoinsOnce
  <1> QED BY <1>3, <1>4, <1>5, <1>6 DEF DetectorInv

\* Ages are numbers (time_sheet).
LEMMA AgeType ==
  ASSUME TypeInv, NEW s \in Server
  PROVE  sheet[s] \in Int /\ since[s] \in Nat /\ NoEntry \in Int /\ Period \in Int
  <1>1. sheet[s] \in {NoEntry} \cup 0..MaxAge /\ since[s] \in Nat
    BY DEF TypeInv, TypeOK
  <1>2. NoEntry \in Int /\ Period \in Int
    BY DEF NoEntry, Period
  <1> QED BY <1>1, <1>2

\* The time sheet is updated: the entry of a dead server that is being removed
\* is too old to have a ping on its way (update_time_sheet).
LEMMA UpdateInv ==
  ASSUME DetectorInv, TypeInv', NEW t \in ThreadId, UpdateTimeSheet(t)
  PROVE  DetectorInv'
  <1> DEFINE s == thr[t].srv
  <1>1. /\ s \in Server /\ sheet'[s] = 0
        /\ \A u \in Server \ {s} : sheet'[u] = sheet[u]
        /\ thr[t].pc = "update" /\ thr'[t].pc = "exists"
        /\ \A u \in ThreadId \ {t} : thr'[u] = thr[u]
        /\ UNCHANGED <<status, since, chain, probe>>
    BY DEF UpdateTimeSheet, DetectorInv, TypeInv, TypeOK, Held
  <1>2. \A u : /\ Pending(u)' <=> Pending(u)
               /\ Unread(u) => Unread(u)' \/ u = s
    BY UpdatePending DEF DetectorInv
  <1>3. Pending(s)
    BY UpdatePending DEF DetectorInv
  <1> HIDE DEF s
  <1>4. Born'
    BY <1>1, <1>2, <1>3 DEF DetectorInv, Born, Server_exists
  <1>5. Young'
    BY <1>1, <1>2 DEF DetectorInv, Young, Period
  <1>6. OnTime'
    <2>1. since[s] \in Nat
      BY <1>1 DEF DetectorInv, TypeInv, TypeOK
    <2> QED BY <1>1, <1>2, <2>1 DEF DetectorInv, OnTime, Period
  <1>7. Overdue'
    <2>1. CASE probe.pc \in {"notify", "erase"}
      <3>1. sheet[probe.it] > Period /\ probe.it \in Server
        BY <2>1 DEF DetectorInv, Overdue, TypeInv, Held
      <3>2. sheet[s] <= Period
        BY <1>1, <1>3 DEF DetectorInv, Young
      <3>3. sheet[s] \in Int /\ Period \in Int /\ sheet[probe.it] \in Int
        BY <1>1, <3>1, AgeType DEF DetectorInv
      <3>4. probe.it # s
        BY <3>1, <3>2, <3>3
      <3> QED BY <1>1, <2>1, <3>1, <3>4 DEF DetectorInv, Overdue
    <2> QED BY <1>1, <2>1 DEF Overdue
  <1>8. OneThread' /\ JoinsOnce'
    BY <1>1 DEF DetectorInv, OneThread, JoinsOnce, Server_exists
  <1> QED BY <1>4, <1>5, <1>6, <1>7, <1>8 DEF DetectorInv

\* A thread looks for its server in the chain (handle_ping).
LEMMA CheckInv ==
  ASSUME DetectorInv, TypeInv', NEW t \in ThreadId, CheckExists(t)
  PROVE  DetectorInv'
  <1>1. /\ thr[t].pc = "exists"
        /\ thr'[t].pc = "add" => ~Server_exists(thr[t].srv) /\ thr'[t].srv = thr[t].srv
        /\ \A u \in ThreadId \ {t} : thr'[u] = thr[u]
        /\ UNCHANGED <<status, since, sheet, chain, probe>>
    BY DEF CheckExists, DetectorInv, TypeInv, TypeOK, Idle
  <1>2. \A u : /\ Pending(u)' => Pending(u)
               /\ Unread(u)' <=> Unread(u)
    BY CheckPending DEF DetectorInv
  <1>3. Born' /\ Young'
    BY <1>1, <1>2 DEF DetectorInv, Born, Young, Server_exists
  <1>4. OnTime'
    BY <1>1, <1>2 DEF DetectorInv, OnTime
  <1>5. OneThread'
    BY <1>1 DEF DetectorInv, OneThread, Server_exists
  <1>6. Overdue' /\ JoinsOnce'
    BY <1>1 DEF DetectorInv, Overdue, JoinsOnce
  <1> QED BY <1>3, <1>4, <1>5, <1>6 DEF DetectorInv

\* The chain with a server more (Addserver).
LEMMA AddChain ==
  ASSUME DetectorInv, NEW t \in ThreadId, AddServer(t)
  PROVE  /\ thr[t].srv \in Server /\ ~Server_exists(thr[t].srv)
         /\ JoinsOnce'
         /\ \A u : Server_exists(u)' <=> Server_exists(u) \/ u = thr[t].srv
  <1>1. /\ thr[t].pc = "add" /\ thr[t].srv \in Server
        /\ chain' = Append(chain, thr[t].srv) /\ chain \in Seq(Server)
    BY DEF AddServer, DetectorInv, TypeInv, TypeOK, Held
  <1>2. ~Server_exists(thr[t].srv) /\ Distinct(chain)
    BY <1>1 DEF DetectorInv, OneThread, JoinsOnce, Distinct
  <1>3. /\ Distinct(chain')
        /\ Elements(chain') = Elements(chain) \cup {thr[t].srv}
    BY <1>1, <1>2, ExistsElements, AppendDistinct
  <1>4. \A u : (Server_exists(u) <=> u \in Elements(chain))
            /\ (Server_exists(u)' <=> u \in Elements(chain'))
    BY DEF Server_exists, Elements
  <1>5. JoinsOnce'
    BY <1>3 DEF JoinsOnce, Distinct
  <1> QED BY <1>1, <1>2, <1>3, <1>4, <1>5

\* A server is added to the chain (Addserver).
LEMMA AddInv ==
  ASSUME DetectorInv, TypeInv', NEW t \in ThreadId, AddServer(t)
  PROVE  DetectorInv'
  <1>1. /\ thr[t].pc = "add" /\ thr'[t].pc = "idle"
        /\ \A u \in ThreadId \ {t} : thr'[u] = thr[u]
        /\ UNCHANGED <<status, since, sheet, probe>>
    BY DEF AddServer, DetectorInv, TypeInv, TypeOK, Idle
  <1>2. \A u : /\ Pending(u)' => Pending(u)
               /\ Unread(u)' <=> Unread(u)
    BY AddPending DEF DetectorInv
  <1>3. Pending(thr[t].srv)
    BY AddPending DEF DetectorInv
  <1>4. /\ JoinsOnce'
        /\ \A u : Server_exists(u)' <=> Server_exists(u) \/ u = thr[t].srv
    BY AddChain
  <1>5. Born' /\ Young'
    BY <1>1, <1>2, <1>3, <1>4 DEF DetectorInv, Born, Young
  <1>6. OnTime'
    BY <1>1, <1>2 DEF DetectorInv, OnTime
  <1>7. OneThread'
    BY <1>1 DEF DetectorInv, OneThread
  <1>8. Overdue'
    BY <1>1 DEF DetectorInv, Overdue
  <1> QED BY <1>4, <1>5, <1>6, <1>7, <1>8 DEF DetectorInv

\* probing wakes up (probing).
LEMMA BeginInv ==
  ASSUME DetectorInv, TypeInv', ProbeBegin
  PROVE  DetectorInv'
  <1>1. After(End) \in Server \cup {End}
    BY AfterType
  <1>2. /\ probe'.pc \notin {"notify", "erase"}
        /\ UNCHANGED <<status, since, queue, buf, thr, sheet, chain>>
    BY <1>1, GotoType DEF ProbeBegin
  <1>3. \A u : (Pending(u)' <=> Pending(u)) /\ (Unread(u)' <=> Unread(u))
    BY <1>2, SamePending
  <1>4. Born' /\ Young'
    BY <1>2, <1>3 DEF DetectorInv, Born, Young, Server_exists
  <1>5. OnTime' /\ Overdue'
    BY <1>2, <1>3 DEF DetectorInv, OnTime, Overdue
  <1>6. OneThread' /\ JoinsOnce'
    BY <1>2 DEF DetectorInv, OneThread, JoinsOnce, Server_exists
  <1> QED BY <1>4, <1>5, <1>6 DEF DetectorInv

\* probing looks at an entry. An old one is that of a dead server, for the
\* others are on time (probing).
LEMMA ProbeCheckInv ==
  ASSUME DetectorInv, TypeInv', ProbeCheck
  PROVE  DetectorInv'
  <1>1. After(probe.it) \in Server \cup {End}
    BY AfterType
  <1>2. UNCHANGED <<status, since, queue, buf, thr, sheet, chain>>
    BY DEF ProbeCheck
  <1>3. \A u : (Pending(u)' <=> Pending(u)) /\ (Unread(u)' <=> Unread(u))
    BY <1>2, SamePending
  <1>4. Born' /\ Young'
    BY <1>2, <1>3 DEF DetectorInv, Born, Young, Server_exists
  <1>5. OnTime'
    BY <1>2, <1>3 DEF DetectorInv, OnTime
  <1>6. Overdue'
    <2>1. CASE sheet[probe.it] > Period
      <3>1. probe.it \in Server /\ probe' = [probe EXCEPT !.pc = "notify"]
        BY <2>1 DEF ProbeCheck, DetectorInv, TypeInv, Held
      <3>2. probe'.it = probe.it
        BY <3>1 DEF DetectorInv, TypeInv, TypeOK
      <3>3. ~(sheet[probe.it] <= Period)
        BY <2>1, <3>1, AgeType DEF DetectorInv
      <3>4. status[probe.it] = "dead"
        BY <3>1, <3>3 DEF DetectorInv, OnTime
      <3> QED BY <1>2, <2>1, <3>2, <3>4 DEF Overdue
    <2>2. CASE ~(sheet[probe.it] > Period)
      BY <1>1, <2>2, GotoType DEF ProbeCheck, Overdue
    <2> QED BY <2>1, <2>2
  <1>7. OneThread' /\ JoinsOnce'
    BY <1>2 DEF DetectorInv, OneThread, JoinsOnce, Server_exists
  <1> QED BY <1>4, <1>5, <1>6, <1>7 DEF DetectorInv

\* The chain without the failed server (server_notify).
LEMMA NotifyChain ==
  ASSUME DetectorInv, ProbeNotify
  PROVE  /\ JoinsOnce'
         /\ \A u : Server_exists(u)' <=> Server_exists(u) /\ u # probe.it
  <1>1. chain \in Seq(Server)
    BY DEF DetectorInv, TypeInv, TypeOK
  <1>2. \A u : (Server_exists(u) <=> u \in Elements(chain))
            /\ (Server_exists(u)' <=> u \in Elements(chain'))
    BY DEF Server_exists, Elements
  <1>3. CASE Server_exists(probe.it)
    <2>1. Distinct(chain') /\ Elements(chain') = Elements(chain) \ {probe.it}
      BY <1>1, <1>3, RemovedGone DEF ProbeNotify, DetectorInv
    <2> QED BY <1>2, <2>1 DEF JoinsOnce, Distinct
  <1>4. CASE ~Server_exists(probe.it)
    <2>1. chain' = chain
      BY <1>4 DEF ProbeNotify
    <2> QED BY <1>2, <1>4, <2>1 DEF DetectorInv, JoinsOnce
  <1> QED BY <1>3, <1>4

\* probing tells the clients and takes the server out of the chain (probing,
\* server_notify).
LEMMA NotifyInv ==
  ASSUME DetectorInv, TypeInv', ProbeNotify
  PROVE  DetectorInv'
  <1>1. /\ probe.pc = "notify" /\ probe'.it = probe.it
        /\ UNCHANGED <<status, since, queue, buf, thr, sheet>>
    BY DEF ProbeNotify, DetectorInv, TypeInv, TypeOK
  <1>2. \A u : (Pending(u)' <=> Pending(u)) /\ (Unread(u)' <=> Unread(u))
    BY <1>1, SamePending
  <1>3. JoinsOnce' /\ \A u : Server_exists(u)' => Server_exists(u)
    BY NotifyChain
  <1>4. Born' /\ Young'
    BY <1>1, <1>2, <1>3 DEF DetectorInv, Born, Young
  <1>5. OnTime' /\ Overdue'
    BY <1>1, <1>2 DEF DetectorInv, OnTime, Overdue
  <1>6. OneThread'
    BY <1>1, <1>3 DEF DetectorInv, OneThread
  <1> QED BY <1>3, <1>4, <1>5, <1>6 DEF DetectorInv

\* probing erases an entry (probing).
LEMMA EraseInv ==
  ASSUME DetectorInv, TypeInv', ProbeErase
  PROVE  DetectorInv'
  <1>1. /\ probe.it \in Server /\ sheet'[probe.it] = NoEntry
        /\ \A u \in Server \ {probe.it} : sheet'[u] = sheet[u]
        /\ UNCHANGED <<status, since, queue, buf, thr, chain>>
    BY DEF ProbeErase, DetectorInv, TypeInv, TypeOK, Held
  <1>2. \A u : (Pending(u)' <=> Pending(u)) /\ (Unread(u)' <=> Unread(u))
    BY <1>1, SamePending
  <1>3. \A u \in Server : NoEntry <= Period /\ NoEntry <= since[u]
    BY AgeType DEF DetectorInv, NoEntry, Period
  <1>4. Born' /\ Young'
    BY <1>1, <1>2, <1>3 DEF DetectorInv, Born, Young, Server_exists
  <1>5. OnTime'
    BY <1>1, <1>2, <1>3 DEF DetectorInv, OnTime
  <1>6. Overdue'
    <2>1. After(probe.it) \in Server \cup {End}
          /\ After(After(probe.it)) \in Server \cup {End}
      BY AfterType
    <2>2. probe'.pc \in {"sleep", "check"}
      BY <2>1, GotoType DEF ProbeErase, Asleep
    <2> QED BY <2>2 DEF Overdue
  <1>7. OneThread' /\ JoinsOnce'
    BY <1>1 DEF DetectorInv, OneThread, JoinsOnce, Server_exists
  <1> QED BY <1>4, <1>5, <1>6, <1>7 DEF DetectorInv

\* A second passes, in which no ping is on its way and no server that runs has
\* reached the longest time without a ping (time, sleep).
LEMMA TickInv ==
  ASSUME DetectorInv, TypeInv', Timely, Tick
  PROVE  DetectorInv'
  <1>1. /\ queue = <<>> /\ \A t \in ThreadId : thr[t].pc = "idle"
        /\ probe'.pc = "sleep"
        /\ UNCHANGED <<status, queue, buf, thr, chain>>
    BY DEF Tick, Still, DetectorInv, TypeInv, TypeOK
  <1>2. \A u : ~Pending(u) /\ ~Pending(u)' /\ ~Unread(u)
    BY <1>1 DEF Pending, Unread
  <1>3. ASSUME NEW s \in Server, status[s] = "asleep"
        PROVE  since'[s] = since[s] /\ sheet'[s] = sheet[s]
    BY <1>3 DEF Tick, DetectorInv, Born
  <1>4. Born' /\ Young'
    BY <1>1, <1>2, <1>3 DEF DetectorInv, Born, Young, Server_exists
  <1>5. ASSUME NEW s \in Server, status[s] = "alive"
        PROVE  since'[s] <= Period /\ sheet'[s] <= Period /\ sheet'[s] <= since'[s]
    <2>1. PICK d \in Delays : since[s] < d
      BY <1>5 DEF Tick
    <2>2. sheet[s] <= since[s] /\ d \in 1..5
      BY <1>2, <1>5 DEF DetectorInv, OnTime, Timely, Period
    <2>3. sheet[s] \in Int /\ since[s] \in Nat /\ MaxAge > 5 /\ MaxAge \in Nat
      BY AgeType, DetectorAssumption DEF DetectorInv
    <2>4. sheet[s] # MaxAge
      BY <2>1, <2>2, <2>3
    <2>5. since'[s] = since[s] + 1 /\ sheet'[s] \in {sheet[s], sheet[s] + 1}
      BY <1>5, <2>4 DEF Tick
    <2>6. sheet'[s] <= since'[s] /\ since'[s] <= 5 /\ sheet'[s] <= 5
      BY <2>1, <2>2, <2>3, <2>5
    <2> QED BY <2>6 DEF Period
  <1>6. OnTime'
    <2>1. \A s \in Server : status'[s] # "dead" => status[s] \in {"asleep", "alive"}
      BY <1>1 DEF DetectorInv, TypeInv, TypeOK
    <2> QED BY <1>1, <1>2, <1>3, <1>5, <2>1 DEF DetectorInv, OnTime
  <1>7. Overdue' /\ OneThread' /\ JoinsOnce'
    BY <1>1 DEF DetectorInv, Overdue, OneThread, JoinsOnce
  <1> QED BY <1>4, <1>6, <1>7 DEF DetectorInv

LEMMA DetectorNext ==
  ASSUME DetectorInv, Timely, [Next]_vars
  PROVE  DetectorInv'
  <1>1. TypeInv'
    BY TypeNext DEF DetectorInv
  <1>2. CASE UNCHANGED vars
    BY <1>1, <1>2 DEF vars, DetectorInv, Born, OnTime, Young, Overdue, OneThread,
                      JoinsOnce, Pending, Unread, Server_exists
  <1>3. ASSUME NEW s \in Server, Start(s) \/ Crash(s) \/ Ping(s)
        PROVE  DetectorInv'
    BY <1>1, <1>3, StartInv, CrashInv, PingInv
  <1>4. ASSUME NEW t \in ThreadId, HandlePing(t)
        PROVE  DetectorInv'
    BY <1>1, <1>4, ReceiveInv, ReadInv, UpdateInv, CheckInv, AddInv
       DEF HandlePing, Timely
  <1>5. CASE Probing
    BY <1>1, <1>5, BeginInv, ProbeCheckInv, NotifyInv, EraseInv DEF Probing
  <1>6. CASE Tick
    BY <1>1, <1>6, TickInv
  <1> QED BY <1>2, <1>3, <1>4, <1>5, <1>6 DEF Next, Progress

-----------------------------------------------------------------------------
(* What follows.                                                           *)

LEMMA DetectorAlways == ASSUME Timely PROVE Spec => []DetectorInv
  <1>1. DetectorInv /\ [Next]_vars => DetectorInv'
    BY DetectorNext
  <1> QED BY <1>1, DetectorInit, PTL DEF Spec

\* On time, a live server is never declared failed (probing).
THEOREM LiveNeverSuspected == ASSUME Timely PROVE Spec => []NeverSuspected
  <1>1. DetectorInv => NeverSuspected
    BY DEF DetectorInv, Overdue, NeverSuspected
  <1> QED BY <1>1, DetectorAlways, PTL

\* On time, no server is in the chain twice (handle_ping).
THEOREM NoServerTwice == ASSUME Timely PROVE Spec => []JoinsOnce
  <1>1. DetectorInv => JoinsOnce
    BY DEF DetectorInv
  <1> QED BY <1>1, DetectorAlways, PTL

-----------------------------------------------------------------------------
(* The refinement. A step of the detector is a step of the membership, or  *)
(* changes nothing of it.                                                  *)

\* The servers that have left for good.
Left == {s \in Server : status[s] = "dead" /\ ~Server_exists(s) /\ ~Pending(s)}

Maps == Members!Next \/ UNCHANGED <<status, Left, chain>>

\* The members of the chain.
LEMMA MembersExist ==
  ASSUME NEW s
  PROVE  s \in Members!Members <=> Server_exists(s)
  BY DEF Members!Members, Server_exists

LEMMA InitMaps == Init => Members!Init
  <1> SUFFICES ASSUME Init
               PROVE  Members!Init
    OBVIOUS
  <1>1. \A s \in Server : status[s] # "dead"
    BY DEF Init
  <1>2. status \in [Server -> Members!Status \ {"dead"}] /\ chain = Configured
    BY DEF Init, Members!Status
  <1>3. \A s \in Members!Members : status[s] = "alive"
    BY DetectorAssumption DEF Init, Members!Members
  <1> QED BY <1>1, <1>2, <1>3 DEF Members!Init

\* When the same servers have failed, are in the chain and have pings on their
\* way, the same servers have left.
LEMMA SameLeft ==
  ASSUME UNCHANGED status,
         \A s \in Server : status[s] = "dead" =>
            (Server_exists(s)' \/ Pending(s)' <=> Server_exists(s) \/ Pending(s))
  PROVE  Left' = Left
  BY DEF Left

LEMMA StartMaps ==
  ASSUME DetectorInv, NEW s \in Server, Start(s)
  PROVE  Members!Start(s)
  <1>1. \A u \in Server : status'[u] = "dead" <=> status[u] = "dead"
    BY DEF Start, DetectorInv, TypeInv, TypeOK
  <1>2. \A u : (Pending(u)' <=> Pending(u)) /\ (Server_exists(u)' <=> Server_exists(u))
    BY SamePending DEF Start, Server_exists
  <1>3. Left' = Left
    BY <1>1, <1>2 DEF Left
  <1> QED BY <1>3 DEF Start, Members!Start, Left

LEMMA CrashMaps ==
  ASSUME DetectorInv, NEW s \in Server, Crash(s)
  PROVE  Members!Fail(s)
  <1>1. /\ status[s] = "alive" /\ status' = [status EXCEPT ![s] = "dead"]
        /\ status'[s] = "dead" /\ \A u \in Server \ {s} : status'[u] = status[u]
    BY DEF Crash, DetectorInv, TypeInv, TypeOK
  <1>2. \A u : (Pending(u)' <=> Pending(u)) /\ (Server_exists(u)' <=> Server_exists(u))
    BY SamePending DEF Crash, Server_exists
  <1>3. Left' = IF Server_exists(s) \/ Pending(s) THEN Left ELSE Left \cup {s}
    BY <1>1, <1>2 DEF Left
  <1>4. Left' \in IF s \in Members!Members THEN {Left} ELSE {Left, Left \cup {s}}
    BY <1>3, MembersExist
  <1> QED BY <1>1, <1>4 DEF Crash, Members!Fail, Left

\* A dead server does not ping; that of a live one has not left (Ping).
LEMMA PingMaps ==
  ASSUME DetectorInv, NEW s \in Server, Ping(s)
  PROVE  UNCHANGED <<status, Left, chain>>
  <1>1. status[s] = "alive" /\ UNCHANGED <<status, chain>>
    BY DEF Ping
  <1>2. \A u : Pending(u)' <=> Pending(u) \/ u = s
    BY PingPending DEF DetectorInv
  <1>3. Left' = Left
    BY <1>1, <1>2 DEF Left, Server_exists
  <1> QED BY <1>1, <1>3

LEMMA HandlePingMaps ==
  ASSUME DetectorInv, PromptMaster, NEW t \in ThreadId, HandlePing(t)
  PROVE  Maps
  <1>1. CASE Receive(t)
    <2>1. \A u : Pending(u)' <=> Pending(u)
      BY <1>1, ReceivePending DEF DetectorInv
    <2>2. UNCHANGED <<status, chain>>
      BY <1>1 DEF Receive
    <2> QED BY <2>1, <2>2, SameLeft DEF Maps, Server_exists
  <1>2. CASE ReadBuffer(t)
    <2>1. \A u : Pending(u)' <=> Pending(u)
      BY <1>2, ReadPending DEF DetectorInv
    <2>2. UNCHANGED <<status, chain>>
      BY <1>2 DEF ReadBuffer
    <2> QED BY <2>1, <2>2, SameLeft DEF Maps, Server_exists
  <1>3. CASE UpdateTimeSheet(t)
    <2>1. \A u : Pending(u)' <=> Pending(u)
      BY <1>3, UpdatePending DEF DetectorInv
    <2>2. UNCHANGED <<status, chain>>
      BY <1>3 DEF UpdateTimeSheet
    <2> QED BY <2>1, <2>2, SameLeft DEF Maps, Server_exists
  <1>4. CASE CheckExists(t)
    <2>1. \A u : /\ Pending(u)' => Pending(u)
                 /\ Pending(u) => Pending(u)' \/ Server_exists(u)
      BY <1>4, CheckPending DEF DetectorInv
    <2>2. UNCHANGED <<status, chain>>
      BY <1>4 DEF CheckExists
    <2>3. \A u : Server_exists(u)' <=> Server_exists(u)
      BY <2>2 DEF Server_exists
    <2> QED BY <2>1, <2>2, <2>3, SameLeft DEF Maps
  <1>5. CASE AddServer(t)
    <2> DEFINE s == thr[t].srv
    <2>1. /\ s \in Server /\ ~Server_exists(s)
          /\ \A u : Server_exists(u)' <=> Server_exists(u) \/ u = s
      BY <1>5, AddChain
    <2>2. /\ \A u : /\ Pending(u)' => Pending(u)
                    /\ Pending(u) => Pending(u)' \/ u = s
          /\ Pending(s)
      BY <1>5, AddPending DEF DetectorInv
    <2>3. UNCHANGED status /\ chain' = Append(chain, s)
      BY <1>5 DEF AddServer
    <2> HIDE DEF s
    <2>4. Left' = Left
      BY <2>1, <2>2, <2>3, SameLeft
    <2>5. status[s] # "asleep" /\ s \notin Left
      BY <2>1, <2>2 DEF DetectorInv, Born, Left
    <2>6. s \notin Members!Members
      BY <2>1, MembersExist
    <2>7. Members!Join(s)
      BY <2>3, <2>4, <2>5, <2>6 DEF Members!Join, Left
    <2> QED BY <2>1, <2>7 DEF Maps, Members!Next
  <1> QED BY <1>1, <1>2, <1>3, <1>4, <1>5 DEF HandlePing

\* The server that is removed is dead, and none of its pings is on its way
\* (server_notify).
LEMMA NotifyMaps ==
  ASSUME DetectorInv, ProbeNotify
  PROVE  Maps
  <1>0. PICK s \in Server : s = probe.it
    BY DEF ProbeNotify, DetectorInv, TypeInv, Held
  <1>1. /\ status[s] = "dead" /\ ~(sheet[s] <= Period)
        /\ UNCHANGED <<status, queue, buf, thr>>
    BY <1>0, AgeType DEF ProbeNotify, DetectorInv, Overdue
  <1>2. ~Pending(s) /\ \A u : Pending(u)' <=> Pending(u)
    BY <1>1, SamePending DEF DetectorInv, Young
  <1>3. \A u : Server_exists(u)' <=> Server_exists(u) /\ u # s
    BY <1>0, NotifyChain
  <1>4. CASE Server_exists(s)
    <2>1. PICK i \in DOMAIN chain : chain[i] = s /\ Removed(s) = Drop(chain, i)
      BY <1>4, RemovedDrop DEF DetectorInv, TypeInv, TypeOK
    <2>2. chain' = Members!Without(i)
      BY <1>0, <1>4, <2>1 DEF ProbeNotify, Drop, Members!Without
    <2>3. Left' = Left \cup {s}
      BY <1>1, <1>2, <1>3 DEF Left
    <2>4. Members!Remove(s)
      BY <1>1, <2>1, <2>2, <2>3 DEF Members!Remove, Left
    <2> QED BY <2>4 DEF Maps, Members!Next
  <1>5. CASE ~Server_exists(s)
    <2>1. chain' = chain
      BY <1>0, <1>5 DEF ProbeNotify
    <2>2. Left' = Left
      BY <1>1, <1>2, <1>3, <1>5, SameLeft
    <2> QED BY <1>1, <2>1, <2>2 DEF Maps
  <1> QED BY <1>4, <1>5

LEMMA NextMaps ==
  ASSUME DetectorInv, Timely, [Next]_vars
  PROVE  Maps
  <1>1. ASSUME UNCHANGED <<status, queue, buf, thr, chain>>
        PROVE  Maps
    <2>1. \A u : Pending(u)' <=> Pending(u)
      BY <1>1, SamePending
    <2> QED BY <1>1, <2>1, SameLeft DEF Maps, Server_exists
  <1>2. CASE UNCHANGED vars \/ ProbeBegin \/ ProbeCheck \/ ProbeErase \/ Tick
    BY <1>1, <1>2 DEF vars, ProbeBegin, ProbeCheck, ProbeErase, Tick
  <1>3. ASSUME NEW s \in Server, Start(s) \/ Crash(s) \/ Ping(s)
        PROVE  Maps
    BY <1>3, StartMaps, CrashMaps, PingMaps DEF Maps, Members!Next
  <1>4. ASSUME NEW t \in ThreadId, HandlePing(t)
        PROVE  Maps
    BY <1>4, HandlePingMaps DEF Timely
  <1>5. CASE ProbeNotify
    BY <1>5, NotifyMaps
  <1> QED BY <1>2, <1>3, <1>4, <1>5 DEF Next, Progress, Probing

\* On time, pings, time sheet and probing implement the membership of the
\* chain: only dead servers go, and servers come once, at the tail
\* (handle_ping, probing, server_notify).
THEOREM ImplementsMembership == ASSUME Timely PROVE Spec => MembershipHolds
  <1>1. DetectorInv /\ [Next]_vars => [Members!Next]_(Members!vars)
    BY NextMaps DEF Maps, Members!vars, Left
  <1> QED BY <1>1, InitMaps, DetectorAlways, PTL DEF Spec, MembershipHolds, Members!Spec

-----------------------------------------------------------------------------
(***************************************************************************)
(* How long probing takes to find a failed server, for any number of       *)
(* servers: two periods, and one more for each other server that fails.    *)
(***************************************************************************)

\* The servers that have failed and will never be in the time sheet again.
\* Each time probing steps over an entry, one server more is gone.
Gone == {u \in Server : status[u] = "dead" /\ sheet[u] = NoEntry /\ ~Pending(u)}

Allowed == 2 * Period + Period * Cardinality(Gone)

\* The least time until probing looks at the entry of u.
Away(u) ==
    IF probe.pc = "sleep" THEN probe.wake
    ELSE IF u < probe.it THEN Period ELSE 0

InTime == \A u \in Server : sheet[u] + Away(u) <= Allowed

-----------------------------------------------------------------------------
(* What is gone stays gone.                                                *)

LEMMA GoneGrows ==
  ASSUME DetectorInv, Timely, [Next]_vars
  PROVE  Gone \subseteq Gone'
  <1> SUFFICES ASSUME NEW u \in Gone
               PROVE  status'[u] = "dead" /\ sheet'[u] = NoEntry /\ ~Pending(u)'
    BY DEF Gone
  <1>1. u \in Server /\ status[u] = "dead" /\ sheet[u] = NoEntry /\ ~Pending(u)
    BY DEF Gone
  <1>2. TypeInv /\ PromptMaster
    BY DEF DetectorInv, Timely
  <1>3. ASSUME NEW s \in Server, Start(s) \/ Crash(s)
        PROVE  status'[u] = "dead" /\ sheet'[u] = NoEntry /\ ~Pending(u)'
    <2>1. UNCHANGED <<queue, buf, thr, sheet>>
      BY <1>3 DEF Start, Crash
    <2>2. status'[u] = "dead"
      BY <1>1, <1>2, <1>3 DEF Start, Crash, TypeInv, TypeOK
    <2> QED BY <1>1, <2>1, <2>2, SamePending
  <1>4. ASSUME NEW s \in Server, Ping(s)
        PROVE  status'[u] = "dead" /\ sheet'[u] = NoEntry /\ ~Pending(u)'
    BY <1>1, <1>2, <1>4, PingPending DEF Ping
  <1>5. ASSUME NEW t \in ThreadId, HandlePing(t)
        PROVE  status'[u] = "dead" /\ sheet'[u] = NoEntry /\ ~Pending(u)'
    <2>1. CASE Receive(t) \/ ReadBuffer(t)
      BY <1>1, <1>2, <2>1, ReceivePending, ReadPending DEF Receive, ReadBuffer
    <2>2. CASE UpdateTimeSheet(t)
      <3>1. u # thr[t].srv /\ ~Pending(u)'
        BY <1>1, <1>2, <2>2, UpdatePending
      <3> QED BY <1>1, <1>2, <2>2, <3>1 DEF UpdateTimeSheet, TypeInv, TypeOK
    <2>3. CASE CheckExists(t) \/ AddServer(t)
      BY <1>1, <1>2, <2>3, CheckPending, AddPending DEF CheckExists, AddServer
    <2> QED BY <1>5, <2>1, <2>2, <2>3 DEF HandlePing
  <1>6. CASE Probing
    <2>1. UNCHANGED <<status, queue, buf, thr>>
      BY <1>6 DEF Probing, ProbeBegin, ProbeCheck, ProbeNotify, ProbeErase
    <2>2. sheet'[u] = NoEntry
      BY <1>1, <1>2, <1>6 DEF Probing, ProbeBegin, ProbeCheck, ProbeNotify, ProbeErase,
                              TypeInv, TypeOK
    <2> QED BY <1>1, <2>1, <2>2, SamePending
  <1>7. CASE Tick
    <2>1. UNCHANGED <<status, queue, buf, thr>> /\ sheet'[u] = NoEntry
      BY <1>1, <1>7 DEF Tick
    <2> QED BY <1>1, <2>1, SamePending
  <1>8. CASE UNCHANGED vars
    BY <1>1, <1>8, SamePending DEF vars
  <1> QED BY <1>3, <1>4, <1>5, <1>6, <1>7, <1>8 DEF Next, Progress

LEMMA GoneFinite ==
    /\ IsFiniteSet(Gone) /\ Cardinality(Gone) \in Nat
    /\ Allowed \in Nat /\ Allowed >= 2 * Period
  <1>1. IsFiniteSet(Gone) /\ Cardinality(Gone) \in Nat
    BY DetectorAssumption, FS_Subset, FS_CardinalityType DEF Gone
  <1> QED BY <1>1 DEF Allowed, Period

\* The bound only grows.
LEMMA AllowedGrows ==
  ASSUME DetectorInv, Timely, [Next]_vars
  PROVE  Allowed \in Nat /\ Allowed' \in Nat /\ Allowed <= Allowed' /\ 2 * Period <= Allowed
  <1>1. Gone \subseteq Gone'
    BY GoneGrows
  <1>2. IsFiniteSet(Gone')
    <2>1. Gone' \subseteq Server
      BY DEF Gone
    <2> QED BY <2>1, DetectorAssumption, FS_Subset
  <1>3. Cardinality(Gone) <= Cardinality(Gone') /\ Cardinality(Gone') \in Nat
    BY <1>1, <1>2, FS_Subset, FS_CardinalityType
  <1>4. Cardinality(Gone) \in Nat
    BY GoneFinite
  <1> QED BY <1>3, <1>4 DEF Allowed, Period

-----------------------------------------------------------------------------
(* The pass of probing.                                                    *)

\* The iterator passes over no entry.
LEMMA AfterPasses ==
  ASSUME NEW s, NEW u \in Entries, u > s
  PROVE  After(s) \in Server /\ After(s) <= u
  <1> DEFINE later == {v \in Entries : v > s}
  <1>1. later \in SUBSET Nat /\ later # {}
    BY DetectorAssumption DEF Entries
  <1>2. PICK w \in later : \A v \in later : w <= v
    BY <1>1, LeastNumber
  <1>3. After(s) \in later /\ \A v \in later : After(s) <= v
    BY <1>1, <1>2 DEF After
  <1> QED BY <1>3 DEF Entries

\* The numbers the steps below calculate with.
LEMMA Numbers ==
  ASSUME DetectorInv
  PROVE  /\ \A u \in Server : u \in Nat /\ sheet[u] \in Int
         /\ probe.wake \in 0..Period /\ probe.it \in Nat \cup {End}
         /\ probe.pc # "sleep" => probe.it \in Server
         /\ \A u \in Server : Away(u) \in 0..Period
  <1>1. /\ \A u \in Server : u \in Nat /\ sheet[u] \in Int
        /\ probe.wake \in 0..Period /\ probe.it \in Server \cup {End}
        /\ probe.pc # "sleep" => probe.it \in Server
    BY AgeType, DetectorAssumption DEF DetectorInv, TypeInv, TypeOK, Held
  <1>2. \A u \in Server : Away(u) \in 0..Period
    BY <1>1 DEF Away, Period
  <1> QED BY <1>1, <1>2

\* Where the loop goes on there is a period to sleep, or an entry to look at.
LEMMA GotoAway ==
  ASSUME NEW s \in Server \cup {End}, probe' = Goto(s), NEW u \in Nat
  PROVE  Away(u)' = IF s = End \/ u < s THEN Period ELSE 0
  BY DetectorAssumption DEF Goto, Asleep, Away

\* A step that leaves the time sheet and the place of probing alone.
LEMMA SameInTime ==
  ASSUME DetectorInv, Timely, [Next]_vars, InTime, sheet' = sheet,
         \A u \in Server : Away(u)' = Away(u)
  PROVE  InTime'
  <1>1. \A u \in Server : sheet[u] \in Int /\ Away(u) \in Int
    BY Numbers DEF Period
  <1> QED BY <1>1, AllowedGrows DEF InTime

LEMMA UpdateInTime ==
  ASSUME DetectorInv, Timely, [Next]_vars, InTime,
         NEW t \in ThreadId, UpdateTimeSheet(t)
  PROVE  InTime'
  <1> SUFFICES ASSUME NEW u \in Server
               PROVE  sheet'[u] + Away(u) <= Allowed'
    BY DEF InTime, UpdateTimeSheet, Away
  <1>1. sheet[u] \in Int /\ Away(u) \in 0..5
    BY Numbers DEF Period
  <1>2. sheet'[u] = sheet[u] \/ sheet'[u] = 0
    BY DEF UpdateTimeSheet, DetectorInv, TypeInv, TypeOK
  <1>3. /\ Allowed \in Nat /\ Allowed' \in Nat /\ Allowed <= Allowed' /\ 10 <= Allowed
        /\ sheet[u] + Away(u) <= Allowed
    BY AllowedGrows DEF InTime, Period
  <1> QED BY <1>1, <1>2, <1>3

\* The loop goes on behind s. Entries it has not come to are as much in time as
\* before; those up to s must bear to wait for the next pass.
LEMMA GoesOn ==
  ASSUME DetectorInv, Timely, [Next]_vars, InTime,
         NEW s \in Server \cup {End}, probe' = Goto(After(s)),
         NEW u \in Server, sheet'[u] \in {sheet[u], NoEntry},
         u <= s => sheet'[u] + Period <= Allowed'
  PROVE  sheet'[u] + Away(u)' <= Allowed'
  <1>1. /\ u \in Nat /\ s \in Int /\ sheet[u] \in Int /\ NoEntry = -1 /\ Period = 5
        /\ sheet[u] + Away(u) <= Allowed /\ Away(u) \in 0..5
    BY Numbers, DetectorAssumption DEF InTime, End, NoEntry, Period
  <1>2. Allowed \in Nat /\ Allowed' \in Nat /\ Allowed <= Allowed' /\ 10 <= Allowed
    BY AllowedGrows DEF Period
  <1>3. PICK w \in Server \cup {End} : w = After(s)
    BY AfterType
  <1>4. Away(u)' = IF w = End \/ u < w THEN 5 ELSE 0
    BY <1>1, <1>3, GotoAway
  <1>5. Away(u)' = 0 \/ Away(u)' = 5
    BY <1>4
  <1>6. CASE u <= s
    BY <1>1, <1>2, <1>5, <1>6
  <1>7. CASE u > s /\ u \in Entries
    <2>1. After(s) \in Server /\ After(s) <= u
      BY <1>7, AfterPasses
    <2>2. w \in Nat /\ w # End /\ w <= u
      BY <1>3, <2>1, DetectorAssumption DEF End
    <2>3. Away(u)' = 0
      BY <1>1, <1>4, <2>2
    <2> QED BY <1>1, <1>2, <2>3
  <1>8. CASE u \notin Entries
    <2>1. sheet'[u] = -1
      BY <1>1, <1>8 DEF Entries
    <2> QED BY <1>2, <1>5, <2>1
  <1> QED BY <1>1, <1>6, <1>7, <1>8

LEMMA BeginInTime ==
  ASSUME DetectorInv, Timely, [Next]_vars, InTime, ProbeBegin
  PROVE  InTime'
  <1>1. sheet' = sheet /\ probe' = Goto(After(End))
    BY DEF ProbeBegin
  <1>2. \A u \in Server : ~(u <= End)
    BY DetectorAssumption DEF End
  <1>3. ASSUME NEW u \in Server
        PROVE  sheet'[u] + Away(u)' <= Allowed'
    BY <1>1, <1>2, GoesOn
  <1> QED BY <1>3 DEF InTime

\* A young entry is left for the next pass.
LEMMA CheckInTime ==
  ASSUME DetectorInv, Timely, [Next]_vars, InTime, ProbeCheck
  PROVE  InTime'
  <1>1. PICK s \in Server : s = probe.it
    BY Numbers DEF ProbeCheck
  <1>2. probe.pc = "check" /\ sheet' = sheet
    BY DEF ProbeCheck
  <1>3. CASE sheet[s] > Period
    <2>1. probe' = [probe EXCEPT !.pc = "notify"]
      BY <1>1, <1>3 DEF ProbeCheck
    <2>2. probe'.pc = "notify" /\ probe'.it = probe.it
      BY <2>1 DEF DetectorInv, TypeInv, TypeOK
    <2>3. \A u \in Server : Away(u)' = Away(u)
      BY <1>2, <2>2 DEF Away
    <2> QED BY <1>2, <2>3, SameInTime
  <1>4. CASE ~(sheet[s] > Period)
    <2>1. probe' = Goto(After(s))
      BY <1>1, <1>4 DEF ProbeCheck
    <2>2. ASSUME NEW u \in Server, u <= s
          PROVE  sheet'[u] + Period <= Allowed'
      <3>1. /\ u \in Nat /\ s \in Nat /\ sheet[u] \in Int /\ sheet[s] \in Int
            /\ Allowed \in Nat /\ Allowed' \in Nat /\ Allowed <= Allowed' /\ 10 <= Allowed
        BY Numbers, AllowedGrows DEF Period
      <3>2. CASE u = s
        BY <1>2, <1>4, <3>1, <3>2 DEF Period
      <3>3. CASE u < s
        <4>1. sheet[u] + 5 <= Allowed
          BY <1>1, <1>2, <3>3 DEF InTime, Away, Period
        <4> QED BY <1>2, <3>1, <4>1 DEF Period
      <3> QED BY <2>2, <3>1, <3>2, <3>3
    <2>3. ASSUME NEW u \in Server
          PROVE  sheet'[u] + Away(u)' <= Allowed'
      BY <1>2, <2>1, <2>2, GoesOn
    <2> QED BY <2>3 DEF InTime
  <1> QED BY <1>3, <1>4

\* A failed server that is taken out of time_sheet is gone.
LEMMA EraseGone ==
  ASSUME DetectorInv, Timely, [Next]_vars, ProbeErase
  PROVE  Allowed' >= Allowed + Period
  <1>1. PICK s \in Server : s = probe.it
    BY Numbers DEF ProbeErase
  <1>2. probe.pc = "erase" /\ UNCHANGED <<status, queue, buf, thr>> /\ sheet'[s] = NoEntry
    BY <1>1 DEF ProbeErase, DetectorInv, TypeInv, TypeOK
  <1>3. status[s] = "dead" /\ sheet[s] > Period /\ sheet[s] \in Int
    BY <1>1, <1>2, Numbers DEF DetectorInv, Overdue
  <1>4. ~Pending(s) /\ sheet[s] # NoEntry
    BY <1>3 DEF DetectorInv, Young, Period, NoEntry
  <1>5. s \in Gone' /\ s \notin Gone
    BY <1>2, <1>3, <1>4, SamePending DEF Gone
  <1>6. Gone \cup {s} \subseteq Gone'
    BY <1>5, GoneGrows
  <1>7. /\ IsFiniteSet(Gone) /\ Cardinality(Gone) \in Nat
        /\ Cardinality(Gone \cup {s}) = Cardinality(Gone) + 1
    BY <1>5, GoneFinite, FS_AddElement
  <1>8. IsFiniteSet(Gone')
    <2>1. Gone' \subseteq Server
      BY DEF Gone
    <2> QED BY <2>1, DetectorAssumption, FS_Subset
  <1>9. Cardinality(Gone \cup {s}) <= Cardinality(Gone') /\ Cardinality(Gone') \in Nat
    BY <1>6, <1>8, FS_Subset, FS_CardinalityType
  <1> QED BY <1>7, <1>9 DEF Allowed, Period

\* The entry that is stepped over must wait for the next pass, and there is one
\* server more that is gone.
LEMMA EraseInTime ==
  ASSUME DetectorInv, Timely, [Next]_vars, InTime, ProbeErase
  PROVE  InTime'
  <1>1. PICK s \in Server : s = probe.it
    BY Numbers DEF ProbeErase
  <1>2. PICK w \in Server \cup {End} : w = After(s)
    BY AfterType
  <1>3. /\ probe.pc = "erase" /\ sheet'[s] = NoEntry
        /\ \A u \in Server \ {s} : sheet'[u] = sheet[u]
        /\ probe' = IF w = End THEN Goto(After(s)) ELSE Goto(After(w))
    BY <1>1, <1>2 DEF ProbeErase, Goto, DetectorInv, TypeInv, TypeOK
  <1>4. /\ Allowed \in Nat /\ Allowed' \in Nat /\ Allowed' >= Allowed + 5 /\ 10 <= Allowed
    BY AllowedGrows, EraseGone DEF Period
  <1>5. ASSUME NEW u \in Server, u <= s \/ u = w \/ u \notin Entries
        PROVE  sheet'[u] + Period <= Allowed'
    <2>1. u \in Nat /\ s \in Nat /\ sheet[u] \in Int
      BY Numbers
    <2>2. CASE u = s \/ u \notin Entries
      <3>1. sheet'[u] = -1
        BY <1>3, <2>2 DEF Entries, NoEntry
      <3> QED BY <1>4, <3>1 DEF Period
    <2>3. CASE u # s /\ u \in Entries
      <3>1. sheet[u] + Away(u) <= Allowed /\ Away(u) \in 0..5
        BY Numbers DEF InTime, Period
      <3> QED BY <1>3, <1>4, <2>1, <2>3, <3>1 DEF Period
    <2> QED BY <2>2, <2>3
  <1>6. ASSUME NEW u \in Server
        PROVE  sheet'[u] + Away(u)' <= Allowed'
    <2>1. sheet'[u] \in {sheet[u], NoEntry}
      BY <1>3
    <2>2. CASE w = End
      BY <1>3, <1>5, <2>1, <2>2, GoesOn
    <2>3. CASE w # End
      <3>1. u <= w => u <= s \/ u = w \/ u \notin Entries
        <4> SUFFICES ASSUME u <= w, ~(u <= s), u \in Entries
                     PROVE  u = w
          OBVIOUS
        <4>1. u \in Nat /\ s \in Nat /\ w \in Nat
          BY <1>2, <2>3, Numbers
        <4>2. After(s) <= u
          BY <4>1, AfterPasses
        <4> QED BY <1>2, <4>1, <4>2
      <3>2. u <= w => sheet'[u] + Period <= Allowed'
        BY <1>5, <3>1
      <3> QED BY <1>3, <2>1, <2>3, <3>2, GoesOn
    <2> QED BY <2>2, <2>3
  <1> QED BY <1>6 DEF InTime

\* An entry grows a second older, and probing is a second closer.
LEMMA TickInTime ==
  ASSUME DetectorInv, Timely, [Next]_vars, InTime, Tick
  PROVE  InTime'
  <1> SUFFICES ASSUME NEW u \in Server
               PROVE  sheet'[u] + Away(u)' <= Allowed'
    BY DEF InTime
  <1>1. /\ probe.pc = "sleep" /\ probe'.pc = "sleep"
        /\ probe.wake \in 0..Period /\ probe'.wake = probe.wake - 1
    BY Numbers DEF Tick, DetectorInv, TypeInv, TypeOK
  <1>2. sheet'[u] = sheet[u] \/ sheet'[u] = sheet[u] + 1
    BY DEF Tick
  <1>3. sheet[u] + probe.wake <= Allowed /\ Away(u)' = probe.wake - 1
    BY <1>1 DEF InTime, Away
  <1>4. Allowed \in Nat /\ Allowed' \in Nat /\ Allowed <= Allowed' /\ sheet[u] \in Int
    BY AllowedGrows, Numbers
  <1> QED BY <1>1, <1>2, <1>3, <1>4 DEF Period

-----------------------------------------------------------------------------
LEMMA FoundInit ==
  ASSUME Init
  PROVE  InTime
  <1>1. \A u \in Server : sheet[u] = -1 /\ Away(u) = 5
    BY DEF Init, Away, Asleep, NoEntry, Period
  <1>2. Allowed \in Nat /\ 10 <= Allowed
    BY GoneFinite DEF Period
  <1> QED BY <1>1, <1>2 DEF InTime

LEMMA FoundNext ==
  ASSUME DetectorInv, Timely, [Next]_vars, InTime
  PROVE  InTime'
  <1>1. ASSUME NEW s \in Server, Start(s) \/ Crash(s) \/ Ping(s)
        PROVE  InTime'
    BY <1>1, SameInTime DEF Start, Crash, Ping, Away
  <1>2. ASSUME NEW t \in ThreadId, HandlePing(t)
        PROVE  InTime'
    BY <1>2, SameInTime, UpdateInTime
       DEF HandlePing, Receive, ReadBuffer, CheckExists, AddServer, Away
  <1>3. CASE ProbeNotify
    <2>1. /\ probe.pc = "notify" /\ probe'.pc = "erase" /\ probe'.it = probe.it
          /\ sheet' = sheet
      BY <1>3 DEF ProbeNotify, DetectorInv, TypeInv, TypeOK
    <2> QED BY <2>1, SameInTime DEF Away
  <1>4. CASE UNCHANGED vars
    BY <1>4, SameInTime DEF vars, Away
  <1> QED BY <1>1, <1>2, <1>3, <1>4, BeginInTime, CheckInTime, EraseInTime, TickInTime
          DEF Next, Progress, Probing

\* A server with an entry is not gone, which leaves one fewer that may be.
LEMMA InTimeFound ==
  ASSUME DetectorInv, InTime
  PROVE  FoundInTime
  <1> SUFFICES ASSUME NEW s \in Server
               PROVE  sheet[s] <= Period * (Cardinality(Server) + 1)
    BY DEF FoundInTime
  <1>1. IsFiniteSet(Server) /\ Cardinality(Server) \in Nat
    BY DetectorAssumption, FS_CardinalityType
  <1>2. CASE sheet[s] = NoEntry
    BY <1>1, <1>2 DEF NoEntry, Period
  <1>3. CASE sheet[s] # NoEntry
    <2>1. s \notin Gone /\ Gone \cup {s} \subseteq Server
      BY <1>3 DEF Gone
    <2>2. /\ Cardinality(Gone) \in Nat
          /\ Cardinality(Gone \cup {s}) = Cardinality(Gone) + 1
      BY <2>1, GoneFinite, FS_AddElement
    <2>3. Cardinality(Gone \cup {s}) <= Cardinality(Server)
      BY <1>1, <2>1, FS_Subset
    <2>4. /\ sheet[s] \in Int /\ Away(s) \in 0..5
          /\ sheet[s] + Away(s) <= 10 + 5 * Cardinality(Gone)
      BY Numbers DEF InTime, Allowed, Period
    <2> QED BY <1>1, <2>2, <2>3, <2>4 DEF Period
  <1> QED BY <1>2, <1>3

\* No entry of the time sheet gets older than two periods and one more for each
\* other server: probing steps over an entry when it erases the one before, and
\* a server it erases never comes back (probing).
THEOREM FoundSoon == ASSUME Timely PROVE Spec => []FoundInTime
  <1>1. InTime /\ DetectorInv /\ [Next]_vars => InTime'
    BY FoundNext
  <1>2. Init => InTime
    BY FoundInit
  <1>3. InTime /\ DetectorInv => FoundInTime
    BY InTimeFound
  <1> QED BY <1>1, <1>2, <1>3, DetectorAlways, PTL DEF Spec
=============================================================================
