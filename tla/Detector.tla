------------------------------ MODULE Detector ------------------------------
(***************************************************************************)
(* How the master finds out which servers are there: the Ping thread of    *)
(* every server, the one receive buffer of main, a handle_ping thread for  *)
(* each ping, time_sheet, and the probing thread that wakes every five     *)
(* seconds.                                                                *)
(*                                                                         *)
(* Time is counted in the seconds of time(), and only as the ages of       *)
(* things: a tick makes every age one more. The pings of a second are      *)
(* handled in it, and a pass of probing, which sends a few datagrams at    *)
(* most, takes no second either.                                           *)
(*                                                                         *)
(* PromptMaster is what the master counts on beyond that: a handle_ping    *)
(* thread is through before the next ping is received. Without it the      *)
(* threads of one second interleave in every way.                          *)
(***************************************************************************)
EXTENDS Integers, Sequences, FiniteSets

CONSTANTS
    Server,        \* ports, in whose order time_sheet is kept
    Configured,    \* the chain of the configuration file
    Delays,        \* seconds that may lie between two pings of a server
    ThreadId,      \* bound: handle_ping threads of the master
    MaxQueue,      \* bound: pings in the socket of the master
    MaxAge,        \* bound: ages are counted up to here
    PromptMaster   \* a thread is through before the next ping is received

ASSUME DetectorAssumption ==
    /\ Server \subseteq Nat /\ IsFiniteSet(Server)
    /\ Configured \in Seq(Server)
    /\ \A i, j \in DOMAIN Configured : Configured[i] = Configured[j] => i = j
    /\ Delays \subseteq Nat \ {0}
    /\ MaxQueue \in Nat
    /\ MaxAge \in Nat /\ MaxAge > 5
    /\ PromptMaster \in BOOLEAN

VARIABLES
    status,   \* of the process of each server
    since,    \* seconds since its last ping, or since it started
    queue,    \* pings in sockfd_udp of the master
    buf,      \* buf of main: the server the last ping names
    thr,      \* the handle_ping threads: where they are, and srv_name
    sheet,    \* time_sheet: the age of the entry of a server, or NoEntry
    chain,    \* sChain of the bank, head first
    probe     \* the probing thread: where it is, it, and how long it sleeps

vars == <<status, since, queue, buf, thr, sheet, chain, probe>>

NoEntry == -1
End == -1
Period == 5

Idle == [pc |-> "idle", srv |-> End]

Entries == {s \in Server : sheet[s] # NoEntry}

\* The entry an iterator at s, or before the beginning, is moved to by ++.
After(s) ==
    LET later == {u \in Entries : u > s}
    IN  IF later = {} THEN End
        ELSE CHOOSE u \in later : \A v \in later : u <= v

Server_exists(s) == \E i \in DOMAIN chain : chain[i] = s

Removed(s) ==
    LET i == CHOOSE j \in DOMAIN chain :
                chain[j] = s /\ \A k \in 1..(j - 1) : chain[k] # s
    IN  SubSeq(chain, 1, i - 1) \o SubSeq(chain, i + 1, Len(chain))

\* probing in sleep(5), and at an entry or at the end of its loop.
Asleep == [pc |-> "sleep", it |-> End, wake |-> Period]

\* Mutant: every pass is followed by a second more of sleep.
GotoLonger(s) ==
    IF s = End THEN [Asleep EXCEPT !.wake = Period + 1]
    ELSE [pc |-> "check", it |-> s, wake |-> 0]

\* The loop goes on at s, or ends.
Goto(s) == IF s = End THEN Asleep ELSE [pc |-> "check", it |-> s, wake |-> 0]

Init ==
    /\ status = [s \in Server |-> IF \E i \in DOMAIN Configured : Configured[i] = s
                                  THEN "alive" ELSE "asleep"]
    /\ since = [s \in Server |-> 0]
    /\ queue = <<>>
    /\ buf = End
    /\ thr = [t \in ThreadId |-> Idle]
    /\ sheet = [s \in Server |-> NoEntry]
    /\ chain = Configured
    /\ probe = Asleep

-----------------------------------------------------------------------------
(* The servers.                                                            *)

Start(s) ==
    /\ status[s] = "asleep"
    /\ status' = [status EXCEPT ![s] = "alive"]
    /\ UNCHANGED <<since, queue, buf, thr, sheet, chain, probe>>

Crash(s) ==
    /\ status[s] = "alive"
    /\ status' = [status EXCEPT ![s] = "dead"]
    /\ since' = [since EXCEPT ![s] = 0]
    /\ UNCHANGED <<queue, buf, thr, sheet, chain, probe>>

\* Ping: sleeps for a second, or what becomes of it on a busy machine, then
\* sends bank and port.
Ping(s) ==
    /\ status[s] = "alive" /\ since[s] \in Delays
    /\ Len(queue) < MaxQueue
    /\ queue' = Append(queue, s)
    /\ since' = [since EXCEPT ![s] = 0]
    /\ UNCHANGED <<status, buf, thr, sheet, chain, probe>>

-----------------------------------------------------------------------------
(* The master: main and the threads it starts.                             *)

\* main receives a ping into buf and starts a thread with the address of buf.
Receive(t) ==
    /\ queue # <<>> /\ thr[t].pc = "idle"
    /\ PromptMaster => \A u \in ThreadId : thr[u].pc = "idle"
    /\ buf' = Head(queue)
    /\ queue' = Tail(queue)
    /\ thr' = [thr EXCEPT ![t] = [pc |-> "read", srv |-> End]]
    /\ UNCHANGED <<status, since, sheet, chain, probe>>

\* depacketize, from what is in buf by now.
ReadBuffer(t) ==
    /\ thr[t].pc = "read"
    /\ thr' = [thr EXCEPT ![t] = [pc |-> "update", srv |-> buf]]
    /\ UNCHANGED <<status, since, queue, buf, sheet, chain, probe>>

UpdateTimeSheet(t) ==
    /\ thr[t].pc = "update"
    /\ sheet' = [sheet EXCEPT ![thr[t].srv] = 0]
    /\ thr' = [thr EXCEPT ![t].pc = "exists"]
    /\ UNCHANGED <<status, since, queue, buf, chain, probe>>

\* Mutant: the answer of Server_exists is taken for its opposite.
CheckExistsInverted(t) ==
    /\ thr[t].pc = "exists"
    /\ thr' = [thr EXCEPT ![t] = IF Server_exists(thr[t].srv)
                                 THEN [@ EXCEPT !.pc = "add"] ELSE Idle]
    /\ UNCHANGED <<status, since, queue, buf, sheet, chain, probe>>

CheckExists(t) ==
    /\ thr[t].pc = "exists"
    /\ thr' = [thr EXCEPT ![t] = IF Server_exists(thr[t].srv) THEN Idle
                                 ELSE [@ EXCEPT !.pc = "add"]]
    /\ UNCHANGED <<status, since, queue, buf, sheet, chain, probe>>

\* Mutant: the new server is put at the head of the chain.
AddServerAtHead(t) ==
    /\ thr[t].pc = "add"
    /\ chain' = <<thr[t].srv>> \o chain
    /\ thr' = [thr EXCEPT ![t] = Idle]
    /\ UNCHANGED <<status, since, queue, buf, sheet, probe>>

\* Addserver. What client_notify and server_notify send is in MasterNode.
AddServer(t) ==
    /\ thr[t].pc = "add"
    /\ chain' = Append(chain, thr[t].srv)
    /\ thr' = [thr EXCEPT ![t] = Idle]
    /\ UNCHANGED <<status, since, queue, buf, sheet, probe>>

HandlePing(t) ==
    Receive(t) \/ ReadBuffer(t) \/ UpdateTimeSheet(t) \/ CheckExists(t) \/ AddServer(t)

-----------------------------------------------------------------------------
(* The master: probing.                                                    *)

ProbeBegin ==
    /\ probe.pc = "sleep" /\ probe.wake = 0
    /\ probe' = Goto(After(End))
    /\ UNCHANGED <<status, since, queue, buf, thr, sheet, chain>>

\* Mutant: five seconds without a ping are too many.
ProbeCheckEager ==
    /\ probe.pc = "check"
    /\ probe' = IF sheet[probe.it] >= Period THEN [probe EXCEPT !.pc = "notify"]
                ELSE Goto(After(probe.it))
    /\ UNCHANGED <<status, since, queue, buf, thr, sheet, chain>>

\* Mutant: six seconds without a ping are not too many.
ProbeCheckLate ==
    /\ probe.pc = "check"
    /\ probe' = IF sheet[probe.it] > Period + 1 THEN [probe EXCEPT !.pc = "notify"]
                ELSE Goto(After(probe.it))
    /\ UNCHANGED <<status, since, queue, buf, thr, sheet, chain>>

\* Mutant: the iterator is moved on in the body of the loop as well.
ProbeCheckTwice ==
    /\ probe.pc = "check"
    /\ probe' = IF sheet[probe.it] > Period THEN [probe EXCEPT !.pc = "notify"]
                ELSE LET it == After(probe.it)
                     IN  IF it = End THEN Asleep ELSE Goto(After(it))
    /\ UNCHANGED <<status, since, queue, buf, thr, sheet, chain>>

\* cur_time - it->second > 5
ProbeCheck ==
    /\ probe.pc = "check"
    /\ probe' = IF sheet[probe.it] > Period THEN [probe EXCEPT !.pc = "notify"]
                ELSE Goto(After(probe.it))
    /\ UNCHANGED <<status, since, queue, buf, thr, sheet, chain>>

\* client_notify and server_notify, which takes the server out of the chain.
ProbeNotify ==
    /\ probe.pc = "notify"
    /\ chain' = IF Server_exists(probe.it) THEN Removed(probe.it) ELSE chain
    /\ probe' = [probe EXCEPT !.pc = "erase"]
    /\ UNCHANGED <<status, since, queue, buf, thr, sheet>>

\* erase returns the entry after it; unless that is the end, the loop steps
\* over it.
ProbeErase ==
    /\ probe.pc = "erase"
    /\ sheet' = [sheet EXCEPT ![probe.it] = NoEntry]
    /\ LET it == After(probe.it)
       IN  probe' = IF it = End THEN Asleep ELSE Goto(After(it))
    /\ UNCHANGED <<status, since, queue, buf, thr, chain>>

Probing == ProbeBegin \/ ProbeCheck \/ ProbeNotify \/ ProbeErase

-----------------------------------------------------------------------------
Still == queue = <<>> /\ \A t \in ThreadId : thr[t].pc = "idle"

\* A second passes. A server that runs does not let the longest delay pass
\* without a ping.
Tick ==
    /\ probe.pc = "sleep" /\ probe.wake > 0
    /\ Still
    /\ \A s \in Server : status[s] = "alive" => \E d \in Delays : since[s] < d
    /\ probe' = [probe EXCEPT !.wake = @ - 1]
    /\ since' = [s \in Server |-> IF status[s] = "alive" THEN since[s] + 1 ELSE since[s]]
    /\ sheet' = [s \in Server |-> IF sheet[s] \in {NoEntry, MaxAge} THEN sheet[s]
                                  ELSE sheet[s] + 1]
    /\ UNCHANGED <<status, queue, buf, thr, chain>>

\* What goes on by itself. Nothing has to start or to fail.
Progress ==
    \/ \E s \in Server : Ping(s)
    \/ \E t \in ThreadId : HandlePing(t)
    \/ Probing
    \/ Tick

Next == Progress \/ \E s \in Server : Start(s) \/ Crash(s)

Spec == Init /\ [][Next]_vars

\* Processes and threads are scheduled, a sleep ends, and time goes on.
FairSpec == Spec /\ WF_vars(Progress)

-----------------------------------------------------------------------------
\* Every variable keeps its type; the probing thread sleeps five seconds at
\* most.
TypeOK ==
    /\ status \in [Server -> {"asleep", "alive", "dead"}]
    /\ since \in [Server -> Nat]
    /\ queue \in Seq(Server)
    /\ buf \in Server \cup {End}
    /\ thr \in [ThreadId -> [pc : {"idle", "read", "update", "exists", "add"},
                             srv : Server \cup {End}]]
    /\ sheet \in [Server -> {NoEntry} \cup 0..MaxAge]
    /\ chain \in Seq(Server)
    /\ probe \in [pc : {"sleep", "check", "notify", "erase"},
                  it : Server \cup {End}, wake : 0..Period]

\* A ping of s is on its way from the socket of the master into the chain.
Pending(s) ==
    \/ \E i \in DOMAIN queue : queue[i] = s
    \/ \E t \in ThreadId : \/ thr[t].pc = "read" /\ buf = s
                           \/ thr[t].pc \notin {"idle", "read"} /\ thr[t].srv = s

\* The promise of the master. A dead server has left for good when it is out
\* of the chain and no ping of it is on its way.
Members == INSTANCE Membership WITH
    First <- Configured,
    left <- {s \in Server : status[s] = "dead" /\ ~Server_exists(s) /\ ~Pending(s)}

\* Pings, time sheet and probing implement the membership of the chain: the
\* master removes dead servers only, and adds each server once, at the tail
\* (handle_ping, probing, server_notify).
MembershipHolds == Members!Spec

\* A server that pings at least every five seconds is never declared failed,
\* whatever falls between its ping and the pass of probing (probing,
\* update_time_sheet).
NeverSuspected == probe.pc \in {"notify", "erase"} => status[probe.it] = "dead"

\* Probing steps over the entry after one it erases. A failed server may be
\* stepped over once for each other server, so its entry gets no older than
\* two periods and one more for each of them (probing).
FoundInTime ==
    \A s \in Server : sheet[s] <= Period * (Cardinality(Server) + 1)

\* A server of time_sheet that fails is taken out of the chain, also when
\* others fail around it and probing steps over its entry (probing).
KnownLeave ==
    \A s \in Server :
        status[s] = "dead" /\ sheet[s] # NoEntry ~> ~Server_exists(s)

\* A delayed server that stays up joins the chain (handle_ping).
StartedJoin == Members!StartedJoin

-----------------------------------------------------------------------------
(* What comments of the program say, and it does not do.                   *)

\* master.cpp:43, "timely probe the time_sheet in order to find the failed
\* server": a failed server does not stay in the chain.
FailedLeave == Members!FailedLeave

\* master.cpp:85, "if the server doesn't exist, it means that new server
\* joined": a server of the chain is not taken for a new one.
JoinsOnce == \A i, j \in DOMAIN chain : chain[i] = chain[j] => i = j
=============================================================================
