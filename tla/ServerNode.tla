----------------------------- MODULE ServerNode -----------------------------
(***************************************************************************)
(* One server process: the select loop of main, and the detached threads   *)
(* it starts, Sync at a server that has a next and Reply at the tail.      *)
(*                                                                         *)
(* A thread is given the address of an ARGS object on main's stack, and    *)
(* that object the address of main's receive buffer. Neither is copied:    *)
(* the loop goes on to the next message and writes over both, and a thread *)
(* reads them again at each use. buf and args are those two pieces of      *)
(* memory; a thread's own state is what it keeps in its locals. In the     *)
(* object file server.o each of the two blocks that start threads has its  *)
(* own stack slot for its ARGS, hence the index "udp" or "tcp" of args.    *)
(*                                                                         *)
(* With PromptThreads the threads are through with that memory before main *)
(* writes to it again, and no two accesses of one server to its lists need *)
(* to be told apart. Without it each reading of args, buf, balances and    *)
(* lists is a step of its own.                                             *)
(***************************************************************************)
EXTENDS Wire

CONSTANTS
    LifeTime,     \* LifeTime[s]: the message after this many ends the process
    MessageLoss,  \* MessageLoss[s]: one request is dropped after this many; 0: none
    PromptThreads \* the timing of the threads is assumed

ASSUME ServerAssumption ==
    /\ PromptThreads \in BOOLEAN
    /\ LifeTime \in [Server -> Nat]
    /\ MessageLoss \in [Server -> Nat]

VARIABLES
    next,       \* next[s]: where s forwards to
    acct,       \* acct[s]: Account_Info
    sent,       \* sent[s]: sentTrans
    proc,       \* proc[s]: procTrans
    buf,        \* buf[s]: main's receive buffer
    args,       \* args[s]: main's two ARGS objects
    thr,        \* thr[s]: the detached threads
    job,        \* job[s]: the synchronization main is waiting for, if any
    msgCount,   \* msgCount[s]: msg_count
    lossCount,  \* lossCount[s]: loss_frequency
    applied     \* history: how often a request changed the accounts of s

books == <<acct, sent, proc, applied>>
serverVars == <<next, books, buf, args, thr, job, msgCount, lossCount>>

Chan == {"udp", "tcp"}

ArgsSet == [req: Request, conn: Conn]

NoArgs == [req |-> BlankReq, conn |-> NoConn]

\* How far a synchronization is: whether it walks over sentTrans, which
\* requests it has sent from there, and the key in procTrans it sent last.
JobSet == [on: BOOLEAN, walk: BOOLEAN, sent: SUBSET Request, last: Nat]

NoJob == [on |-> FALSE, walk |-> FALSE, sent |-> {}, last |-> 0]

Pc == {"idle", "start", "connect", "write", "add", "wait", "passed", "check",
       "apply", "send", "hist", "take", "ack"}

\* peer and ack describe the thread's own connection to the next server: who
\* holds the other end, and what came back on it. req, hist, bal and outcome
\* are the locals of ProcReq and the Reply object, dest is cliaddr. Role Hist
\* is the thread that main starts for Sync_Hist and joins.
Thread == [pc: Pc, role: {"Sync", "Reply", "Hist"}, chan: Chan,
           peer: Server \cup {NoServer}, ack: {"none", "acked", "eof"},
           req: Request, hist: {"New", "Inconsistent", "Duplicate"},
           bal: Balance, outcome: Outcome, dest: Client \cup {NoClient}]

Idle == [pc |-> "idle", role |-> "Sync", chan |-> "udp", peer |-> NoServer,
         ack |-> "none", req |-> BlankReq, hist |-> "New", bal |-> 0,
         outcome |-> "Processed", dest |-> NoClient]

NoBooks == [a \in Account |-> 0]

NeverApplied == [i \in Id |-> 0]

isTail(s) == next[s] = NoServer

\* A connection to the next server would be accepted.
NextUp(s) == next[s] \in Server /\ up[next[s]]

\* A thread whose next step does not wait for anybody.
Runnable(s, t) ==
    /\ up[s]
    /\ thr[s][t].pc # "idle"
    /\ thr[s][t].pc = "wait" => thr[s][t].ack # "none"

-----------------------------------------------------------------------------
(* The end of a process, by signal, by life time or by its own mistake.    *)
(* Its memory is gone, its sockets are closed, and every thread that waits *)
(* on a connection to it reads end-of-file.                                *)

HungUp(T, s) ==
    IF T.peer = s /\ T.ack = "none" THEN [T EXCEPT !.ack = "eof"] ELSE T

Down(s) ==
    /\ up' = [up EXCEPT ![s] = FALSE]
    /\ udp' = [udp EXCEPT ![s] = <<>>]
    /\ tcp' = [tcp EXCEPT ![s] = <<>>]
    /\ thr' = [p \in Server |-> [t \in ThreadId |->
                  IF p = s THEN Idle ELSE HungUp(thr[p][t], s)]]
    /\ next' = [next EXCEPT ![s] = NoServer]
    /\ acct' = [acct EXCEPT ![s] = NoBooks]
    /\ sent' = [sent EXCEPT ![s] = {}]
    /\ proc' = [proc EXCEPT ![s] = {}]
    /\ applied' = [applied EXCEPT ![s] = NeverApplied]
    /\ buf' = [buf EXCEPT ![s] = Raw(BlankReq)]
    /\ args' = [args EXCEPT ![s] = [c \in Chan |-> NoArgs]]
    /\ job' = [job EXCEPT ![s] = NoJob]
    /\ msgCount' = [msgCount EXCEPT ![s] = 0]
    /\ lossCount' = [lossCount EXCEPT ![s] = 0]
    /\ UNCHANGED <<sock, inbox>>

\* SIGINT or SIGTERM: the handler jumps into the loop, which exits.
Kill(s) == up[s] /\ Down(s)

-----------------------------------------------------------------------------
(* The select loop. While it joins a synchronization thread it takes no    *)
(* message.                                                                *)

Joining(s) == \E t \in ThreadId : thr[s][t].role = "Hist"

Listening(s) == up[s] /\ ~job[s].on /\ ~Joining(s)

\* A new thread is given main's ARGS object for its channel.
Spawn(s, c) ==
    LET free == {t \in ThreadId : thr[s][t].pc = "idle"}
        role == IF isTail(s) THEN "Reply" ELSE "Sync"
    IN  /\ free # {}
        /\ thr' = [thr EXCEPT ![s][CHOOSE t \in free : TRUE] =
                      [Idle EXCEPT !.role = role, !.chan = c,
                         !.pc = IF role = "Reply" THEN "start" ELSE "connect"]]

Datagram(s) == udp[s] # <<>> /\ Listening(s)

TakeDatagram(s) ==
    /\ udp' = [udp EXCEPT ![s] = Tail(@)]
    /\ buf' = [buf EXCEPT ![s] = Head(udp[s])]

\* Mutant: only a New_Next starts a synchronization.
SyncJobNewNext(s, n) ==
    IF n.port = NoServer \/ n.kind # "New_Next" THEN NoJob
    ELSE [on |-> TRUE, walk |-> TRUE, sent |-> {}, last |-> 0]

\* The synchronization a notification starts, which looks at the new next
\* server before it looks at the type.
SyncJob(s, n) ==
    IF n.port = NoServer \/ n.kind = "Fail" THEN NoJob
    ELSE [on |-> TRUE, walk |-> n.kind = "New_Next", sent |-> {}, last |-> 0]

\* Proc_master_notification, up to that synchronization.
RecvNotification(s) ==
    LET n == Head(udp[s]) IN
    /\ Datagram(s)
    /\ n.kind \in NotiKind
    /\ TakeDatagram(s)
    /\ next' = [next EXCEPT ![s] = n.port]
    /\ job' = [job EXCEPT ![s] = SyncJob(s, n)]
    /\ UNCHANGED <<up, tcp, sock, inbox, books, args, thr, msgCount, lossCount>>

RequestWaiting(s) == Datagram(s) /\ Head(udp[s]).kind = "Raw"

Lost(s) == MessageLoss[s] # 0 /\ lossCount[s] + 1 > MessageLoss[s]

Expired(s) == msgCount[s] + 1 > LifeTime[s]

\* The simulated packet loss. The buffer has been overwritten all the same.
DropRequest(s) ==
    /\ RequestWaiting(s)
    /\ Lost(s)
    /\ TakeDatagram(s)
    /\ lossCount' = [lossCount EXCEPT ![s] = 0]
    /\ UNCHANGED <<up, tcp, sock, inbox, next, books, args, thr, job, msgCount>>

RecvRequest(s) ==
    /\ RequestWaiting(s)
    /\ ~Lost(s)
    /\ ~Expired(s)
    /\ TakeDatagram(s)
    /\ lossCount' = [lossCount EXCEPT ![s] =
                        IF MessageLoss[s] = 0 THEN 0 ELSE @ + 1]
    /\ msgCount' = [msgCount EXCEPT ![s] = @ + 1]
    /\ args' = [args EXCEPT ![s]["udp"] =
                   [req |-> Parse(Head(udp[s])), conn |-> NoConn]]
    /\ Spawn(s, "udp")
    /\ UNCHANGED <<up, tcp, sock, inbox, next, books, job>>

ExpireOnRequest(s) == RequestWaiting(s) /\ ~Lost(s) /\ Expired(s) /\ Down(s)

\* A connection from the previous server, classified as k. Until something
\* has been written on it main waits in read.
Accepts(s, k) ==
    /\ tcp[s] # <<>>
    /\ Head(tcp[s]).msg # Nothing
    /\ Listening(s)
    /\ k \in SyncTypes(Head(tcp[s]).msg)

TakePacket(s) ==
    /\ tcp' = [tcp EXCEPT ![s] = Tail(@)]
    /\ buf' = [buf EXCEPT ![s] = Head(tcp[s]).msg]

AcceptRequest(s) ==
    /\ Accepts(s, "Normal")
    /\ ~Expired(s)
    /\ TakePacket(s)
    /\ msgCount' = [msgCount EXCEPT ![s] = @ + 1]
    /\ args' = [args EXCEPT ![s]["tcp"] =
                   [req |-> Parse(Head(tcp[s]).msg), conn |-> Head(tcp[s]).conn]]
    /\ Spawn(s, "tcp")
    /\ UNCHANGED <<up, udp, sock, inbox, next, books, job, lossCount>>

ExpireOnAccept(s) == Accepts(s, "Normal") /\ Expired(s) /\ Down(s)

\* Sync_Sent: keep the request as sent, and pass the same text on.
AcceptSyncSent(s) ==
    LET m == Head(tcp[s]).msg IN
    /\ Accepts(s, "SyncSent")
    /\ ~isTail(s) => NextUp(s)
    /\ buf' = [buf EXCEPT ![s] = m]
    /\ sent' = [sent EXCEPT ![s] = AddsentTrans(Parse(m), @)]
    /\ LET rest == [tcp EXCEPT ![s] = Tail(@)]
       IN  tcp' = IF isTail(s) THEN rest
                  ELSE [rest EXCEPT ![next[s]] =
                           Append(@, [msg |-> m, conn |-> NoConn])]
    /\ UNCHANGED <<up, udp, sock, inbox, next, acct, proc, applied, args, thr,
                   job, msgCount, lossCount>>

\* The same when the next server is gone: connect fails, the error is only
\* printed, and write goes to a socket that is not connected. It reports an
\* error, or raises the SIGPIPE that nothing catches.
AcceptSyncSentNoNext(s) ==
    LET m == Head(tcp[s]).msg IN
    /\ Accepts(s, "SyncSent")
    /\ ~isTail(s) /\ ~NextUp(s)
    /\ \/ /\ TakePacket(s)
          /\ sent' = [sent EXCEPT ![s] = AddsentTrans(Parse(m), @)]
          /\ UNCHANGED <<up, udp, sock, inbox, next, acct, proc, applied, args,
                         thr, job, msgCount, lossCount>>
       \/ Down(s)

Credit(s, r, bal) ==
    /\ acct' = [acct EXCEPT ![s][r.acct] = bal]
    /\ applied' = [applied EXCEPT ![s][r.id] = @ + 1]

\* Sync_Hist: process, add to sentTrans and move on to procTrans, while no
\* thread of the server runs.
AcceptSyncProc(s) ==
    LET r == Parse(Head(tcp[s]).msg)
        cur == acct[s][r.acct]
        added == AddsentTrans(r, sent[s])
    IN  /\ PromptThreads
        /\ Accepts(s, "SyncProc")
        /\ TakePacket(s)
        /\ IF Applies(r, CheckHist(r, proc[s]), cur)
           THEN Credit(s, r, NewBal(r, cur))
           ELSE UNCHANGED <<acct, applied>>
        /\ sent' = [sent EXCEPT ![s] = AckSent(r, added)]
        /\ proc' = [proc EXCEPT ![s] = AckProc(r, added, @)]
        /\ UNCHANGED <<up, udp, sock, inbox, next, args, thr, job, msgCount,
                       lossCount>>

\* The same beside running threads: main starts a thread and joins it.
HistThread(s, m) ==
    LET free == {t \in ThreadId : thr[s][t].pc = "idle"}
    IN  /\ free # {}
        /\ thr' = [thr EXCEPT ![s][CHOOSE t \in free : TRUE] =
                      [Idle EXCEPT !.pc = "check", !.role = "Hist", !.req = Parse(m)]]

StartSyncHist(s) ==
    /\ Accepts(s, "SyncProc")
    /\ TakePacket(s)
    /\ HistThread(s, Head(tcp[s]).msg)
    /\ UNCHANGED <<up, udp, sock, inbox, next, books, args, job, msgCount,
                   lossCount>>

\* The connection of a server that ended between connect and write: read
\* returns 0, which is no error to main, and what the buffer held before is
\* parsed and classified once more.
ReadsNothing(s, k) ==
    LET c == Head(tcp[s]).conn
    IN  /\ tcp[s] # <<>>
        /\ Head(tcp[s]).msg = Nothing
        /\ thr[c.srv][c.thr].pc # "write"
        /\ Listening(s)
        /\ k \in SyncTypes(buf[s])

EmptyRequest(s) ==
    /\ ReadsNothing(s, "Normal")
    /\ ~Expired(s)
    /\ tcp' = [tcp EXCEPT ![s] = Tail(@)]
    /\ msgCount' = [msgCount EXCEPT ![s] = @ + 1]
    /\ args' = [args EXCEPT ![s]["tcp"] =
                   [req |-> Parse(buf[s]), conn |-> Head(tcp[s]).conn]]
    /\ Spawn(s, "tcp")
    /\ UNCHANGED <<up, udp, sock, inbox, next, books, buf, job, lossCount>>

EmptySyncSent(s) ==
    /\ ReadsNothing(s, "SyncSent")
    /\ sent' = [sent EXCEPT ![s] = AddsentTrans(Parse(buf[s]), @)]
    /\ LET rest == [tcp EXCEPT ![s] = Tail(@)]
       IN  tcp' = IF NextUp(s)
                  THEN [rest EXCEPT ![next[s]] =
                           Append(@, [msg |-> buf[s], conn |-> NoConn])]
                  ELSE rest
    /\ UNCHANGED <<up, udp, sock, inbox, next, acct, proc, applied, buf, args,
                   thr, job, msgCount, lossCount>>

EmptySyncHist(s) ==
    /\ ReadsNothing(s, "SyncProc")
    /\ tcp' = [tcp EXCEPT ![s] = Tail(@)]
    /\ HistThread(s, buf[s])
    /\ UNCHANGED <<up, udp, sock, inbox, next, books, buf, args, job, msgCount,
                   lossCount>>

\* It ends main at its life time, or when it cannot pass the text on.
EmptyDown(s) ==
    /\ \/ ReadsNothing(s, "Normal") /\ Expired(s)
       \/ ReadsNothing(s, "SyncSent") /\ ~isTail(s) /\ ~NextUp(s)
    /\ Down(s)

-----------------------------------------------------------------------------
(* The synchronization of a new next server, one connection per request.   *)
(* The loops break off when the next server refuses the connection.        *)

\* The entries of the list, as it is now, that the iteration has not reached.
Unsent(s) == sent[s] \ job[s].sent

SyncSentTrans(s) ==
    /\ up[s] /\ job[s].on /\ job[s].walk /\ NextUp(s)
    /\ \E r \in Unsent(s) :
          /\ Connect(next[s], Push("SyncSent", r), NoConn)
          /\ job' = [job EXCEPT ![s].sent = @ \cup {r}]
    /\ UNCHANGED <<up, udp, sock, inbox, next, books, buf, args, thr, msgCount,
                   lossCount>>

\* The iteration has come to the end of the list.
SyncSentEnd(s) ==
    /\ up[s] /\ job[s].on /\ job[s].walk /\ Unsent(s) = {}
    /\ job' = [job EXCEPT ![s].walk = FALSE]
    /\ UNCHANGED <<wireVars, next, books, buf, args, thr, msgCount, lossCount>>

\* Mutant: off by one.
AheadSkips(s) == {q \in proc[s] : Rank[q.id] > job[s].last + 1}

\* The entries of the map that the iteration has not reached.
Ahead(s) == {q \in proc[s] : Rank[q.id] > job[s].last}

SyncProcTrans(s) ==
    /\ up[s] /\ job[s].on /\ ~job[s].walk /\ NextUp(s)
    /\ \E r \in Ahead(s) :
          /\ \A q \in Ahead(s) : Rank[r.id] <= Rank[q.id]
          /\ Connect(next[s], Push("SyncProc", r), NoConn)
          /\ job' = [job EXCEPT ![s].last = Rank[r.id]]
    /\ UNCHANGED <<up, udp, sock, inbox, next, books, buf, args, thr, msgCount,
                   lossCount>>

SyncDone(s) ==
    /\ up[s] /\ job[s].on
    /\ NextUp(s) => ~job[s].walk /\ Ahead(s) = {}
    /\ job' = [job EXCEPT ![s] = NoJob]
    /\ UNCHANGED <<wireVars, next, books, buf, args, thr, msgCount, lossCount>>

-----------------------------------------------------------------------------
(* Threads. T stands for the locals of thread t, A for main's ARGS as they *)
(* are when the thread looks.                                              *)

At(s, t, pc) == up[s] /\ thr[s][t].pc = pc

Args(s, t) == args[s][thr[s][t].chan]

Goto(s, t, pc) == thr' = [thr EXCEPT ![s][t].pc = pc]

Ends(s, t) == thr' = [thr EXCEPT ![s][t] = Idle]

\* The thread table TT after server s wrote an ACK on connection c, if its
\* other end still waits for one. Writing closes the connection.
Acked(TT, s, c) ==
    IF /\ c.srv \in Server
       /\ TT[c.srv][c.thr].peer = s
       /\ TT[c.srv][c.thr].ack = "none"
    THEN [TT EXCEPT ![c.srv][c.thr].ack = "acked"]
    ELSE TT

\* Sync: connect to the next server and forward what is now in the buffer.
\* The loop may have made this server the tail since: next is then NULL.
SyncConnect(s, t) ==
    /\ PromptThreads
    /\ At(s, t, "connect") /\ ~isTail(s)
    /\ IF NextUp(s)
       THEN /\ Connect(next[s], buf[s], [srv |-> s, thr |-> t])
            /\ thr' = [thr EXCEPT ![s][t].pc = "add", ![s][t].peer = next[s]]
       ELSE Ends(s, t) /\ UNCHANGED tcp
    /\ UNCHANGED <<up, udp, sock, inbox, next, books, buf, args, job, msgCount,
                   lossCount>>

\* The same in two steps, with the buffer overwritten or the server ended in
\* between.
SyncOpen(s, t) ==
    /\ At(s, t, "connect") /\ ~isTail(s)
    /\ IF NextUp(s)
       THEN /\ Connect(next[s], Nothing, [srv |-> s, thr |-> t])
            /\ thr' = [thr EXCEPT ![s][t].pc = "write", ![s][t].peer = next[s]]
       ELSE Ends(s, t) /\ UNCHANGED tcp
    /\ UNCHANGED <<up, udp, sock, inbox, next, books, buf, args, job, msgCount,
                   lossCount>>

\* The text goes on the open connection. If the other end is gone write fails,
\* or is told of it only by what it has written.
SyncWrite(s, t) ==
    LET T == thr[s][t]
        written(q) == IF q.msg = Nothing /\ q.conn = [srv |-> s, thr |-> t]
                      THEN [q EXCEPT !.msg = buf[s]] ELSE q
    IN  /\ At(s, t, "write")
        /\ IF T.ack = "none"
           THEN /\ tcp' = [tcp EXCEPT ![T.peer] = [i \in DOMAIN @ |-> written(@[i])]]
                /\ Goto(s, t, "add")
           ELSE /\ Ends(s, t) \/ Goto(s, t, "add")
                /\ UNCHANGED tcp
        /\ UNCHANGED <<up, udp, sock, inbox, next, books, buf, args, job,
                       msgCount, lossCount>>

SyncNullNext(s, t) == At(s, t, "connect") /\ isTail(s) /\ Down(s)

\* Mutant: the forwarded request is not added to sentTrans.
SyncAddForgets(s, t) ==
    /\ At(s, t, "add")
    /\ Goto(s, t, "wait")
    /\ UNCHANGED <<wireVars, next, books, buf, args, job, msgCount, lossCount>>

SyncAdd(s, t) ==
    /\ At(s, t, "add")
    /\ sent' = [sent EXCEPT ![s] = AddsentTrans(Args(s, t).req, @)]
    /\ Goto(s, t, "wait")
    /\ UNCHANGED <<wireVars, next, acct, proc, applied, buf, args, job,
                   msgCount, lossCount>>

\* readline returned nothing: the thread ends, and leaves the connection to
\* the previous server open, so that the thread there waits on.
SyncEof(s, t) ==
    /\ At(s, t, "wait") /\ thr[s][t].ack = "eof"
    /\ Ends(s, t)
    /\ UNCHANGED <<wireVars, next, books, buf, args, job, msgCount, lossCount>>

\* An ACK, whichever: hand it to the previous server, then process.
SyncAcked(s, t) ==
    /\ PromptThreads
    /\ At(s, t, "wait") /\ thr[s][t].ack = "acked"
    /\ thr' = [Acked(thr, s, Args(s, t).conn) EXCEPT
                  ![s][t] = [Idle EXCEPT !.pc = "check", !.role = "Sync",
                                !.chan = thr[s][t].chan,
                                !.req = Args(s, t).req]]
    /\ UNCHANGED <<wireVars, next, books, buf, args, job, msgCount, lossCount>>

\* The same while main may be writing to ARGS: the connection is read from
\* it first, and the request when the ACK has been handed on.
SyncPassAck(s, t) ==
    /\ At(s, t, "wait") /\ thr[s][t].ack = "acked"
    /\ thr' = [Acked(thr, s, Args(s, t).conn) EXCEPT
                  ![s][t] = [Idle EXCEPT !.pc = "passed", !.role = "Sync",
                                !.chan = thr[s][t].chan]]
    /\ UNCHANGED <<wireVars, next, books, buf, args, job, msgCount, lossCount>>

\* Mutant: the thread goes to its history without ProcReq.
SyncTakeUnprocessed(s, t) ==
    /\ At(s, t, "passed")
    /\ thr' = [thr EXCEPT ![s][t].pc = "hist", ![s][t].req = Args(s, t).req]
    /\ UNCHANGED <<wireVars, next, books, buf, args, job, msgCount, lossCount>>

SyncTake(s, t) ==
    /\ At(s, t, "passed")
    /\ thr' = [thr EXCEPT ![s][t].pc = "check", ![s][t].req = Args(s, t).req]
    /\ UNCHANGED <<wireVars, next, books, buf, args, job, msgCount, lossCount>>

\* Reply: take the client's address from the buffer, the request from ARGS.
ReplyStart(s, t) ==
    /\ At(s, t, "start")
    /\ thr' = [thr EXCEPT ![s][t].pc = "check", ![s][t].req = Args(s, t).req,
                          ![s][t].dest = Address(buf[s])]
    /\ UNCHANGED <<wireVars, next, books, buf, args, job, msgCount, lossCount>>

\* ProcReq: look up the history and the balance ...
ProcCheck(s, t) ==
    LET r == thr[s][t].req IN
    /\ At(s, t, "check")
    /\ thr' = [thr EXCEPT ![s][t].pc = "apply",
                          ![s][t].hist = CheckHist(r, proc[s]),
                          ![s][t].bal = acct[s][r.acct]]
    /\ UNCHANGED <<wireVars, next, books, buf, args, job, msgCount, lossCount>>

\* ... and write the balance that follows from what was looked up.
ProcApply(s, t) ==
    LET T == thr[s][t] IN
    /\ At(s, t, "apply")
    /\ IF Applies(T.req, T.hist, T.bal)
       THEN Credit(s, T.req, NewBal(T.req, T.bal))
       ELSE UNCHANGED <<acct, applied>>
    /\ \E o \in Outcomes(T.req, T.hist, T.bal) :
          thr' = [thr EXCEPT ![s][t].pc = IF T.role = "Reply" THEN "send" ELSE "hist",
                             ![s][t].outcome = o,
                             ![s][t].bal = ReplyBal(T.req, T.hist, T.bal)]
    /\ UNCHANGED <<wireVars, next, sent, proc, buf, args, job, msgCount, lossCount>>

ReplySend(s, t) ==
    LET T == thr[s][t] IN
    /\ At(s, t, "send") /\ T.dest # NoClient
    /\ ToClient(T.dest, Reply(T.req.id, T.outcome, T.bal))
    /\ Goto(s, t, "hist")
    /\ UNCHANGED <<up, udp, tcp, sock, next, books, buf, args, job, msgCount,
                   lossCount>>

\* Sendto exits the process when the kernel refuses the zeroed address.
ReplyNowhere(s, t) ==
    At(s, t, "send") /\ thr[s][t].dest = NoClient /\ Down(s)

\* AddsentTrans and AckHist of the Reply thread.
ReplyHist(s, t) ==
    LET r == Args(s, t).req
        added == AddsentTrans(r, sent[s])
    IN  /\ PromptThreads
        /\ At(s, t, "hist") /\ thr[s][t].role = "Reply"
        /\ sent' = [sent EXCEPT ![s] = AckSent(r, added)]
        /\ proc' = [proc EXCEPT ![s] = AckProc(r, added, @)]
        /\ Goto(s, t, "ack")
        /\ UNCHANGED <<wireVars, next, acct, applied, buf, args, job, msgCount,
                       lossCount>>

\* The request a thread goes by now: main has made the ARGS of a Sync_Hist
\* thread for it alone, and waits for it.
Asked(s, t) == IF thr[s][t].role = "Hist" THEN thr[s][t].req ELSE Args(s, t).req

\* The two of Reply and of Sync_Hist while main and other threads go on: each
\* reads ARGS for itself.
AddSent(s, t) ==
    /\ At(s, t, "hist") /\ thr[s][t].role # "Sync"
    /\ sent' = [sent EXCEPT ![s] = AddsentTrans(Asked(s, t), @)]
    /\ Goto(s, t, "take")
    /\ UNCHANGED <<wireVars, next, acct, proc, applied, buf, args, job,
                   msgCount, lossCount>>

AckHist(s, t) ==
    LET r == Asked(s, t)
    IN  /\ At(s, t, "take")
        /\ sent' = [sent EXCEPT ![s] = AckSent(r, @)]
        /\ proc' = [proc EXCEPT ![s] = AckProc(r, sent[s], @)]
        /\ IF thr[s][t].role = "Reply" THEN Goto(s, t, "ack") ELSE Ends(s, t)
        /\ UNCHANGED <<wireVars, next, acct, applied, buf, args, job, msgCount,
                       lossCount>>

\* Mutant: the request leaves sentTrans and does not enter procTrans.
SyncHistForgets(s, t) ==
    LET r == Args(s, t).req
    IN  /\ At(s, t, "hist") /\ thr[s][t].role = "Sync"
        /\ sent' = [sent EXCEPT ![s] = AckSent(r, @)]
        /\ Ends(s, t)
        /\ UNCHANGED <<wireVars, next, acct, proc, applied, buf, args, job,
                       msgCount, lossCount>>

\* AckHist of the Sync thread, which then closes its connection and ends.
SyncHist(s, t) ==
    LET r == Args(s, t).req
    IN  /\ At(s, t, "hist") /\ thr[s][t].role = "Sync"
        /\ sent' = [sent EXCEPT ![s] = AckSent(r, @)]
        /\ proc' = [proc EXCEPT ![s] = AckProc(r, sent[s], @)]
        /\ Ends(s, t)
        /\ UNCHANGED <<wireVars, next, acct, applied, buf, args, job, msgCount,
                       lossCount>>

ReplyAck(s, t) ==
    /\ At(s, t, "ack")
    /\ thr' = [Acked(thr, s, Args(s, t).conn) EXCEPT ![s][t] = Idle]
    /\ UNCHANGED <<wireVars, next, books, buf, args, job, msgCount, lossCount>>

-----------------------------------------------------------------------------
MainLoop(s) ==
    \/ RecvNotification(s) \/ DropRequest(s) \/ RecvRequest(s)
    \/ ExpireOnRequest(s) \/ AcceptRequest(s) \/ ExpireOnAccept(s)
    \/ AcceptSyncSent(s) \/ AcceptSyncSentNoNext(s) \/ AcceptSyncProc(s)

Synchronize(s) ==
    \/ SyncSentTrans(s) \/ SyncSentEnd(s) \/ SyncProcTrans(s) \/ SyncDone(s)

ThreadStep(s, t) ==
    \/ SyncConnect(s, t) \/ SyncNullNext(s, t) \/ SyncAdd(s, t)
    \/ SyncEof(s, t) \/ SyncAcked(s, t) \/ SyncHist(s, t)
    \/ ReplyStart(s, t) \/ ProcCheck(s, t) \/ ProcApply(s, t)
    \/ ReplySend(s, t) \/ ReplyNowhere(s, t) \/ ReplyHist(s, t)
    \/ ReplyAck(s, t)

\* What main and a thread do only without PromptThreads.
MainOverlap(s) ==
    \/ StartSyncHist(s) \/ EmptyRequest(s) \/ EmptySyncSent(s)
    \/ EmptySyncHist(s) \/ EmptyDown(s)

ThreadOverlap(s, t) ==
    \/ SyncOpen(s, t) \/ SyncWrite(s, t) \/ SyncPassAck(s, t) \/ SyncTake(s, t)
    \/ AddSent(s, t) \/ AckHist(s, t)

ServerTypeOK ==
    /\ next \in [Server -> Server \cup {NoServer}]
    /\ acct \in [Server -> [Account -> Int]]
    /\ sent \in [Server -> SUBSET Request]
    /\ proc \in [Server -> SUBSET Request]
    /\ buf \in [Server -> Text]
    /\ args \in [Server -> [Chan -> ArgsSet]]
    /\ thr \in [Server -> [ThreadId -> Thread]]
    /\ job \in [Server -> JobSet]
    /\ msgCount \in [Server -> Nat]
    /\ lossCount \in [Server -> Nat]
    /\ applied \in [Server -> [Id -> Nat]]

\* A server takes the server on the line after its own for its next, unless
\* that one has a startup delay.
ServerInit(lines, spare) ==
    /\ next = [s \in Server |->
                  IF \E i \in 1..(Len(lines) - 1) :
                        lines[i] = s /\ lines[i + 1] \notin spare
                  THEN lines[1 + CHOOSE i \in 1..(Len(lines) - 1) : lines[i] = s]
                  ELSE NoServer]
    /\ acct = [s \in Server |-> NoBooks]
    /\ sent = [s \in Server |-> {}]
    /\ proc = [s \in Server |-> {}]
    /\ buf = [s \in Server |-> Raw(BlankReq)]
    /\ args = [s \in Server |-> [c \in Chan |-> NoArgs]]
    /\ thr = [s \in Server |-> [t \in ThreadId |-> Idle]]
    /\ job = [s \in Server |-> NoJob]
    /\ msgCount = [s \in Server |-> 0]
    /\ lossCount = [s \in Server |-> 0]
    /\ applied = [s \in Server |-> NeverApplied]
=============================================================================
