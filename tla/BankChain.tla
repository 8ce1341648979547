----------------------------- MODULE BankChain ------------------------------
(***************************************************************************)
(* One bank: its servers, the client process and the master, started from  *)
(* one configuration file.                                                 *)
(*                                                                         *)
(* PatientClients, PromptThreads and PromptMaster are the timing the       *)
(* program counts on. Handling a message takes far less than the seconds   *)
(* the clients sleep, so a client sends, sends again or gives up only when *)
(* nothing else is going on; a thread is through with the argument and     *)
(* buffer of main before main takes the next message; and the threads of   *)
(* the master do not overlap in the chain. Without them every interleaving *)
(* of the processes and threads is there. The failure detector is in time  *)
(* in all of them: what it needs for that is the subject of Detector.      *)
(***************************************************************************)
EXTENDS ServerNode, ClientNode, MasterNode

CONSTANTS
    Lines,       \* the servers of the bank in the order of the file
    Spare,       \* those with a startup delay
    FaultDelay,  \* fault_delay
    PatientClients,  \* the timing of the clients is assumed
    MaxKills     \* bound: how many servers are killed by a signal

\* The chain the master and the clients read from the file.
Configured == SelectSeq(Lines, LAMBDA s : s \notin Spare)

\* The chain of the file names a server once, and no delayed one. This follows
\* from what is said of Lines, but not for a prover to which SelectSeq is closed.
ASSUME BankAssumption ==
    /\ Lines \in Seq(Server)
    /\ \A i, j \in DOMAIN Lines : Lines[i] = Lines[j] => i = j
    /\ Configured \in Seq(Server)
    /\ \A i, j \in DOMAIN Configured : Configured[i] = Configured[j] => i = j
    /\ \A i \in DOMAIN Configured : Configured[i] \notin Spare
    /\ Spare \subseteq Server
    /\ FaultDelay \in Nat
    /\ PatientClients \in BOOLEAN
    /\ MaxKills \in Nat

VARIABLES
    asleep,   \* spare servers still in their startup delay
    kills     \* how many servers have been killed

vars == <<wireVars, serverVars, clientVars, masterVars, asleep, kills>>

Init ==
    /\ up = [s \in Server |-> s \notin Spare]
    /\ udp = [s \in Server |-> <<>>]
    /\ tcp = [s \in Server |-> <<>>]
    /\ sock = NoClient
    /\ inbox = <<>>
    /\ ServerInit(Lines, Spare)
    /\ ClientInit(Configured)
    /\ MasterInit(Configured)
    /\ asleep = Spare
    /\ kills = 0

-----------------------------------------------------------------------------
Busy(s) == \E t \in ThreadId : Runnable(s, t)

\* Nothing is under way at any server, and the master is not in the middle
\* of a notification.
Quiet ==
    /\ notices = {} /\ AtRest
    /\ \A s \in Server :
          up[s] => udp[s] = <<>> /\ tcp[s] = <<>> /\ ~job[s].on /\ ~Busy(s)

\* Four waits of retrans_inteval seconds outlast the detection of a failure.
Detected == \A i \in DOMAIN chain : up[chain[i]]

BankStart(s) ==
    /\ s \in asleep
    /\ asleep' = asleep \ {s}
    /\ up' = [up EXCEPT ![s] = TRUE]
    /\ UNCHANGED <<udp, tcp, sock, inbox, serverVars, clientVars, masterVars,
                   kills>>

BankKill(s) ==
    /\ kills < MaxKills
    /\ kills' = kills + 1
    /\ Kill(s)
    /\ UNCHANGED <<clientVars, masterVars, asleep>>

BankMain(s) ==
    /\ PromptThreads => ~Busy(s)
    /\ MainLoop(s) \/ Synchronize(s)
    /\ UNCHANGED <<clientVars, masterVars, asleep, kills>>

BankThread(s, t) ==
    /\ ThreadStep(s, t)
    /\ UNCHANGED <<clientVars, masterVars, asleep, kills>>

\* A second of sleep, the fault delay and the retransmission interval.
BankTimer ==
    /\ \/ OpenSocket
       \/ SendRequest /\ (PatientClients => Quiet \/ (cpc = "delay" /\ FaultDelay = 0))
       \/ Resend /\ (PatientClients => Quiet)
       \/ GiveUp /\ (PatientClients => Quiet /\ Detected)
    /\ UNCHANGED <<serverVars, masterVars, asleep, kills>>

BankReceive ==
    /\ RecvReply \/ RecvFail \/ RecvExtension
    /\ UNCHANGED <<serverVars, masterVars, asleep, kills>>

BankMaster ==
    /\ PromptMaster
    /\ \/ \E s \in Server : DetectFail(s) \/ DetectJoin(s)
       \/ \E n \in notices : ServerNotify(n)
    /\ UNCHANGED <<serverVars, clientVars, asleep, kills>>

\* What there is besides when the threads of a server, or those of the master,
\* overlap.
BankOverlap(s) ==
    /\ ~PromptThreads
    /\ MainOverlap(s) \/ \E t \in ThreadId : ThreadOverlap(s, t)
    /\ UNCHANGED <<clientVars, masterVars, asleep, kills>>

BankMasterOverlap(m) ==
    /\ ~PromptMaster
    /\ MasterStep(m)
    /\ UNCHANGED <<serverVars, clientVars, asleep, kills>>

\* All requests are through. The servers go on waiting for more.
Finished == Over /\ Quiet /\ UNCHANGED vars

Next ==
    \/ \E s \in Server : BankStart(s) \/ BankKill(s) \/ BankMain(s)
    \/ \E s \in Server, t \in ThreadId : BankThread(s, t)
    \/ BankTimer \/ BankReceive \/ BankMaster
    \/ \E s \in Server : BankOverlap(s)
    \/ \E m \in MasterThread : BankMasterOverlap(m)
    \/ Finished

Spec == Init /\ [][Next]_vars

\* Processes and threads are scheduled, sleeps end, datagrams and connections
\* on one machine arrive, the master pings and probes for ever. Nobody is
\* bound to kill a server. No process or thread runs for ever without the
\* others, so it is enough that something goes on.
Progress ==
    \/ \E s \in Server : BankStart(s) \/ BankMain(s)
    \/ \E s \in Server, t \in ThreadId : BankThread(s, t)
    \/ BankTimer \/ BankReceive \/ BankMaster
    \/ \E s \in Server : BankOverlap(s)
    \/ \E m \in MasterThread : BankMasterOverlap(m)

FairSpec == Spec /\ WF_vars(Progress)

-----------------------------------------------------------------------------
(* What the properties speak about.                                        *)

Member(s) == up[s] /\ InChain(s)

\* Everything said has been heard, and every failure has been noticed.
Settled == Quiet /\ Detected

IsUpdate(r) == r.type \in {"Deposit", "Withdraw"}

Answered(p) == accepted[p] # NoReply

\* The updates whose own reply the client has received.
AnsweredUpdates ==
    {r.id : r \in {Script[p] : p \in {q \in DOMAIN Script :
        Answered(q) /\ IsUpdate(Script[q]) /\ accepted[q].id = Script[q].id}}}

\* The bank as a single process that serves the script in order: its books
\* after the first p requests.
Ideal ==
    LET serve(B, r) ==
            LET hist == CheckHist(r, B.proc)
                cur  == B.acct[r.acct]
            IN  [acct |-> IF Applies(r, hist, cur)
                          THEN [B.acct EXCEPT ![r.acct] = NewBal(r, cur)]
                          ELSE B.acct,
                 proc |-> IF hist = "New" /\ r.type # "Query"
                          THEN B.proc \cup {r} ELSE B.proc]
        after[p \in 0..Len(Script)] ==
            IF p = 0 THEN [acct |-> NoBooks, proc |-> {}]
            ELSE serve(after[p - 1], Script[p])
    IN  after

\* The replies of that process to request p.
IdealReplies(p) ==
    LET r    == Script[p]
        hist == CheckHist(r, Ideal[p - 1].proc)
        cur  == Ideal[p - 1].acct[r.acct]
    IN  {Reply(r.id, o, ReplyBal(r, hist, cur)) : o \in Outcomes(r, hist, cur)}

Heard(s) == \A i \in DOMAIN udp[s] : udp[s][i].kind \notin NotiKind

-----------------------------------------------------------------------------
(* Safety.                                                                 *)

\* Every variable keeps its type.
TypeOK ==
    /\ WireTypeOK /\ ServerTypeOK /\ ClientTypeOK /\ MasterTypeOK
    /\ asleep \in SUBSET Spare
    /\ kills \in 0..MaxKills

\* No account is overdrawn at any server, even when threads of ProcReq
\* interleave between looking a balance up and writing it back, or a rejected
\* withdrawal is replayed to a new tail (server.h ProcReq).
NonNegative == \A s \in Server, a \in Account : acct[s][a] >= 0

\* The clients see one bank: as long as every request has been answered, the
\* replies are those of a single process that serves the script in order,
\* whatever was lost, sent again or taken over by another server.
SerialReplies ==
    \A p \in DOMAIN Script :
        (\A q \in 1..p : Answered(q)) => accepted[p] \in IdealReplies(p)

\* An update the client has seen answered is in the history of every server
\* of the chain once the chain has settled, so that no later failure of the
\* others can lose it (Sync, Reply, Sync_procTrans).
Durable ==
    Settled => \A s \in Server : Member(s) => AnsweredUpdates \subseteq IdsOf(proc[s])

\* The same when servers are killed at any moment: the update is at least
\* among the sent or the processed transactions of every server left.
Kept ==
    Settled => \A s \in Server :
        Member(s) => AnsweredUpdates \subseteq IdsOf(sent[s] \cup proc[s])

\* All servers of a settled chain have the same balances.
Agreed ==
    Settled => \A s, u \in Server : Member(s) /\ Member(u) => acct[s] = acct[u]

\* Balance and history of a server tell the same story when none of its
\* threads is between the two: what has changed the balance did so once and
\* is in the history, and a deposit in the history has changed the balance,
\* however often it was sent again, forwarded and synchronized (ProcReq,
\* AckHist).
Booked ==
    \A s \in Server : ~Busy(s) =>
        /\ \A i \in Id : applied[s][i] # 0 =>
              applied[s][i] = 1 /\ i \in IdsOf(proc[s])
        /\ \A r \in proc[s] : r.type = "Deposit" => applied[s][r.id] = 1

\* When the master has noticed every failure and finished its notifications,
\* a server that has read them forwards to its successor in the master's
\* chain, and the last one takes itself for the tail.
Linked ==
    notices = {} /\ AtRest /\ Detected =>
        \A i \in DOMAIN chain : Heard(chain[i]) =>
            next[chain[i]] = IF i < Len(chain) THEN chain[i + 1] ELSE NoServer

\* A server that stays up forgets nothing it has processed, and changes no
\* entry of it, whatever is acknowledged, repeated or synchronized later
\* under the same identifier (AckHist).
Remembered == [][\A s \in Server : up'[s] => proc[s] \subseteq proc'[s]]_vars

-----------------------------------------------------------------------------
(* Liveness.                                                               *)

\* Every request is answered in the end.
EveryRequestAnswered == \A p \in DOMAIN Script : <>Answered(p)

\* The client process comes to an end, whether its requests are answered, given
\* up, or the last server has failed under it.
Termination == <>Over

-----------------------------------------------------------------------------
(* What comments and messages of the program say, and it does not do.      *)

\* server.cpp:303, "synchronize every request in procTrans to next server".
EveryRequestSynchronized ==
    Settled => \A s \in Server :
        Member(s) /\ NextUp(s) => IdsOf(proc[s]) \subseteq IdsOf(proc[next[s]])

\* server.cpp:330, "ProcTrans synchronization to new Tail finished": the new
\* tail has the balances of the server before it.
NewTailSynchronized ==
    Settled => \A s \in Server : Member(s) /\ NextUp(s) => acct[next[s]] = acct[s]

\* master.cpp:146, "New server extended to the tail of chain": when all has
\* been said and heard, every server but the last of the chain forwards.
TailExtended ==
    Settled => \A i \in 1..(Len(chain) - 1) : ~isTail(chain[i])
=============================================================================
