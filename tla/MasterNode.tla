----------------------------- MODULE MasterNode -----------------------------
(***************************************************************************)
(* The master: the chain it keeps and what it tells clients and servers    *)
(* when a server has failed or joined.                                     *)
(*                                                                         *)
(* One thread probes, and a thread of its own handles each ping. None of   *)
(* them takes a lock. With PromptMaster they leave each other alone: the   *)
(* test for a server and its addition are one step, and so is              *)
(* server_notify; a notice stands for a thread between client_notify and   *)
(* server_notify. Without it each of their accesses to the chain is a step *)
(* of its own, and desk is where each thread has got to.                   *)
(*                                                                         *)
(* In both the pings arrive in time, as Detector has it: probing finds a   *)
(* server failed only when it is down.                                     *)
(***************************************************************************)
EXTENDS Wire

CONSTANTS
    PromptMaster,  \* the timing of the master's threads is assumed
    MaxHands       \* bound: threads that handle a ping at the same time

ASSUME MasterAssumption ==
    /\ PromptMaster \in BOOLEAN
    /\ MaxHands \in Nat

VARIABLES
    chain,    \* sChain of the bank: head first
    links,    \* links[i]: next of the Server object chain[i]
    sheet,    \* servers with an entry in time_sheet
    notices,  \* notifications of which client_notify is done
    desk      \* desk[m]: what thread m is at and its locals

masterVars == <<chain, links, sheet, notices, desk>>

Notice == [kind: {"Fail", "Extension"}, srv: Server]

Probing == 0

Hands == 1..MaxHands

MasterThread == {Probing} \cup Hands

\* Before Addserver, client_notify, Search_Prev_Server, cal_next,
\* Search_Next_Server and Sendto.
TaskPc == {"add", "clients", "prev", "links", "next", "send"}

NoTask == [at |-> "idle", kind |-> "Fail", srv |-> NoServer, prev |-> NoServer,
           link |-> NoServer]

Task ==
    {NoTask} \cup
    [at: TaskPc, kind: {"Fail", "Extension"}, srv: Server,
     prev: Server \cup {NoServer}, link: Server \cup {NoServer}]

AtRest == \A m \in MasterThread : desk[m] = NoTask

InChain(s) == \E i \in DOMAIN chain : chain[i] = s

IndexOf(s) == CHOOSE i \in DOMAIN chain :
                 chain[i] = s /\ \A j \in 1..(i - 1) : chain[j] # s

\* cal_next: the links of the chain c.
LinksOf(c) == [i \in DOMAIN c |-> IF i < Len(c) THEN c[i + 1] ELSE NoServer]

\* The type of the notification to the server before. server_notify knows no
\* Fail: the text is an Extension or a New_Next.
NotiOf(kind) == IF kind = "Fail" THEN "New_Next" ELSE "Extension"

-----------------------------------------------------------------------------
(* Threads that leave each other alone.                                    *)

\* probing: the last ping of s is more than five seconds old. There is one
\* probing thread, and it takes the failed servers one at a time.
DetectFail(s) ==
    /\ s \in sheet /\ ~up[s]
    /\ \A n \in notices : n.kind # "Fail"
    /\ ToClients(Noti("Fail", s))
    /\ notices' = notices \cup {[kind |-> "Fail", srv |-> s]}
    /\ UNCHANGED <<chain, links, sheet, desk, up, udp, tcp, sock>>

\* Mutant: the new server is put at the head of the chain.
DetectJoinAtHead(s) ==
    /\ up[s] /\ ~InChain(s)
    /\ chain' = <<s>> \o chain
    /\ links' = <<NoServer>> \o links
    /\ sheet' = sheet \cup {s}
    /\ ToClients(Noti("Extension", s))
    /\ notices' = notices \cup {[kind |-> "Extension", srv |-> s]}
    /\ UNCHANGED <<desk, up, udp, tcp, sock>>

\* handle_ping: a ping from a server that is not in the chain.
DetectJoin(s) ==
    /\ up[s] /\ ~InChain(s)
    /\ chain' = Append(chain, s)
    /\ links' = Append(links, NoServer)
    /\ sheet' = sheet \cup {s}
    /\ ToClients(Noti("Extension", s))
    /\ notices' = notices \cup {[kind |-> "Extension", srv |-> s]}
    /\ UNCHANGED <<desk, up, udp, tcp, sock>>

\* Search_Prev_Server takes s out of the list.
Removed(s) ==
    LET i == IndexOf(s)
    IN  SubSeq(chain, 1, i - 1) \o SubSeq(chain, i + 1, Len(chain))

\* Mutant: the next server is looked for before the failed one is removed.
ServerNotifyStale(n) ==
    LET i == IndexOf(n.srv)
    IN  /\ n \in notices
        /\ notices' = notices \ {n}
        /\ IF InChain(n.srv)
           THEN /\ chain' = IF n.kind = "Fail" THEN Removed(n.srv) ELSE chain
                /\ IF i = 1 THEN UNCHANGED udp
                   ELSE ToServer(chain[i - 1], Noti(NotiOf(n.kind), chain[i]))
           ELSE UNCHANGED <<chain, udp>>
        /\ links' = LinksOf(chain')
        /\ sheet' = IF n.kind = "Fail" THEN sheet \ {n.srv} ELSE sheet
        /\ UNCHANGED <<desk, up, tcp, sock, inbox>>

\* server_notify: the server before s, if there is one, is told its next
\* after the links have been computed anew. A server that joined and failed
\* again may be gone from the chain when the thread of its joining gets here.
\* probing erases the entry of a failed server afterwards.
ServerNotify(n) ==
    LET i    == IndexOf(n.srv)
        now  == IF n.kind = "Fail" THEN Removed(n.srv) ELSE chain
        link == IF i \in DOMAIN now THEN now[i] ELSE NoServer
    IN  /\ n \in notices
        /\ notices' = notices \ {n}
        /\ IF InChain(n.srv)
           THEN /\ chain' = now
                /\ IF i = 1 THEN UNCHANGED udp
                   ELSE ToServer(chain[i - 1], Noti(NotiOf(n.kind), link))
           ELSE UNCHANGED <<chain, udp>>
        /\ links' = LinksOf(chain')
        /\ sheet' = IF n.kind = "Fail" THEN sheet \ {n.srv} ELSE sheet
        /\ UNCHANGED <<desk, up, tcp, sock, inbox>>

-----------------------------------------------------------------------------
(* Threads that overlap. A call that walks or changes the list is a step:  *)
(* what two threads inside std::list at one moment may do is left out.     *)

Begin(m, pc, kind, s) ==
    desk' = [desk EXCEPT ![m] = [NoTask EXCEPT !.at = pc, !.kind = kind, !.srv = s]]

Onward(m, pc) == desk' = [desk EXCEPT ![m].at = pc]

\* server_notify returns, and probing erases the entry.
Return(m) ==
    /\ desk' = [desk EXCEPT ![m] = NoTask]
    /\ sheet' = IF desk[m].kind = "Fail" THEN sheet \ {desk[m].srv} ELSE sheet

\* handle_ping: update_time_sheet, and Server_exists says no.
PingMissing(m, s) ==
    /\ m \in Hands /\ desk[m] = NoTask
    /\ up[s] /\ ~InChain(s)
    /\ sheet' = sheet \cup {s}
    /\ Begin(m, "add", "Extension", s)
    /\ UNCHANGED <<wireVars, chain, links, notices>>

\* Addserver, whatever was added since.
PingAdd(m) ==
    /\ desk[m].at = "add"
    /\ chain' = Append(chain, desk[m].srv)
    /\ links' = Append(links, NoServer)
    /\ Onward(m, "clients")
    /\ UNCHANGED <<wireVars, sheet, notices>>

\* probing: the last ping of s is more than five seconds old.
ProbeFind(s) ==
    /\ desk[Probing] = NoTask
    /\ s \in sheet /\ ~up[s]
    /\ Begin(Probing, "clients", "Fail", s)
    /\ UNCHANGED <<wireVars, chain, links, sheet, notices>>

ClientNotify(m) ==
    /\ desk[m].at = "clients"
    /\ ToClients(Noti(desk[m].kind, desk[m].srv))
    /\ Onward(m, "prev")
    /\ UNCHANGED <<up, udp, tcp, sock, chain, links, sheet, notices>>

\* Search_Prev_Server, which also removes a failed server. It finds nothing
\* when the server has gone or is the head.
SearchPrev(m) ==
    LET s == desk[m].srv
        i == IndexOf(s)
    IN  /\ desk[m].at = "prev"
        /\ IF InChain(s) /\ desk[m].kind = "Fail"
           THEN /\ chain' = Removed(s)
                /\ links' = SubSeq(links, 1, i - 1) \o SubSeq(links, i + 1, Len(links))
           ELSE UNCHANGED <<chain, links>>
        /\ desk' = [desk EXCEPT ![m].at = "links",
                       ![m].prev = IF InChain(s) /\ i > 1 THEN chain[i - 1] ELSE NoServer]
        /\ UNCHANGED <<wireVars, sheet, notices>>

CalNext(m) ==
    /\ desk[m].at = "links"
    /\ links' = LinksOf(chain)
    /\ IF desk[m].prev = NoServer THEN Return(m)
       ELSE Onward(m, "next") /\ UNCHANGED sheet
    /\ UNCHANGED <<wireVars, chain, notices>>

SearchNext(m) ==
    LET p == desk[m].prev IN
    /\ desk[m].at = "next"
    /\ desk' = [desk EXCEPT ![m].at = "send",
                   ![m].link = IF InChain(p) THEN links[IndexOf(p)] ELSE NoServer]
    /\ UNCHANGED <<wireVars, chain, links, sheet, notices>>

SendNext(m) ==
    /\ desk[m].at = "send"
    /\ ToServer(desk[m].prev, Noti(NotiOf(desk[m].kind), desk[m].link))
    /\ Return(m)
    /\ UNCHANGED <<up, tcp, sock, inbox, chain, links, notices>>

MasterStep(m) ==
    \/ \E s \in Server : PingMissing(m, s)
    \/ m = Probing /\ \E s \in Server : ProbeFind(s)
    \/ PingAdd(m) \/ ClientNotify(m) \/ SearchPrev(m) \/ CalNext(m)
    \/ SearchNext(m) \/ SendNext(m)

-----------------------------------------------------------------------------
MasterTypeOK ==
    /\ chain \in Seq(Server)
    /\ links \in Seq(Server \cup {NoServer}) /\ Len(links) = Len(chain)
    /\ sheet \in SUBSET Server
    /\ notices \in SUBSET Notice
    /\ desk \in [MasterThread -> Task]

\* The servers of the file have pinged by the time anything happens to them.
MasterInit(servers) ==
    /\ chain = servers
    /\ links = LinksOf(servers)
    /\ sheet = {servers[i] : i \in DOMAIN servers}
    /\ notices = {}
    /\ desk = [m \in MasterThread |-> NoTask]
=============================================================================
