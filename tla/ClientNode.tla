----------------------------- MODULE ClientNode -----------------------------
(***************************************************************************)
(* The client process: main runs the clients one after the other, SendReq  *)
(* sends the requests of one client one after the other, each until some   *)
(* reply arrives or the retransmissions are used up.                       *)
(*                                                                         *)
(* Script is what the process will send: consecutive requests of one       *)
(* client are the list of that client, whose address is in the request.    *)
(***************************************************************************)
EXTENDS Wire

CONSTANTS
    Script,       \* the requests of all clients, in the order of the threads
    RetransTime   \* retrans_time: how often a request is sent again

ASSUME ClientAssumption ==
    /\ Script \in Seq(Request)
    /\ Script # <<>>
    /\ \A p \in DOMAIN Script : Script[p].from \in Client
    /\ RetransTime \in Nat

VARIABLES
    cpc,       \* where the process is
    pos,       \* the request it is at
    retrans,   \* count_retrans
    view,      \* sChain of the bank: head first
    accepted   \* history: the reply each request was taken to have got

clientVars == <<cpc, pos, retrans, view, accepted>>

\* closed: between two clients, no socket bound. fresh: in the sleep before a
\* request. delay: in the sleep after the failure of a server. wait: at
\* readable_timeo. crashed: front() or back() of an empty list was used.
ClientPc == {"closed", "fresh", "delay", "wait", "done", "crashed"}

NoReply == [kind |-> "NoReply"]

Current == Script[pos]

Over == cpc \in {"done", "crashed"}

-----------------------------------------------------------------------------
SearchServer(r) == IF r.type = "Query" THEN view[Len(view)] ELSE view[1]

\* remove_server and chain_extension.
RemoveServer(p) ==
    IF \E i \in DOMAIN view : view[i] = p
    THEN LET i == CHOOSE i \in DOMAIN view :
                     view[i] = p /\ \A j \in 1..(i - 1) : view[j] # p
         IN  SubSeq(view, 1, i - 1) \o SubSeq(view, i + 1, Len(view))
    ELSE view

\* Setsocket of the next client.
OpenSocket ==
    /\ cpc = "closed"
    /\ cpc' = "fresh"
    /\ sock' = Current.from
    /\ UNCHANGED <<pos, retrans, view, accepted, up, udp, tcp, inbox>>

\* The sleep is over: send. The test for a bank without servers looks at the
\* map of all banks, which is never empty, so an empty list is used as if it
\* had a first and a last element.
SendRequest ==
    /\ cpc \in {"fresh", "delay"}
    /\ retrans' = 0
    /\ IF view = <<>>
       THEN /\ cpc' = "crashed"
            /\ sock' = NoClient
            /\ inbox' = <<>>
            /\ UNCHANGED udp
       ELSE /\ cpc' = "wait"
            /\ ToServer(SearchServer(Current), Raw(Current))
            /\ UNCHANGED <<sock, inbox>>
    /\ UNCHANGED <<pos, view, accepted, up, tcp>>

\* Mutant: the retransmissions are not limited.
ResendUnlimited ==
    /\ cpc = "wait" /\ inbox = <<>>
    /\ retrans' = retrans + 1
    /\ ToServer(SearchServer(Current), Raw(Current))
    /\ UNCHANGED <<cpc, pos, view, accepted, up, tcp, sock, inbox>>

\* Mutant: the retransmissions are not counted.
ResendUncounted ==
    /\ cpc = "wait" /\ inbox = <<>> /\ retrans < RetransTime
    /\ ToServer(SearchServer(Current), Raw(Current))
    /\ UNCHANGED <<cpc, pos, retrans, view, accepted, up, tcp, sock, inbox>>

Resend ==
    /\ cpc = "wait" /\ inbox = <<>> /\ retrans < RetransTime
    /\ retrans' = retrans + 1
    /\ ToServer(SearchServer(Current), Raw(Current))
    /\ UNCHANGED <<cpc, pos, view, accepted, up, tcp, sock, inbox>>

\* Go on to the next request, with what is left in the inbox. The last
\* request of a client closes its socket.
Advance(rest) ==
    LET more == pos < Len(Script)
        same == more /\ Script[pos + 1].from = Current.from
    IN  /\ pos' = IF more THEN pos + 1 ELSE pos
        /\ cpc' = IF same THEN "fresh" ELSE IF more THEN "closed" ELSE "done"
        /\ sock' = IF same THEN sock ELSE NoClient
        /\ inbox' = IF same THEN rest ELSE <<>>
        /\ retrans' = 0

\* Mutant: one retransmission too few.
GiveUpEarly ==
    /\ cpc = "wait" /\ inbox = <<>> /\ retrans + 1 >= RetransTime
    /\ Advance(<<>>)
    /\ UNCHANGED <<view, accepted, up, udp, tcp>>

GiveUp ==
    /\ cpc = "wait" /\ inbox = <<>> /\ retrans = RetransTime
    /\ Advance(<<>>)
    /\ UNCHANGED <<view, accepted, up, udp, tcp>>

Arrived(kinds) == cpc = "wait" /\ inbox # <<>> /\ Head(inbox).kind \in kinds

\* Any datagram that is not the master's counts as the reply to the current
\* request: its identifier is printed and not compared.
RecvReply ==
    /\ Arrived({"Reply"})
    /\ accepted' = [accepted EXCEPT ![pos] = Head(inbox)]
    /\ Advance(Tail(inbox))
    /\ UNCHANGED <<view, up, udp, tcp>>

RecvFail ==
    /\ Arrived({"Fail"})
    /\ view' = RemoveServer(Head(inbox).port)
    /\ cpc' = "delay"
    /\ inbox' = Tail(inbox)
    /\ UNCHANGED <<pos, retrans, accepted, up, udp, tcp, sock>>

RecvExtension ==
    /\ Arrived({"Extension", "New_Next"})
    /\ view' = Append(view, Head(inbox).port)
    /\ inbox' = Tail(inbox)
    /\ UNCHANGED <<cpc, pos, retrans, accepted, up, udp, tcp, sock>>

ClientTypeOK ==
    /\ cpc \in ClientPc
    /\ pos \in DOMAIN Script
    /\ retrans \in 0..RetransTime
    /\ view \in Seq(Server \cup {NoServer})
    /\ accepted \in [DOMAIN Script -> ReplyText \cup {NoReply}]

ClientInit(chain) ==
    /\ cpc = "closed"
    /\ pos = 1
    /\ retrans = 0
    /\ view = chain
    /\ accepted = [p \in DOMAIN Script |-> NoReply]
=============================================================================
