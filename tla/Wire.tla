-------------------------------- MODULE Wire --------------------------------
(***************************************************************************)
(* Sockets and what travels on them.                                       *)
(*                                                                         *)
(* A server has one UDP socket, which receives client requests and the     *)
(* push notifications of the master, and one listening TCP socket, which   *)
(* receives what the previous server forwards. A client has one UDP        *)
(* socket, bound only while it is that client's turn to send. Datagrams    *)
(* and connections to one receiver arrive in the order they were made;     *)
(* what is sent to a process that is not there is lost.                    *)
(***************************************************************************)
EXTENDS Ledger, Sequences

CONSTANTS
    Server,    \* the servers of one bank, by port number
    NoServer,  \* next == NULL, and port -1 in a notification
    ThreadId,  \* names of the detached threads of a server, a bound
    Itemized   \* the request list is itemized in the file, not random

ASSUME WireAssumption ==
    /\ NoServer \notin Server
    /\ IsFiniteSet(Server)
    /\ ThreadId # {}
    /\ Itemized \in BOOLEAN

VARIABLES
    up,     \* up[s]: the process of server s runs and its sockets are open
    udp,    \* udp[s]: datagrams queued at the UDP socket of s
    tcp,    \* tcp[s]: connections s has not accepted, with what was written
    sock,   \* the client whose UDP socket is bound, NoClient if none is
    inbox   \* datagrams queued at that socket

wireVars == <<up, udp, tcp, sock, inbox>>

-----------------------------------------------------------------------------
(* Messages.                                                               *)

NotiKind == {"Fail", "Extension", "New_Next"}

Raw(r) == [kind |-> "Raw", req |-> r]

\* Mutant: every synchronized request is marked as sent.
PushSent(k, r) == [kind |-> "SyncSent", req |-> [r EXCEPT !.from = NoClient]]

\* Packetize writes the fields and the synchronization type, and no address.
Push(k, r) == [kind |-> k, req |-> [r EXCEPT !.from = NoClient]]

Noti(k, p) == [kind |-> k, port |-> p]

RequestText == [kind: {"Raw", "SyncSent", "SyncProc"}, req: Request]

NotiText == [kind: NotiKind, port: Server \cup {NoServer}]

Text == RequestText \cup NotiText

\* On a connection: nothing has been written yet.
Nothing == [kind |-> "Nothing"]

ReplyText == [kind: {"Reply"}, id: Id, outcome: Outcome, bal: Balance]

Reply(i, o, b) == [kind |-> "Reply", id |-> i, outcome |-> o, bal |-> b]

\* What `new Request(buf)` makes of the text m. A notification such as
\* "2:1:10003" parses too: its type digit selects Deposit or Withdraw, its
\* bank becomes the identifier and its port the account.
Parse(m) ==
    IF m \in RequestText THEN m.req
    ELSE [BlankReq EXCEPT
             !.type = CASE m.kind = "Extension" -> "Deposit"
                        [] m.kind = "New_Next"  -> "Withdraw"
                        [] OTHER                -> "Query"]

\* The synchronization type of the parsed request. Packetize writes it; an
\* itemized update has its address, which atoi reads as 0, in that place; in
\* every other text the field stays uninitialised.
SyncTypes(m) ==
    CASE m.kind \in {"SyncSent", "SyncProc"} -> {m.kind}
      [] m.kind = "Raw" /\ Itemized /\ m.req.type # "Query" -> {"Normal"}
      [] OTHER -> {"Normal", "SyncSent", "SyncProc"}

\* ParseIpaddr: the address a reply to the text m goes to.
Address(m) == IF m \in RequestText THEN m.req.from ELSE NoClient

-----------------------------------------------------------------------------
(* A connection is known by its connecting end: a thread of a server. The  *)
(* pushes of a synchronization use connections nobody reads from.          *)

Conn == [srv: Server \cup {NoServer}, thr: ThreadId]

NoConn == [srv |-> NoServer, thr |-> CHOOSE t \in ThreadId : TRUE]

Packet == [msg: Text \cup {Nothing}, conn: Conn]

ToServer(s, m) ==
    udp' = IF s \in Server /\ up[s] THEN [udp EXCEPT ![s] = Append(@, m)]
           ELSE udp

Connect(s, m, c) ==
    tcp' = [tcp EXCEPT ![s] = Append(@, [msg |-> m, conn |-> c])]

\* A datagram for client c, and one for every client of the bank.
ToClient(c, m) ==
    inbox' = IF sock = c THEN Append(inbox, m) ELSE inbox

ToClients(m) ==
    inbox' = IF sock # NoClient THEN Append(inbox, m) ELSE inbox

WireTypeOK ==
    /\ up \in [Server -> BOOLEAN]
    /\ udp \in [Server -> Seq(Text)]
    /\ tcp \in [Server -> Seq(Packet)]
    /\ sock \in Client \cup {NoClient}
    /\ inbox \in Seq(ReplyText \cup NotiText)
=============================================================================
