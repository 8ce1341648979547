------------------------------- MODULE Setup --------------------------------
(***************************************************************************)
(* How the programs come to agree on the chain and on the requests before  *)
(* the first message: master, client and every server read the same        *)
(* configuration file, each with a loop and flags of its own, and the      *)
(* client generates requests when the file asks for random ones.           *)
(*                                                                         *)
(* A line is a heading or a tuple of the numbers that tokenizer splits it  *)
(* into, without the ip address, which is the same everywhere. All readers *)
(* take a line in one step: they share nothing but the file.               *)
(***************************************************************************)
EXTENDS Integers, Sequences, FiniteSets

CONSTANTS
    Bank,      \* numbers of the banks
    Files,     \* configuration files: sequences of lines
    Draws,     \* what rand() % 100 may give in a row after srand(seed)
    Started    \* the numbers with which the run script starts servers

Query == 0
Deposit == 1
Withdraw == 2
Transfer == 3

ReqType == {Query, Deposit, Withdraw, Transfer}

\* A field of a line. What a line does not have stays 0.
Field(f, i) == IF i \in DOMAIN f THEN f[i] ELSE 0

Headings == {"//Master", "//Server", "//Client ", "//Client:", "//Request"}

\* Where a heading of file F is.
Place(F, head) == CHOOSE i \in DOMAIN F : F[i].head = head

\* Lines i to j are a list of servers or clients.
Listed(F, i, j) ==
    \A n \in i..j : F[n].f \in Seq(Nat) /\ Len(F[n].f) >= 3 /\ F[n].f[1] \in Bank

\* A configuration file as the programs take it for granted, in the form of
\* test.txt: each heading once, in this order, with the lines that must be there
\* below them, no port twice among the servers, and probabilities that add up.
\* There are random numbers for as many requests as it asks for.
WellFormed(F) ==
    LET master  == Place(F, "//Master")
        server  == Place(F, "//Server")
        config  == Place(F, "//Client ")
        client  == Place(F, "//Client:")
        request == Place(F, "//Request")
        last    == F[request + 1].f
    IN  /\ DOMAIN F = 1..Len(F) /\ Len(F) \in Nat
        /\ \A head \in Headings : \E i \in DOMAIN F : F[i].head = head
        /\ \A i \in DOMAIN F :
              F[i].head # "" => i \in {master, server, config, client, request}
        /\ master + 1 < server /\ server < config
        /\ config + 1 < client /\ client < request
        /\ Listed(F, server + 1, config - 1) /\ Listed(F, client + 1, request - 1)
        /\ \A i, j \in (server + 1)..(config - 1) : F[i].f[2] = F[j].f[2] => i = j
        /\ F[config + 1].f \in Seq(Nat)
        /\ Field(F[config + 1].f, 4) # 0 =>
              /\ request < Len(F) /\ last \in Seq(Nat) /\ Len(last) = 6
              /\ last[3] + last[4] + last[5] + last[6] = 100
              /\ \A d \in Draws : last[2] <= Len(d)
        /\ Field(F[config + 1].f, 4) = 0 =>
              \A i \in (request + 1)..Len(F) :
                  /\ F[i].f[1] \in ReqType /\ F[i].f[2] \in Nat \X Nat \X Nat
                  /\ F[i].f[3] \in Nat /\ Field(F[i].f, 4) \in Nat

ASSUME SetupAssumption ==
    /\ Bank \subseteq 1..99
    /\ Started \subseteq Nat \ {0}
    /\ \A d \in Draws : d \in Seq(0..99)
    /\ \A F \in Files : WellFormed(F)

VARIABLES
    file,      \* the configuration file
    draws,     \* the random numbers of its seed
    above,     \* sums of probabilities that come out too high as floats
    line,      \* the line the programs read next
    ms,        \* InitMS: flags, sChain and clients of the master
    srv,       \* main of each server: flags, index, itself and its next
    cl         \* main of the client program: flags, settings, sChain, cChain

vars == <<file, draws, above, line, ms, srv, cl>>

NoServer == -1

\* The first character of a number of at most two digits, as a number.
FirstDigit(n) == IF n < 10 THEN n ELSE n \div 10

Empty == [b \in Bank |-> <<>>]

AddTo(chains, b, x) == [chains EXCEPT ![b] = Append(@, x)]

InitServ(f) == [bank |-> f[1], port |-> f[2], delay |-> f[3]]

\* A server with a startup delay is not added.
Addserver(chains, f) ==
    LET s == InitServ(f)
    IN  IF s.delay = 0 THEN AddTo(chains, s.bank, s.port) ELSE chains

-----------------------------------------------------------------------------
(* The master.                                                             *)

MasterHeading(m, head) ==
    CASE head = "//Master" -> [m EXCEPT !.master = TRUE]
      [] head = "//Server" -> [m EXCEPT !.server = TRUE]
      [] head = "//Client " -> [m EXCEPT !.server = FALSE]
      [] head = "//Client:" -> [m EXCEPT !.client = TRUE]
      [] head = "//Request" -> [m EXCEPT !.over = TRUE]

\* Mutant: the startup delay of a server is not looked at.
MasterDataDelayed(m, f) ==
    IF m.master THEN [m EXCEPT !.master = FALSE]
    ELSE [m EXCEPT !.chain = IF m.server THEN AddTo(@, f[1], f[2]) ELSE @,
                   !.clients = IF m.client THEN AddTo(@, f[1], f[3]) ELSE @]

MasterData(m, f) ==
    IF m.master THEN [m EXCEPT !.master = FALSE]
    ELSE [m EXCEPT !.chain = IF m.server THEN Addserver(@, f) ELSE @,
                   !.clients = IF m.client THEN AddTo(@, f[1], f[3]) ELSE @]

\* The server after port p of bank b, as the loop at the end of InitMS sets it.
MasterNext(b, p) ==
    LET c    == ms.chain[b]
        here == {i \in 1..(Len(c) - 1) : c[i] = p}
    IN  IF here = {} THEN NoServer ELSE c[1 + CHOOSE i \in here : TRUE]

-----------------------------------------------------------------------------
(* A server, started with its number in the file.                          *)

ServerHeading(s, head) ==
    CASE head = "//Master" -> [s EXCEPT !.master = TRUE]
      [] head = "//Server" -> [s EXCEPT !.server = TRUE]
      [] OTHER -> [s EXCEPT !.over = TRUE]

\* Mutant: the bank of the next line is not looked at.
NextOfAnyBank(s, f) == IF f[3] = 0 THEN f[2] ELSE NoServer

\* The line after its own is its next server, if the bank there begins with
\* the digit of its own bank and there is no startup delay.
NextOf(s, f) ==
    IF FirstDigit(f[1]) = s.bank /\ f[3] = 0 THEN f[2] ELSE NoServer

ServerData(k, s, f) ==
    LET own  == s.server /\ s.i + 1 = k
        self == InitServ(f)
    IN  CASE s.master -> [s EXCEPT !.master = FALSE]
          [] ~s.master /\ own ->
                [s EXCEPT !.i = k, !.server = FALSE, !.after = TRUE,
                          !.bank = self.bank, !.port = self.port, !.delay = self.delay]
          [] ~s.master /\ ~own /\ s.after ->
                [s EXCEPT !.next = NextOf(s, f), !.over = TRUE]
          [] OTHER -> [s EXCEPT !.i = IF s.server THEN @ + 1 ELSE @]

-----------------------------------------------------------------------------
(* The client program.                                                     *)

\* Mutant: the search does not stop at the first client.
AddrequestAll(clients, r) ==
    [b \in Bank |-> [i \in DOMAIN clients[b] |->
        IF b = r.bank /\ clients[b][i].acct = r.acct
        THEN [clients[b][i] EXCEPT !.reqs = Append(@, r)] ELSE clients[b][i]]]

\* The first client of the bank with the account gets the request. A request
\* nobody has the account for is forgotten.
Addrequest(clients, r) ==
    [b \in Bank |-> [i \in DOMAIN clients[b] |->
        IF /\ b = r.bank /\ clients[b][i].acct = r.acct
           /\ \A j \in 1..(i - 1) : clients[b][j].acct # r.acct
        THEN [clients[b][i] EXCEPT !.reqs = Append(@, r)] ELSE clients[b][i]]]

\* Parsereq: type, identifier, account, amount. The bank is the first
\* character of the identifier.
ParseRequest(f) ==
    [type |-> f[1], id |-> f[2], bank |-> FirstDigit(f[2][1]), acct |-> f[3],
     amt |-> Field(f, 4)]

\* Mutant: the fault delay is not read.
ParseConfigShort(f) == [i \in 1..4 |-> Field(f, i)]

\* parse_config: retransmission or not, interval, times, random, fault delay.
ParseConfig(f) == [i \in 1..5 |-> Field(f, i)]

InitCli(f) == [acct |-> f[2], port |-> f[3], reqs |-> <<>>]

\* parse_randomized_req: seed, requests for each client, and the probabilities
\* of the four types in hundredths.
ParseRandomizedReq(f) == [i \in 1..6 |-> Field(f, i)]

RandomRequests(c) == c.settings[4] # 0

ClientHeading(c, head) ==
    CASE head = "//Master" -> [c EXCEPT !.master = TRUE]
      [] head = "//Server" -> [c EXCEPT !.master = FALSE, !.server = TRUE]
      [] head = "//Client " -> [c EXCEPT !.server = FALSE, !.config = TRUE]
      [] head = "//Client:" -> [c EXCEPT !.client = TRUE]
      [] head = "//Request" -> [c EXCEPT !.request = TRUE, !.client = FALSE]

ClientData(c, f) ==
    IF c.master THEN [c EXCEPT !.master = FALSE]
    ELSE IF c.server THEN [c EXCEPT !.chain = Addserver(@, f)]
    ELSE IF c.config THEN [c EXCEPT !.config = FALSE, !.settings = ParseConfig(f)]
    ELSE IF c.client
    THEN [c EXCEPT !.clients = AddTo(@, f[1], InitCli(f))]
    ELSE IF ~c.request THEN c
    ELSE IF RandomRequests(c)
    THEN [c EXCEPT !.random = ParseRandomizedReq(f), !.over = TRUE]
    ELSE [c EXCEPT !.clients = Addrequest(@, ParseRequest(f))]

\* Mutant: the probabilities are compared one by one.
DrawnAlone(q, r) ==
    IF r < q[3] THEN Query
    ELSE IF r < q[4] THEN Deposit
    ELSE IF r < q[5] THEN Withdraw ELSE Transfer

\* The type for a number r of hundredths. A sum of two or three floats may come
\* out above the number it stands for.
Drawn(q, r) ==
    LET deposit  == q[3] + q[4]
        withdraw == deposit + q[5]
    IN  IF r < q[3] THEN Query
        ELSE IF r < deposit \/ (r = deposit /\ Deposit \in above) THEN Deposit
        ELSE IF r < withdraw \/ (r = withdraw /\ Withdraw \in above) THEN Withdraw
        ELSE Transfer

\* The constructor with the fields of a request: its identifier is made of bank,
\* client and sequence number.
NewRequest(t, b, client, k, acct, amt) ==
    [type |-> t, id |-> <<b, client, k>>, bank |-> b, acct |-> acct, amt |-> amt]

\* The requests of client c, which has an index in its bank. The generator
\* starts again from the seed for each client.
GenerateRandomReq(q, b, index, c) ==
    [c EXCEPT !.reqs = [k \in 1..q[2] |->
        LET t == Drawn(q, draws[k])
        IN  NewRequest(t, b, index, k, c.acct, IF t = Query THEN 0 ELSE 10 * draws[k])]]

\* Mutant: the index of a client is not counted.
GenerateRanReqSameIndex(c) ==
    [c EXCEPT !.clients = [b \in Bank |-> [i \in DOMAIN @[b] |->
        GenerateRandomReq(c.random, b, 1, @[b][i])]]]

GenerateRanReq(c) ==
    [c EXCEPT !.clients = [b \in Bank |-> [i \in DOMAIN @[b] |->
        GenerateRandomReq(c.random, b, i, @[b][i])]]]

-----------------------------------------------------------------------------
Init ==
    /\ file \in Files
    /\ draws \in Draws
    /\ above \in SUBSET {Deposit, Withdraw}
    /\ line = 1
    /\ ms = [master |-> FALSE, server |-> FALSE, client |-> FALSE, over |-> FALSE,
             chain |-> Empty, clients |-> Empty]
    /\ srv = [k \in Started |->
                [master |-> FALSE, server |-> FALSE, after |-> FALSE, over |-> FALSE,
                 i |-> 0, bank |-> 0, port |-> NoServer, delay |-> 0,
                 next |-> NoServer]]
    /\ cl = [master |-> FALSE, server |-> FALSE, config |-> FALSE, client |-> FALSE,
             request |-> FALSE, over |-> FALSE, ready |-> FALSE,
             settings |-> ParseConfig(<<>>), random |-> ParseRandomizedReq(<<>>),
             chain |-> Empty, clients |-> Empty]

ReadHeading ==
    LET head == file[line].head
    IN  /\ line <= Len(file) /\ head # ""
        /\ line' = line + 1
        /\ ms' = IF ms.over THEN ms ELSE MasterHeading(ms, head)
        /\ srv' = [k \in Started |->
                     IF srv[k].over THEN srv[k] ELSE ServerHeading(srv[k], head)]
        /\ cl' = IF cl.over THEN cl ELSE ClientHeading(cl, head)
        /\ UNCHANGED <<file, draws, above>>

ReadData ==
    LET f == file[line].f
    IN  /\ line <= Len(file) /\ file[line].head = ""
        /\ line' = line + 1
        /\ ms' = IF ms.over THEN ms ELSE MasterData(ms, f)
        /\ srv' = [k \in Started |->
                     IF srv[k].over THEN srv[k] ELSE ServerData(k, srv[k], f)]
        /\ cl' = IF cl.over THEN cl ELSE ClientData(cl, f)
        /\ UNCHANGED <<file, draws, above>>

\* The client has read the file: before it sends, it generates.
Prepare ==
    /\ line > Len(file) /\ ~cl.ready
    /\ cl' = [(IF RandomRequests(cl) THEN GenerateRanReq(cl) ELSE cl)
                 EXCEPT !.ready = TRUE]
    /\ UNCHANGED <<file, draws, above, line, ms, srv>>

Next == ReadHeading \/ ReadData \/ Prepare

Spec == Init /\ [][Next]_vars

-----------------------------------------------------------------------------
(* What the properties speak about.                                        *)

\* The data of the section under a heading.
Section(head) ==
    LET at   == Place(file, head)
        rows == {j \in (at + 1)..Len(file) : \A n \in (at + 1)..j : file[n].head = ""}
    IN  [n \in 1..Cardinality(rows) |-> file[at + n].f]

ServerRows == Section("//Server")

\* What the programs take for granted of the list of servers: the servers of a
\* bank follow each other, the delayed ones last, and the bank is one digit.
InOrder ==
    /\ \A i, j \in DOMAIN ServerRows : i < j =>
          /\ ServerRows[i][1] = ServerRows[j][1] =>
                /\ \A n \in i..j : ServerRows[n][1] = ServerRows[i][1]
                /\ ServerRows[i][3] # 0 => ServerRows[j][3] # 0
    /\ \A i \in DOMAIN ServerRows : ServerRows[i][1] < 10

Clients == {c \in Bank \X (1..Len(file)) : c[2] \in DOMAIN cl.clients[c[1]]}

Reqs(c) == cl.clients[c[1]][c[2]].reqs

Request == [type: ReqType, id: Nat \X Nat \X Nat, bank: Nat, acct: Nat, amt: Nat]

-----------------------------------------------------------------------------
\* Every variable keeps its type.
TypeOK ==
    /\ above \subseteq {Deposit, Withdraw}
    /\ line \in 1..(Len(file) + 1)
    /\ ms.chain \in [Bank -> Seq(Nat)] /\ ms.clients \in [Bank -> Seq(Nat)]
    /\ \A k \in Started : /\ srv[k].i \in 0..k /\ srv[k].bank \in Bank \cup {0}
                          /\ srv[k].next \in Nat \cup {NoServer}
    /\ cl.settings \in [1..5 -> Nat]
    /\ cl.chain \in [Bank -> Seq(Nat)]
    /\ cl.clients \in [Bank -> Seq([acct: Nat, port: Nat, reqs: Seq(Request)])]

\* Client and master start from the same chains, without the delayed servers
\* (InitMS, main of the client).
SameChain == cl.ready => cl.chain = ms.chain

\* Each server takes for its next the server that follows it in the chain of
\* the master, and a delayed server takes none, when the list of servers is in
\* order (main of the server, InitMS).
LinksAgree ==
    cl.ready /\ InOrder => \A k \in Started : srv[k].port # NoServer =>
        srv[k].next = MasterNext(srv[k].bank, srv[k].port)

\* A request of the file is sent by one client at most, the one that has its
\* account at its bank, and each client sends its requests in the order of the
\* file (Addrequest).
RequestsRouted ==
    cl.ready /\ ~RandomRequests(cl) =>
        LET rows == Section("//Request")
            all  == [n \in DOMAIN rows |-> ParseRequest(rows[n])]
        IN  /\ \A c \in Clients : Reqs(c) = <<>> \/ Reqs(c) =
                  SelectSeq(all, LAMBDA r :
                      r.bank = c[1] /\ r.acct = cl.clients[c[1]][c[2]].acct)
            /\ \A c, d \in Clients : \A m \in DOMAIN Reqs(c), n \in DOMAIN Reqs(d) :
                  Reqs(c)[m] = Reqs(d)[n] => c = d

\* No two generated requests have one identifier, which the history of the
\* servers tells requests apart by (GenerateRanReq, Request).
GeneratedApart ==
    cl.ready /\ RandomRequests(cl) =>
        \A c, d \in Clients : \A m \in DOMAIN Reqs(c), n \in DOMAIN Reqs(d) :
            Reqs(c)[m].id = Reqs(d)[n].id => c = d /\ m = n

\* Of the hundred numbers that may be drawn as many become requests of a type
\* as its probability says, give or take one (GenerateRandomReq).
DrawnInShares ==
    cl.ready /\ RandomRequests(cl) =>
        \A t \in ReqType :
            LET share == cl.random[3 + t]
            IN  Cardinality({r \in 0..99 : Drawn(cl.random, r) = t})
                    \in (share - 1)..(share + 1)
=============================================================================
